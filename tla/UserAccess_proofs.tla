------------------------- MODULE UserAccess_proofs -------------------------
(***************************************************************************)
(* What the user management keeps, for any number of users, browsers,      *)
(* barbers, invites, locations and requests under way, proved from one     *)
(* inductive invariant: what a request knows because it was admitted, the  *)
(* locks it holds once it has them all, and what it knows from its checks  *)
(* until it commits.  A commit can only change what another request relies *)
(* on under a lock that the other one would have to hold (OthersStaySound).*)
(* At the end, what holds of an installation in either mode.               *)
(***************************************************************************)
EXTENDS AuthRuntime, TLAPS

-----------------------------------------------------------------------------
(***************************************************************************)
(* The inductive invariant.                                                *)
(***************************************************************************)
Request == [op : AllOps, at : Steps, actor : Users \cup {None}, ctx : Access,
            user : Users \cup {None}, barber : Barbers \cup {None},
            invite : Invites \cup {None}, email : Emails \cup {None}, place : Places,
            status : {"none", "active", "disabled"}, grant : Access, identity : Identity,
            seen : Barbers \cup {None}, held : SUBSET Lock]

\* The types of the tables, of the session store and of the requests.
Typed ==
    /\ users \in [Users -> User] /\ links \in [Barbers -> Users \cup {None}]
    /\ invites \in [Invites -> Invite] /\ legacy \in [Barbers -> {"none", "open", "used"}]
    /\ cookies \in [Browsers -> Identity] /\ req \in [Browsers -> Request]
    /\ wasReset \in BOOLEAN

Present(u, table) == u \in Users /\ table[u].status # "none"
UserOps == {"identity", "status", "professional", "access", "invite", "revoke_invites",
            "accept", "revoke_sessions", "password", "reset", "accept_legacy"}

\* What holds of a request because it was admitted.
Admitted(q, table) ==
    /\ q.at \in {"lock", "decide", "commit"} =>
        /\ q.op \notin {"login", "logout"}
        /\ q.op \in UserOps => Present(q.user, table)
        /\ q.op \in {"create", "invite_professional"} =>
             Present(q.actor, table) /\ UnderCeiling(q.ctx, q.grant)
        /\ q.op = "access" => UnderCeiling(q.ctx, q.grant)
        /\ q.op \in {"create", "identity"} => q.email \in Emails
        /\ q.op \in {"invite_professional", "reset", "accept_legacy"} => q.barber \in Barbers
        /\ q.op = "accept" => q.invite \in Invites
        /\ q.op = "status" => q.status \in {"active", "disabled"}
    /\ q.at = "read" =>
        /\ q.op \in {"professional", "reset", "accept_legacy"}
        /\ q.op = "professional" => Present(q.user, table)
        /\ q.op \in {"reset", "accept_legacy"} => q.barber \in Barbers
    /\ q.at = "compare" => q.user \in Users /\ q.identity.user = q.user
    /\ q.at = "invalidate" => q.barber \in Barbers
    /\ IsOfItsUser(q.identity, table)

\* The locks of a transaction that has taken them all.
HoldsLocks(q, owners) == q.at \in {"decide", "commit"} =>
    /\ q.op \in UserOps => <<"user", q.user>> \in q.held
    /\ q.op = "bootstrap" => <<"advisory", "bootstrap">> \in q.held
    /\ q.op \in {"status", "access"} => <<"advisory", "administrators">> \in q.held
    /\ q.op \in {"create", "professional"} /\ q.barber # None => <<"barber", q.barber>> \in q.held
    /\ q.op = "professional" /\ q.barber = None =>
         \A b \in Barbers : owners[b] = q.user => <<"barber", b>> \in q.held
    /\ q.op = "invite_professional" =>
         /\ <<"barber", q.barber>> \in q.held
         /\ owners[q.barber] # None => <<"user", owners[q.barber]>> \in q.held

IsActiveAdministrator(row) == row.status = "active" /\ IsGlobalAdministrator(row.access)
\* Some administrator is left when the request is done.
LeavesAnAdministrator(q, table) ==
    \/ \E u \in Users \ {q.user} : IsActiveAdministrator(table[u])
    \/ /\ q.op = "status" /\ q.status = "active" /\ IsGlobalAdministrator(table[q.user].access)
    \/ /\ q.op = "access" /\ table[q.user].status = "active"
       /\ IsGlobalAdministrator(ReplaceScopes(table[q.user].access, q))

\* What a request that was accepted knows until it commits.
Knows(q, table, owners, forgotten) == q.at = "commit" =>
    /\ q.op = "professional" /\ q.barber # None =>
         \A b \in Barbers : owners[b] = q.user => b = q.barber
    /\ q.op = "bootstrap" => \A u \in Users : table[u].status = "none"
    /\ q.op = "status" => /\ table[q.user].status # "invited"
                          /\ q.status = "active" => table[q.user].pw # 0
    /\ q.op = "invite" => table[q.user].status = "invited"
    /\ q.op = "invite_professional" /\ owners[q.barber] # None =>
         table[owners[q.barber]].status = "invited"
    /\ q.op \in {"status", "access"} /\ ~forgotten => LeavesAnAdministrator(q, table)

Sound(q, table, owners, forgotten) ==
    /\ Admitted(q, table)
    /\ HoldsLocks(q, owners)
    /\ Knows(q, table, owners, forgotten)
\* Row locks and advisory locks exclude.
LocksExclude == \A c, d \in Browsers : req[c].held \cap req[d].held # {} => c = d

\* An invite that is being accepted was sent.
InvitesWereSent == \A c \in Browsers :
    req[c].at \in {"lock", "decide", "commit"} /\ req[c].op = "accept" =>
        invites[req[c].invite].state # "none"

\* What the tables keep, the properties among it.
Kept ==
    /\ ReferencesHold(users, links, invites)
    /\ \A c \in Browsers : IsOfItsUser(cookies[c], users)
    /\ ActiveUsersHavePasswords(users)
    /\ InvitesOpenOnce(invites)
    /\ InvitesAreAwaited(invites, users, legacy)
    /\ OnlyAResetTakesTheLastAdministrator

IInv ==
    /\ Typed
    /\ Kept
    /\ LocksExclude
    /\ InvitesWereSent
    /\ \A c \in Browsers : Sound(req[c], users, links, wasReset)

-----------------------------------------------------------------------------
USE DEF Places

\* An empty session is the session of no one.
LEMMA NobodyIsAnIdentity == Nobody \in Identity /\ Nobody.user = None
BY AccessAssumption DEF Nobody, Identity

\* No access gives nothing anywhere.
LEMMA NoAccessIsAnAccess == NoAccess \in Access /\ \A place \in Places : NoAccess[place] = NoScope
BY DEF NoAccess, Access, NoScope, Scope, Presets

\* A browser without a request under way holds nothing.
LEMMA IdleIsARequest ==
    /\ Idle \in Request /\ Idle.held = {} /\ Idle.at = "idle" /\ Idle.op = "logout"
    /\ Idle.identity = Nobody /\ Idle.user = None /\ Idle.barber = None
<1>1. "global" \in Places
  OBVIOUS
<1> QED
  BY <1>1, NobodyIsAnIdentity, NoAccessIsAnAccess DEF Idle, Request, AllOps, Steps

\* A request that holds no transaction knows nothing.
LEMMA OutsideIsSound ==
    ASSUME NEW q \in Request, NEW table, NEW owners, NEW forgotten,
           q.at \notin {"decide", "commit"}, Admitted(q, table)
    PROVE  Sound(q, table, owners, forgotten)
BY DEF Sound, HoldsLocks, Knows

\* A request outside of a transaction.
Outside(q) == q.held = {} /\ q.at \notin {"lock", "decide", "commit"}

\* A request that ended disturbs no one.
LEMMA EndedIsSound ==
    ASSUME NEW table, NEW owners, NEW forgotten
    PROVE  Idle \in Request /\ Outside(Idle) /\ Sound(Idle, table, owners, forgotten)
<1>1. Admitted(Idle, table)
  BY IdleIsARequest, NobodyIsAnIdentity DEF Admitted, IsOfItsUser
<1> QED
  BY <1>1, IdleIsARequest, OutsideIsSound DEF Outside

-----------------------------------------------------------------------------
\* What As(c, op) is: a request of a present user with the access of that moment.
LEMMA RequestsOfASession ==
    ASSUME Typed, NEW c \in Browsers, Valid(c), NEW op \in AllOps
    PROVE  /\ As(c, op) \in Request /\ As(c, op).op = op /\ As(c, op).at = "lock"
           /\ As(c, op).actor = cookies[c].user /\ Present(As(c, op).actor, users)
           /\ As(c, op).ctx = users[cookies[c].user].access
           /\ As(c, op).identity = Nobody /\ As(c, op).held = {}
           /\ As(c, op).barber = None
<1>1. cookies[c].user \in Users
  BY DEF Typed, Valid, Identity
<1>2. users[cookies[c].user] \in User
  BY <1>1 DEF Typed
<1>3. users[cookies[c].user].access \in Access
  BY <1>2 DEF User
<1> QED
  BY <1>1, <1>3, IdleIsARequest, AccessAssumption DEF As, Present, Valid, Request, Steps

\* What RowAfter makes of a row: either nothing, or a row of the next version, so that
\* no session of the old one is valid; an access that is replaced always has a new version.
LEMMA RowsAfter ==
    ASSUME Typed, NEW q \in Request, q.op \in UserOps, Present(q.user, users),
           NEW row, row = users[q.user],
           q.op = "identity" => q.email \in Emails,
           q.op = "status" => q.status \in {"active", "disabled"}
    PROVE  /\ RowAfter(q) \in User
           /\ RowAfter(q) = row \/ RowAfter(q).version = row.version + 1
           /\ q.op = "access" => RowAfter(q).version = row.version + 1
           /\ RowAfter(q).status = IF q.op = "status" THEN q.status
                                   ELSE IF q.op \in {"accept", "accept_legacy"} THEN "active"
                                   ELSE IF q.op = "reset" THEN "invited"
                                   ELSE row.status
           /\ RowAfter(q).pw = IF q.op \in {"accept", "accept_legacy", "password"}
                               THEN row.version + 1
                               ELSE IF q.op = "reset" THEN 0 ELSE row.pw
           /\ RowAfter(q).access = IF q.op = "access" THEN ReplaceScopes(row.access, q)
                                   ELSE row.access
<1>1. row \in User
  BY DEF Typed, Present
<1>2. ReplaceScopes(row.access, q) \in Access
  <2>1. q.grant \in Access /\ row.access \in Access /\ q.place \in Places
    BY <1>1 DEF User, Request
  <2>2. q.grant[q.place] \in Scope
    BY <2>1 DEF Access
  <2> QED
    BY <2>1, <2>2 DEF ReplaceScopes, Access
<1>0. /\ row.version \in Nat /\ row.pw \in Nat /\ row.access \in Access /\ q.email \in Emails \cup {None}
       /\ q.op = "identity" => q.email \in Emails
  BY <1>1 DEF User, Request
<1>3. CASE q.op = "identity"
  <2>1. CASE q.email = row.email
    BY <1>1, <1>3, <2>1 DEF RowAfter
  <2>2. CASE ~(q.email = row.email)
    <3>1. RowAfter(q) = [status |-> row.status, version |-> row.version + 1, pw |-> row.pw,
                      email |-> q.email, access |-> row.access]
      BY <1>1, <1>3, <2>2 DEF RowAfter, Bump, User
    <3> QED
      BY <1>0, <1>1, <1>2, <1>3, <3>1 DEF User
  <2> QED
    BY <2>1, <2>2
<1>4. CASE q.op = "status"
  <2>1. CASE q.status = row.status
    BY <1>1, <1>4, <2>1 DEF RowAfter
  <2>2. CASE ~(q.status = row.status)
    <3>1. RowAfter(q) = [status |-> q.status, version |-> row.version + 1, pw |-> row.pw,
                      email |-> row.email, access |-> row.access]
      BY <1>1, <1>4, <2>2 DEF RowAfter, Bump, User
    <3> QED
      BY <1>0, <1>1, <1>2, <1>4, <3>1 DEF User
  <2> QED
    BY <2>1, <2>2
<1>5. CASE q.op = "professional"
  <2>1. CASE q.seen = q.barber
    BY <1>1, <1>5, <2>1 DEF RowAfter
  <2>2. CASE ~(q.seen = q.barber)
    <3>1. RowAfter(q) = [status |-> row.status, version |-> row.version + 1, pw |-> row.pw,
                      email |-> row.email, access |-> row.access]
      BY <1>1, <1>5, <2>2 DEF RowAfter, Bump, User
    <3> QED
      BY <1>0, <1>1, <1>2, <1>5, <3>1 DEF User
  <2> QED
    BY <2>1, <2>2
<1>6. CASE q.op = "access"
  <2>1. RowAfter(q) = [status |-> row.status, version |-> row.version + 1, pw |-> row.pw,
                      email |-> row.email, access |-> ReplaceScopes(row.access, q)]
    BY <1>1, <1>6 DEF RowAfter, Bump, User, WithAccessReplaced
  <2> QED
    BY <1>0, <1>1, <1>2, <1>6, <2>1 DEF User
<1>7. CASE q.op \in {"accept", "accept_legacy"}
  <2>1. RowAfter(q) = [status |-> "active", version |-> row.version + 1, pw |-> row.version + 1,
                      email |-> row.email, access |-> row.access]
    BY <1>1, <1>7 DEF RowAfter, Bump, User
  <2> QED
    BY <1>0, <1>1, <1>2, <1>7, <2>1 DEF User
<1>8. CASE q.op = "password"
  <2>1. RowAfter(q) = [status |-> row.status, version |-> row.version + 1, pw |-> row.version + 1,
                      email |-> row.email, access |-> row.access]
    BY <1>1, <1>8 DEF RowAfter, Bump, User
  <2> QED
    BY <1>0, <1>1, <1>2, <1>8, <2>1 DEF User
<1>9. CASE q.op = "reset"
  <2>1. RowAfter(q) = [status |-> "invited", version |-> row.version + 1, pw |-> 0,
                      email |-> row.email, access |-> row.access]
    BY <1>1, <1>9 DEF RowAfter, Bump, User
  <2> QED
    BY <1>0, <1>1, <1>2, <1>9, <2>1 DEF User
<1>10. CASE q.op = "revoke_sessions"
  <2>1. RowAfter(q) = [status |-> row.status, version |-> row.version + 1, pw |-> row.pw,
                      email |-> row.email, access |-> row.access]
    BY <1>1, <1>10 DEF RowAfter, Bump, User
  <2> QED
    BY <1>0, <1>1, <1>2, <1>10, <2>1 DEF User
<1>11. CASE q.op \in {"invite", "revoke_invites"}
  <2>1. RowAfter(q) = row
    BY <1>11 DEF RowAfter
  <2> QED
    BY <1>0, <1>1, <1>11, <2>1 DEF User
<1> QED
  BY <1>3, <1>4, <1>5, <1>6, <1>7, <1>8, <1>9, <1>10, <1>11 DEF UserOps
-----------------------------------------------------------------------------
\* What a transaction that holds these locks does to the rows, the links and the
\* administrators that others rely on.
RowsMove(locks, table, table2) == \A u \in Users :
    \/ table2[u] = table[u]
    \/ table[u].status = "none" /\ table2[u].status # "none"
    \/ /\ <<"user", u>> \in locks
       /\ table2[u].status # "none" /\ table2[u].version = table[u].version + 1
LinksMove(locks, table, owners, owners2) == \A b \in Barbers :
    \/ owners2[b] = owners[b]
    \/ /\ <<"barber", b>> \in locks
       /\ \/ owners2[b] = None
          \/ /\ owners2[b] \in Users
             /\ <<"user", owners2[b]>> \in locks \/ table[owners2[b]].status = "none"
InstallationMoves(locks, table, table2) ==
    \/ \A u \in Users : table[u].status = "none" => table2[u].status = "none"
    \/ <<"advisory", "bootstrap">> \in locks
    \/ \E u \in Users : table[u].status # "none"
AdministratorsMove(locks, table, table2, forgotten2) ==
    \/ forgotten2
    \/ <<"advisory", "administrators">> \in locks
    \/ \A u \in Users : IsActiveAdministrator(table[u]) => IsActiveAdministrator(table2[u])

\* An identity that was its user's stays so: a row changes only with its version.
LEMMA IdentitiesAgree ==
    ASSUME NEW locks, NEW table \in [Users -> User], NEW table2 \in [Users -> User],
           RowsMove(locks, table, table2), NEW identity \in Identity, IsOfItsUser(identity, table)
    PROVE  IsOfItsUser(identity, table2)
<1> SUFFICES ASSUME identity.user # None
             PROVE  /\ table2[identity.user].status # "none"
                    /\ identity.version <= table2[identity.user].version
                    /\ identity.version = table2[identity.user].version
                         => identity.pw = table2[identity.user].pw
  BY DEF IsOfItsUser
<1>1. identity.user \in Users /\ identity.version \in Nat
  BY DEF Identity
<1>2. /\ table[identity.user].status # "none"
      /\ identity.version <= table[identity.user].version
      /\ identity.version = table[identity.user].version => identity.pw = table[identity.user].pw
  BY DEF IsOfItsUser
<1>3. table[identity.user].version \in Nat /\ table2[identity.user].version \in Nat
  BY <1>1 DEF User
<1>4. CASE table2[identity.user] = table[identity.user]
  BY <1>2, <1>4
<1>5. CASE /\ table2[identity.user].status # "none"
           /\ table2[identity.user].version = table[identity.user].version + 1
  BY <1>1, <1>2, <1>3, <1>5
<1> QED
  BY <1>1, <1>2, <1>4, <1>5 DEF RowsMove

\* A commit disturbs nothing that a request relies on under the locks it holds.
LEMMA OthersStaySound ==
    ASSUME NEW q \in Request, NEW locks, q.held \cap locks = {},
           NEW table \in [Users -> User], NEW table2 \in [Users -> User],
           NEW owners \in [Barbers -> Users \cup {None}],
           NEW owners2 \in [Barbers -> Users \cup {None}],
           NEW forgotten \in BOOLEAN, NEW forgotten2 \in BOOLEAN, forgotten => forgotten2,
           RowsMove(locks, table, table2), LinksMove(locks, table, owners, owners2),
           InstallationMoves(locks, table, table2),
           AdministratorsMove(locks, table, table2, forgotten2),
           \A b \in Barbers : owners[b] # None => table[owners[b]].status # "none",
           Sound(q, table, owners, forgotten)
    PROVE  Sound(q, table2, owners2, forgotten2)
<1>0. Admitted(q, table) /\ HoldsLocks(q, owners) /\ Knows(q, table, owners, forgotten)
  BY DEF Sound
<1>1. \A u : Present(u, table) => Present(u, table2)
  BY DEF Present, RowsMove
<1>2. \A u \in Users : Present(u, table) /\ <<"user", u>> \in q.held => table2[u] = table[u]
  BY DEF Present, RowsMove
<1>3. \A b \in Barbers : <<"barber", b>> \in q.held => owners2[b] = owners[b]
  BY DEF LinksMove
<1>4. Admitted(q, table2)
  <2>1. IsOfItsUser(q.identity, table2)
    BY <1>0, IdentitiesAgree DEF Admitted, Request
  <2> QED
    BY <1>0, <1>1, <2>1 DEF Admitted
<1>5. q.op \in UserOps /\ q.at \in {"decide", "commit"} =>
        \A b \in Barbers : owners2[b] = q.user => owners[b] = q.user
  <2> SUFFICES ASSUME q.op \in UserOps, q.at \in {"decide", "commit"},
                      NEW b \in Barbers, owners2[b] = q.user, owners[b] # q.user
               PROVE  FALSE
    OBVIOUS
  <2>1. Present(q.user, table) /\ <<"user", q.user>> \in q.held
    BY <1>0 DEF Admitted, HoldsLocks
  <2> QED
    BY <2>1, AccessAssumption DEF LinksMove, Present
<1>6. q.at \in {"decide", "commit"} /\ q.op = "invite_professional" =>
        /\ q.barber \in Barbers /\ owners2[q.barber] = owners[q.barber]
        /\ owners[q.barber] # None =>
             owners[q.barber] \in Users /\ table2[owners[q.barber]] = table[owners[q.barber]]
  <2> SUFFICES ASSUME q.at \in {"decide", "commit"}, q.op = "invite_professional"
               PROVE  /\ q.barber \in Barbers /\ owners2[q.barber] = owners[q.barber]
                      /\ owners[q.barber] # None => owners[q.barber] \in Users
                           /\ table2[owners[q.barber]] = table[owners[q.barber]]
    OBVIOUS
  <2>1. q.barber \in Barbers
    BY <1>0 DEF Admitted
  <2>2. <<"barber", q.barber>> \in q.held
        /\ (owners[q.barber] # None => <<"user", owners[q.barber]>> \in q.held)
    BY <1>0 DEF HoldsLocks
  <2> QED
    BY <1>2, <1>3, <2>1, <2>2 DEF Present
<1>7. HoldsLocks(q, owners2)
  <2> SUFFICES ASSUME q.at \in {"decide", "commit"}
               PROVE  HoldsLocks(q, owners2)
    BY DEF HoldsLocks
  <2>1. q.op = "professional" /\ q.barber = None =>
           \A b \in Barbers : owners2[b] = q.user => <<"barber", b>> \in q.held
    BY <1>0, <1>5 DEF HoldsLocks, UserOps
  <2>2. q.op = "invite_professional" =>
         /\ <<"barber", q.barber>> \in q.held
         /\ owners2[q.barber] # None => <<"user", owners2[q.barber]>> \in q.held
    BY <1>0, <1>6 DEF HoldsLocks
  <2> QED
    BY <1>0, <2>1, <2>2 DEF HoldsLocks
<1>8. Knows(q, table2, owners2, forgotten2)
  <2> SUFFICES ASSUME q.at = "commit"
               PROVE  Knows(q, table2, owners2, forgotten2)
    BY DEF Knows
  <2>1. q.op = "professional" /\ q.barber # None =>
           \A b \in Barbers : owners2[b] = q.user => b = q.barber
    BY <1>0, <1>5 DEF Knows, UserOps
  <2>2. q.op = "bootstrap" => \A u \in Users : table2[u].status = "none"
    BY <1>0 DEF Knows, HoldsLocks, InstallationMoves
  <2>3. q.op \in UserOps => q.user \in Users /\ table2[q.user] = table[q.user]
    BY <1>0, <1>2 DEF Admitted, HoldsLocks, Present
  <2>4. q.op = "invite_professional" /\ owners2[q.barber] # None =>
           table2[owners2[q.barber]].status = "invited"
    BY <1>0, <1>6 DEF Knows
  <2>5. q.op \in {"status", "access"} /\ ~forgotten2 => LeavesAnAdministrator(q, table2)
    <3> SUFFICES ASSUME q.op \in {"status", "access"}, ~forgotten2
                 PROVE  LeavesAnAdministrator(q, table2)
      OBVIOUS
    <3>1. LeavesAnAdministrator(q, table) /\ <<"advisory", "administrators">> \in q.held
      BY <1>0 DEF Knows, HoldsLocks
    <3>2. table2[q.user] = table[q.user]
      BY <2>3 DEF UserOps
    <3> QED
      BY <3>1, <3>2 DEF LeavesAnAdministrator, AdministratorsMove
  <2> QED
    BY <1>0, <2>1, <2>2, <2>3, <2>4, <2>5 DEF Knows, UserOps
<1> QED
  BY <1>4, <1>7, <1>8 DEF Sound
-----------------------------------------------------------------------------
\* A transaction that only rewrites the row of its user.
LEMMA RowsCommitted ==
    ASSUME IInv, NEW c \in Browsers, At(c, "commit"), req[c].op \in UserOps,
           users' = UsersAfter(req[c]),
           wasReset' = IF req[c].op = "reset" THEN TRUE ELSE wasReset
    PROVE  /\ users' \in [Users -> User] /\ wasReset' \in BOOLEAN
           /\ RowsMove(req[c].held, users, users')
           /\ InstallationMoves(req[c].held, users, users')
           /\ AdministratorsMove(req[c].held, users, users', wasReset')
           /\ ActiveUsersHavePasswords(users')
           /\ OnlyAResetTakesTheLastAdministrator'
           /\ \A u \in Users : users'[u].status # users[u].status =>
                u = req[c].user /\ req[c].op \in {"status", "accept", "accept_legacy", "reset"}
           /\ req[c].user \in Users /\ users'[req[c].user] = RowAfter(req[c])
<1> DEFINE q == req[c]
<1>1. q \in Request /\ q.at = "commit" /\ users \in [Users -> User] /\ wasReset \in BOOLEAN
  BY DEF IInv, Typed, At
<1>2. Admitted(q, users) /\ HoldsLocks(q, links) /\ Knows(q, users, links, wasReset)
  BY DEF IInv, Sound
<1>3. q.op \in UserOps /\ users' = [users EXCEPT ![q.user] = RowAfter(q)]
      /\ wasReset' = IF q.op = "reset" THEN TRUE ELSE wasReset
  BY DEF UsersAfter
<1>4. Typed /\ Kept
  BY DEF IInv
<1> HIDE DEF q
<1>5. Present(q.user, users) /\ <<"user", q.user>> \in q.held
  BY <1>1, <1>2, <1>3 DEF Admitted, HoldsLocks
<1> DEFINE row == users[q.user]
           after == RowAfter(q)
<1>6. q.user \in Users /\ row \in User /\ row.status # "none"
  BY <1>1, <1>5 DEF Present
<1>7. q.op = "identity" => q.email \in Emails
  BY <1>1, <1>2 DEF Admitted
<1>8. q.op = "status" => q.status \in {"active", "disabled"}
  BY <1>1, <1>2 DEF Admitted
<1>9. /\ after \in User
      /\ after = row \/ after.version = row.version + 1
      /\ after.status = IF q.op = "status" THEN q.status
                        ELSE IF q.op \in {"accept", "accept_legacy"} THEN "active"
                        ELSE IF q.op = "reset" THEN "invited"
                        ELSE row.status
      /\ after.pw = IF q.op \in {"accept", "accept_legacy", "password"} THEN row.version + 1
                    ELSE IF q.op = "reset" THEN 0 ELSE row.pw
      /\ after.access = IF q.op = "access" THEN ReplaceScopes(row.access, q) ELSE row.access
  BY <1>1, <1>3, <1>4, <1>5, <1>7, <1>8, RowsAfter
<1>10. users'[q.user] = after /\ \A u \in Users : u # q.user => users'[u] = users[u]
  BY <1>1, <1>3, <1>6
<1>11. row.version \in Nat
  BY <1>6 DEF User
<1> HIDE DEF row, after
<1>12. users' \in [Users -> User] /\ wasReset' \in BOOLEAN
  BY <1>1, <1>3, <1>9 DEF after
<1>13. after.status # "none"
  BY <1>6, <1>8, <1>9
<1>14. RowsMove(q.held, users, users')
  BY <1>5, <1>9, <1>10, <1>13 DEF RowsMove, row
<1>15. InstallationMoves(q.held, users, users')
  BY <1>6 DEF InstallationMoves, row
<1>16. q.op \notin {"status", "access", "reset"} =>
         (IsActiveAdministrator(row) => IsActiveAdministrator(after))
  BY <1>9 DEF IsActiveAdministrator
<1>17. AdministratorsMove(q.held, users, users', wasReset')
  <2>1. CASE q.op \in {"status", "access"}
    BY <1>1, <1>2, <2>1 DEF HoldsLocks, AdministratorsMove
  <2>2. CASE q.op = "reset"
    BY <1>3, <2>2 DEF AdministratorsMove
  <2>3. CASE q.op \notin {"status", "access", "reset"}
    BY <1>10, <1>16, <2>3 DEF AdministratorsMove, row
  <2> QED
    BY <2>1, <2>2, <2>3
<1>18. ActiveUsersHavePasswords(users')
  <2>1. after.status = "active" => after.pw # 0
    <3>1. row.status = "active" => row.pw # 0
      BY <1>4, <1>6 DEF Kept, ActiveUsersHavePasswords, row
    <3>2. q.op = "status" /\ q.status = "active" => row.pw # 0
      BY <1>1, <1>2 DEF Knows, row
    <3> QED
      BY <1>9, <1>11, <3>1, <3>2
  <2> QED
    BY <1>4, <1>10, <2>1 DEF Kept, ActiveUsersHavePasswords
<1>19. ~wasReset' => \E u \in Users : IsActiveAdministrator(users'[u])
  <2> SUFFICES ASSUME ~wasReset'
               PROVE  \E u \in Users : IsActiveAdministrator(users'[u])
    OBVIOUS
  <2>1. ~wasReset /\ q.op # "reset"
    BY <1>3
  <2>2. CASE q.op \in {"status", "access"}
    <3>1. LeavesAnAdministrator(q, users)
      BY <1>1, <1>2, <2>1, <2>2 DEF Knows
    <3>2. CASE \E u \in Users \ {q.user} : IsActiveAdministrator(users[u])
      BY <1>10, <3>2
    <3>3. CASE ~\E u \in Users \ {q.user} : IsActiveAdministrator(users[u])
      <4>1. IsActiveAdministrator(after)
        BY <1>9, <2>2, <3>1, <3>3 DEF LeavesAnAdministrator, IsActiveAdministrator, row
      <4> QED
        BY <1>6, <1>10, <4>1
    <3> QED
      BY <3>2, <3>3
  <2>3. CASE q.op \notin {"status", "access", "reset"}
    <3>1. \E u \in Users : IsActiveAdministrator(users[u])
      BY <1>4, <1>6, <2>1 DEF Kept, OnlyAResetTakesTheLastAdministrator,
         OneAdministratorRemains, ActiveAdministrators, IsActiveAdministrator, row
    <3> QED
      BY <1>10, <1>16, <2>3, <3>1 DEF row
  <2> QED
    BY <2>1, <2>2, <2>3
<1>20. OnlyAResetTakesTheLastAdministrator'
  BY <1>19 DEF OnlyAResetTakesTheLastAdministrator, OneAdministratorRemains,
     ActiveAdministrators, IsActiveAdministrator
<1>21. \A u \in Users : users'[u].status # users[u].status =>
         u = q.user /\ q.op \in {"status", "accept", "accept_legacy", "reset"}
  BY <1>9, <1>10 DEF row
<1> QED
  BY <1>6, <1>10, <1>12, <1>14, <1>15, <1>17, <1>18, <1>20, <1>21 DEF q, after

\* Revoking the open invites of a user opens none, and leaves none of that user's.
LEMMA InvitesRevoked ==
    ASSUME Typed, NEW u
    PROVE  /\ Revoke(invites, u) \in [Invites -> Invite]
           /\ \A i \in Invites :
                /\ Revoke(invites, u)[i].user = invites[i].user
                /\ Revoke(invites, u)[i].state = "open" =>
                     invites[i].state = "open" /\ invites[i].user # u
                /\ Revoke(invites, u)[i].state # "none" <=> invites[i].state # "none"
<1> SUFFICES ASSUME NEW i \in Invites
             PROVE  /\ Revoke(invites, u)[i] \in Invite
                    /\ Revoke(invites, u)[i].user = invites[i].user
                    /\ Revoke(invites, u)[i].state = "open" =>
                         invites[i].state = "open" /\ invites[i].user # u
                    /\ Revoke(invites, u)[i].state # "none" <=> invites[i].state # "none"
  BY DEF Revoke
<1>1. invites[i] \in Invite
  BY DEF Typed
<1>2. Revoke(invites, u)[i] =
        IF i \in OpenOf(u) THEN [invites[i] EXCEPT !.state = "revoked"] ELSE invites[i]
  BY DEF Revoke
<1> QED
  BY <1>1, <1>2 DEF OpenOf, Invite

\* A new invite replaces the open ones of its user.
LEMMA InvitesCreated ==
    ASSUME Typed, InvitesOpenOnce(invites), NEW u \in Users, CreateInvite(u)
    PROVE  /\ invites' \in [Invites -> Invite] /\ InvitesOpenOnce(invites')
           /\ \A i \in Invites :
                \/ invites'[i].user = u
                \/ /\ invites'[i].user = invites[i].user
                   /\ invites'[i].state = "open" => invites[i].state = "open"
                   /\ invites'[i].state # "none" => invites[i].state # "none"
           /\ \A i \in Invites : invites[i].state # "none" => invites'[i].state # "none"
<1>1. PICK n \in Invites : invites' = [Revoke(invites, u) EXCEPT ![n] = [user |-> u, state |-> "open"]]
  BY DEF CreateInvite
<1>2. [user |-> u, state |-> "open"] \in Invite
  BY DEF Invite
<1>3. invites' \in [Invites -> Invite]
  BY <1>1, <1>2, InvitesRevoked
<1>4. \A i \in Invites : invites'[i] = IF i = n THEN [user |-> u, state |-> "open"]
                                       ELSE Revoke(invites, u)[i]
  BY <1>1, InvitesRevoked
<1> QED
  BY <1>3, <1>4, InvitesRevoked DEF InvitesOpenOnce
-----------------------------------------------------------------------------
\* The request that is about to write a session.
LEMMA CookieIsSound ==
    ASSUME NEW identity \in Identity, NEW table, IsOfItsUser(identity, table),
           NEW owners, NEW forgotten,
           NEW q, q = [Idle EXCEPT !.at = "cookie", !.identity = identity]
    PROVE  q \in Request /\ Outside(q) /\ Sound(q, table, owners, forgotten)
<1>1. q \in Request /\ q.held = {} /\ q.at = "cookie" /\ q.identity = identity
  BY IdleIsARequest DEF Request, Steps
<1> QED
  BY <1>1, OutsideIsSound DEF Admitted, Outside

\* The request that is about to clear its own session.
LEMMA ClearIsSound ==
    ASSUME NEW table, NEW owners, NEW forgotten, NEW q, q = [Idle EXCEPT !.at = "clear"]
    PROVE  q \in Request /\ Outside(q) /\ Sound(q, table, owners, forgotten)
<1>1. q \in Request /\ q.held = {} /\ q.at = "clear" /\ q.identity = Nobody
  BY IdleIsARequest DEF Request, Steps
<1> QED
  BY <1>1, OutsideIsSound, NobodyIsAnIdentity DEF Admitted, IsOfItsUser, Outside

\* The request that is about to invalidate the legacy invites of a barber.
LEMMA InvalidationIsSound ==
    ASSUME NEW b \in Barbers, NEW table, NEW owners, NEW forgotten,
           NEW q, q = [Idle EXCEPT !.at = "invalidate", !.barber = b]
    PROVE  q \in Request /\ Outside(q) /\ Sound(q, table, owners, forgotten)
<1>1. /\ q \in Request /\ q.held = {} /\ q.at = "invalidate" /\ q.identity = Nobody
      /\ q.barber = b
  BY IdleIsARequest DEF Request, Steps
<1> QED
  BY <1>1, OutsideIsSound, NobodyIsAnIdentity DEF Admitted, IsOfItsUser, Outside

\* What every commit does.
SafeCommit(c) ==
    /\ users' \in [Users -> User] /\ links' \in [Barbers -> Users \cup {None}]
    /\ invites' \in [Invites -> Invite] /\ legacy' \in [Barbers -> {"none", "open", "used"}]
    /\ wasReset' \in BOOLEAN /\ (wasReset => wasReset')
    /\ RowsMove(req[c].held, users, users') /\ LinksMove(req[c].held, users, links, links')
    /\ InstallationMoves(req[c].held, users, users')
    /\ AdministratorsMove(req[c].held, users, users', wasReset')
    /\ ReferencesHold(users', links', invites')
    /\ ActiveUsersHavePasswords(users')
    /\ InvitesOpenOnce(invites')
    /\ InvitesAreAwaited(invites', users', legacy')
    /\ \A i \in Invites : invites[i].state # "none" => invites'[i].state # "none"
    /\ OnlyAResetTakesTheLastAdministrator'
    /\ \E q \in Request : /\ req' = [req EXCEPT ![c] = q]
                          /\ Outside(q) /\ Sound(q, users', links', wasReset')

\* A safe commit keeps the invariant.
LEMMA CommitStep ==
    ASSUME IInv, NEW c \in Browsers, SafeCommit(c), cookies' = cookies
    PROVE  IInv'
<1>1. PICK q \in Request : /\ req' = [req EXCEPT ![c] = q]
                           /\ Outside(q) /\ Sound(q, users', links', wasReset')
  BY DEF SafeCommit
<1>2. Typed /\ Kept /\ LocksExclude /\ \A d \in Browsers : Sound(req[d], users, links, wasReset)
  BY DEF IInv
<1>3. req \in [Browsers -> Request] /\ cookies \in [Browsers -> Identity]
  BY <1>2 DEF Typed
<1>4. req'[c] = q /\ \A d \in Browsers : d # c => req'[d] = req[d]
  BY <1>1, <1>3
<1>5. Typed'
  BY <1>1, <1>3 DEF SafeCommit, Typed
<1>6. LocksExclude'
  BY <1>1, <1>2, <1>4 DEF LocksExclude, Outside
<1>7. Kept'
  <2>1. \A d \in Browsers : IsOfItsUser(cookies'[d], users')
    <3> SUFFICES ASSUME NEW d \in Browsers
                 PROVE  IsOfItsUser(cookies[d], users')
      OBVIOUS
    <3>1. cookies[d] \in Identity /\ IsOfItsUser(cookies[d], users)
      BY <1>2, <1>3 DEF Kept
    <3> QED
      BY <1>2, <3>1, IdentitiesAgree DEF SafeCommit, Typed
  <2> QED
    BY <2>1 DEF SafeCommit, Kept
<1>8. ASSUME NEW d \in Browsers
      PROVE  Sound(req'[d], users', links', wasReset')
  <2>1. CASE d = c
    BY <1>1, <1>4, <2>1
  <2>2. CASE d # c
    <3>1. req[d] \in Request /\ req[d].held \cap req[c].held = {}
      BY <1>2, <1>3, <2>2 DEF LocksExclude
    <3>2. Sound(req[d], users, links, wasReset)
      BY <1>2
    <3>3. \A b \in Barbers : links[b] # None => users[links[b]].status # "none"
      BY <1>2 DEF Kept, ReferencesHold
    <3>4. Sound(req[d], users', links', wasReset')
      BY <1>2, <3>1, <3>2, <3>3, OthersStaySound DEF SafeCommit, Typed
    <3> QED
      BY <1>4, <2>2, <3>4
  <2> QED
    BY <2>1, <2>2
<1>9. InvitesWereSent'
  <2> SUFFICES ASSUME NEW d \in Browsers, req'[d].at \in {"lock", "decide", "commit"},
                      req'[d].op = "accept"
               PROVE  invites'[req'[d].invite].state # "none"
    BY DEF InvitesWereSent
  <2>1. d # c
    BY <1>1, <1>4 DEF Outside
  <2>2. req[d].invite \in Invites /\ invites[req[d].invite].state # "none"
    BY <1>2, <1>4, <2>1 DEF IInv, InvitesWereSent, Sound, Admitted
  <2> QED
    BY <1>4, <2>1, <2>2 DEF SafeCommit
<1> QED
  BY <1>5, <1>6, <1>7, <1>8, <1>9 DEF IInv

\* References to users survive what a commit does to the rows.
LEMMA ReferencesSurvive ==
    ASSUME Typed, Kept, NEW locks, RowsMove(locks, users, users')
    PROVE  /\ \A b \in Barbers : links[b] # None => users'[links[b]].status # "none"
           /\ \A i \in Invites : invites[i].state # "none" =>
                invites[i].user \in Users /\ users'[invites[i].user].status # "none"
           /\ LinksMove(locks, users, links, links)
BY DEF Typed, Kept, ReferencesHold, RowsMove, LinksMove

\* A user whose status stays, or who is waiting from now on, keeps the invites in order.
LEMMA InvitesStayAwaited ==
    ASSUME Typed, Kept, NEW list, NEW old,
           (\E b \in Barbers : legacy[b] = "used") => \E b \in Barbers : old[b] = "used",
           \A i \in Invites : list[i].state = "open" =>
             \/ users'[list[i].user].status = "invited"
             \/ \E b \in Barbers : old[b] = "used"
             \/ /\ invites[i].state = "open" /\ list[i].user = invites[i].user
                /\ users[invites[i].user].status = "invited" =>
                     users'[invites[i].user].status = "invited"
    PROVE  InvitesAreAwaited(list, users', old)
BY DEF Kept, InvitesAreAwaited
-----------------------------------------------------------------------------
\* bootstrapCanonicalAdministrator: nobody can have arrived since it saw no users.
LEMMA BootstrapIsSafe ==
    ASSUME IInv, NEW c \in Browsers, At(c, "commit"), CommitBootstrap(c), wasReset' = wasReset
    PROVE  SafeCommit(c)
<1> DEFINE q == req[c]
           row == [status |-> "active", version |-> 1, pw |-> 1, email |-> CHOOSE e \in Emails : TRUE,
                   access |-> [NoAccess EXCEPT !["global"].preset = "administrator"]]
<1>1. PICK u \in Users : /\ q.op = "bootstrap" /\ users[u].status = "none"
                         /\ users' = [users EXCEPT ![u] = row]
                         /\ req' = [req EXCEPT ![c] = [Idle EXCEPT !.at = "cookie",
                               !.identity = [user |-> u, version |-> 1, pw |-> 1]]]
                         /\ UNCHANGED <<links, invites, legacy>>
  BY DEF CommitBootstrap
<1>2. Typed /\ Kept /\ q.at = "commit" /\ Sound(q, users, links, wasReset)
  BY DEF IInv, At
<1>3. row \in User /\ row.status = "active" /\ row.pw = 1 /\ row.version = 1
  <2>1. [NoAccess EXCEPT !["global"].preset = "administrator"] \in Access
    <3>1. [NoAccess["global"] EXCEPT !.preset = "administrator"] \in Scope
      BY NoAccessIsAnAccess DEF Access, Scope, Presets
    <3> QED
      BY <3>1, NoAccessIsAnAccess DEF Access
  <2>2. (CHOOSE e \in Emails : TRUE) \in Emails
    BY AccessAssumption
  <2> QED
    BY <2>1, <2>2 DEF User
<1>4. IsGlobalAdministrator(row.access)
  <2>1. [NoAccess["global"] EXCEPT !.preset = "administrator"].preset = "administrator"
    BY NoAccessIsAnAccess DEF Access, Scope
  <2> QED
    BY <2>1, NoAccessIsAnAccess DEF IsGlobalAdministrator, Access
<1> HIDE DEF row, q
<1>5. \A v \in Users : users[v].status = "none"
  BY <1>1, <1>2 DEF Sound, Knows
<1>6. <<"advisory", "bootstrap">> \in q.held
  BY <1>1, <1>2 DEF Sound, HoldsLocks
<1>7. users' \in [Users -> User] /\ users'[u] = row /\ \A v \in Users : v # u => users'[v] = users[v]
  BY <1>1, <1>2, <1>3 DEF Typed
<1>8. RowsMove(q.held, users, users')
  BY <1>1, <1>3, <1>7 DEF RowsMove
<1>9. AdministratorsMove(q.held, users, users', wasReset')
  BY <1>5 DEF AdministratorsMove, IsActiveAdministrator
<1>10. \A i \in Invites : invites[i].state = "none"
  BY <1>2, <1>5 DEF Kept, ReferencesHold
<1>11. \E n \in Request : /\ req' = [req EXCEPT ![c] = n]
                          /\ Outside(n) /\ Sound(n, users', links', wasReset')
  <2> DEFINE identity == [user |-> u, version |-> 1, pw |-> 1]
             n == [Idle EXCEPT !.at = "cookie", !.identity = identity]
  <2>1. identity \in Identity /\ IsOfItsUser(identity, users')
    BY <1>3, <1>7 DEF Identity, IsOfItsUser
  <2> HIDE DEF identity
  <2>2. n \in Request /\ Outside(n) /\ Sound(n, users', links', wasReset')
    BY <2>1, CookieIsSound
  <2> QED
    BY <1>1, <2>2 DEF identity
<1>12. OnlyAResetTakesTheLastAdministrator'
  BY <1>3, <1>4, <1>7 DEF OnlyAResetTakesTheLastAdministrator, OneAdministratorRemains, ActiveAdministrators
<1>13. ReferencesHold(users', links', invites')
  BY <1>1, <1>2, <1>8, ReferencesSurvive DEF ReferencesHold
<1>14. ActiveUsersHavePasswords(users')
  BY <1>2, <1>3, <1>7 DEF Kept, ActiveUsersHavePasswords
<1>15. InvitesOpenOnce(invites') /\ InvitesAreAwaited(invites', users', legacy')
  BY <1>1, <1>10 DEF InvitesOpenOnce, InvitesAreAwaited
<1>16. InstallationMoves(q.held, users, users') /\ LinksMove(q.held, users, links, links')
  BY <1>1, <1>6 DEF InstallationMoves, LinksMove
<1>17. /\ links' \in [Barbers -> Users \cup {None}] /\ invites' \in [Invites -> Invite]
       /\ \A i \in Invites : invites[i].state # "none" => invites'[i].state # "none"
       /\ legacy' \in [Barbers -> {"none", "open", "used"}] /\ wasReset' \in BOOLEAN
  BY <1>1, <1>2 DEF Typed
<1> QED
  BY <1>7, <1>8, <1>9, <1>11, <1>12, <1>13, <1>14, <1>15, <1>16, <1>17 DEF SafeCommit, q

\* createCanonicalInvitedUser and the first invite of a professional
LEMMA NewUserIsSafe ==
    ASSUME IInv, NEW c \in Browsers, At(c, "commit"), CommitNewUser(c), wasReset' = wasReset
    PROVE  SafeCommit(c)
<1> DEFINE q == req[c]
           row == NewUser(q)
<1>1. PICK u \in Users : /\ Creates(q) /\ users[u].status = "none"
                         /\ users' = [users EXCEPT ![u] = row]
                         /\ links' = IF q.barber = None THEN links ELSE [links EXCEPT ![q.barber] = u]
                         /\ CreateInvite(u) /\ req' = [req EXCEPT ![c] = Idle] /\ legacy' = legacy
  BY DEF CommitNewUser, End
<1>2. Typed /\ Kept /\ q.at = "commit" /\ Sound(q, users, links, wasReset) /\ q \in Request
  BY DEF IInv, Typed, At
<1>3. Admitted(q, users) /\ HoldsLocks(q, links)
  BY <1>2 DEF Sound
<1>4. q.op \in {"create", "invite_professional"}
  BY <1>1 DEF Creates
<1>5. row \in User /\ row.status = "invited" /\ row.version = 1
  <2>1. q.grant \in Access /\ (q.op = "create" => q.email \in Emails)
        /\ (q.op = "invite_professional" => q.barber \in Barbers)
    BY <1>2, <1>3 DEF Admitted, Request
  <2>2. (IF q.op = "create" THEN q.email ELSE BarberEmail[q.barber]) \in Emails
    BY <1>4, <2>1, AccessAssumption
  <2> QED
    BY <2>1, <2>2 DEF NewUser, User
<1>6. Present(q.actor, users)
  BY <1>2, <1>3, <1>4 DEF Admitted
<1> HIDE DEF row, q
<1>7. users' \in [Users -> User] /\ users'[u] = row /\ \A v \in Users : v # u => users'[v] = users[v]
  BY <1>1, <1>2, <1>5 DEF Typed
<1>8. RowsMove(q.held, users, users')
  BY <1>1, <1>5, <1>7 DEF RowsMove
<1>9. q.barber # None => q.barber \in Barbers /\ <<"barber", q.barber>> \in q.held
  BY <1>2, <1>3, <1>4 DEF HoldsLocks, Request
<1>10. links' \in [Barbers -> Users \cup {None}] /\ LinksMove(q.held, users, links, links')
       /\ \A b \in Barbers : links'[b] \in {links[b], u}
  BY <1>1, <1>2, <1>9 DEF Typed, LinksMove
<1>11. InstallationMoves(q.held, users, users') /\ AdministratorsMove(q.held, users, users', wasReset')
  BY <1>1, <1>6, <1>7 DEF InstallationMoves, AdministratorsMove, IsActiveAdministrator, Present
<1>12. /\ invites' \in [Invites -> Invite] /\ InvitesOpenOnce(invites')
       /\ \A i \in Invites :
            \/ invites'[i].user = u
            \/ /\ invites'[i].user = invites[i].user
               /\ invites'[i].state = "open" => invites[i].state = "open"
               /\ invites'[i].state # "none" => invites[i].state # "none"
       /\ \A i \in Invites : invites[i].state # "none" => invites'[i].state # "none"
  BY <1>1, <1>2, InvitesCreated DEF Kept
<1>13. ReferencesHold(users', links', invites')
  BY <1>2, <1>5, <1>7, <1>8, <1>10, <1>12, ReferencesSurvive DEF ReferencesHold
<1>14. ActiveUsersHavePasswords(users')
  BY <1>2, <1>5, <1>7 DEF Kept, ActiveUsersHavePasswords
<1>15. InvitesAreAwaited(invites', users', legacy')
  <2>1. \A i \in Invites : invites'[i].state = "open" =>
             \/ users'[invites'[i].user].status = "invited"
             \/ \E b \in Barbers : legacy'[b] = "used"
             \/ /\ invites[i].state = "open" /\ invites'[i].user = invites[i].user
                /\ users[invites[i].user].status = "invited" =>
                     users'[invites[i].user].status = "invited"
    <3> SUFFICES ASSUME NEW i \in Invites, invites'[i].state = "open", invites'[i].user # u
                 PROVE  /\ invites[i].state = "open" /\ invites'[i].user = invites[i].user
                        /\ users'[invites[i].user] = users[invites[i].user]
      BY <1>5, <1>7
    <3>1. invites[i].state = "open" /\ invites'[i].user = invites[i].user
      BY <1>12
    <3>2. invites[i].user \in Users
      BY <1>2, <3>1 DEF Kept, ReferencesHold
    <3> QED
      BY <1>7, <3>1, <3>2
  <2> QED
    BY <1>1, <1>2, <2>1, InvitesStayAwaited
<1>16. OnlyAResetTakesTheLastAdministrator'
  <2> SUFFICES ASSUME ~wasReset'
               PROVE  \E v \in Users : IsActiveAdministrator(users'[v])
    BY DEF OnlyAResetTakesTheLastAdministrator, OneAdministratorRemains, ActiveAdministrators,
       IsActiveAdministrator
  <2>1. \E v \in Users : IsActiveAdministrator(users[v])
    BY <1>2, <1>6 DEF Kept, OnlyAResetTakesTheLastAdministrator, OneAdministratorRemains,
       ActiveAdministrators, IsActiveAdministrator, Present
  <2> QED
    BY <1>1, <1>7, <2>1 DEF IsActiveAdministrator
<1>17. \E n \in Request : /\ req' = [req EXCEPT ![c] = n]
                          /\ Outside(n) /\ Sound(n, users', links', wasReset')
  BY <1>1, EndedIsSound
<1>18. legacy' \in [Barbers -> {"none", "open", "used"}] /\ wasReset' \in BOOLEAN
  BY <1>1, <1>2 DEF Typed
<1> QED
  BY <1>7, <1>8, <1>10, <1>11, <1>12, <1>13, <1>14, <1>15, <1>16, <1>17, <1>18 DEF SafeCommit, q
\* Commits that leave users, links and the invites of the time before as they are.
LEMMA InvitesOnlyAreSafe ==
    ASSUME IInv, NEW c \in Browsers, UNCHANGED <<users, links, legacy, wasReset>>,
           req' = [req EXCEPT ![c] = Idle],
           invites' \in [Invites -> Invite], InvitesOpenOnce(invites'),
           \A i \in Invites : invites[i].state # "none" => invites'[i].state # "none",
           \A i \in Invites :
             \/ /\ Present(invites'[i].user, users)
                /\ users[invites'[i].user].status = "invited"
             \/ /\ invites'[i].user = invites[i].user
                /\ invites'[i].state = "open" => invites[i].state = "open"
                /\ invites'[i].state # "none" => invites[i].state # "none"
    PROVE  SafeCommit(c)
<1>1. Typed /\ Kept
  BY DEF IInv
<1>2. RowsMove(req[c].held, users, users') /\ LinksMove(req[c].held, users, links, links')
  BY DEF RowsMove, LinksMove
<1>3. InstallationMoves(req[c].held, users, users')
      /\ AdministratorsMove(req[c].held, users, users', wasReset')
  BY DEF InstallationMoves, AdministratorsMove
<1>4. ReferencesHold(users', links', invites')
  BY <1>1 DEF Kept, ReferencesHold, Present
<1>5. ActiveUsersHavePasswords(users') /\ OnlyAResetTakesTheLastAdministrator'
  BY <1>1 DEF Kept, OnlyAResetTakesTheLastAdministrator, OneAdministratorRemains, ActiveAdministrators
<1>6. InvitesAreAwaited(invites', users', legacy')
  <2>1. \A i \in Invites : invites'[i].state = "open" =>
             \/ users'[invites'[i].user].status = "invited"
             \/ \E b \in Barbers : legacy'[b] = "used"
             \/ /\ invites[i].state = "open" /\ invites'[i].user = invites[i].user
                /\ users[invites[i].user].status = "invited" =>
                     users'[invites[i].user].status = "invited"
    OBVIOUS
  <2> QED
    BY <1>1, <2>1, InvitesStayAwaited
<1>7. \E n \in Request : /\ req' = [req EXCEPT ![c] = n]
                         /\ Outside(n) /\ Sound(n, users', links', wasReset')
  BY EndedIsSound
<1> QED
  BY <1>1, <1>2, <1>3, <1>4, <1>5, <1>6, <1>7 DEF SafeCommit, Typed

\* replaceCanonicalUserInvite and a further invite of a professional: the user still waits.
LEMMA InviteIsSafe ==
    ASSUME IInv, NEW c \in Browsers, At(c, "commit"), CommitInvite(c), wasReset' = wasReset
    PROVE  SafeCommit(c)
<1> DEFINE q == req[c]
           u == IF q.op = "invite" THEN q.user ELSE links[q.barber]
<1>1. /\ q.op \in {"invite", "invite_professional"} /\ ~Creates(q)
      /\ CreateInvite(u) /\ req' = [req EXCEPT ![c] = Idle]
      /\ UNCHANGED <<users, links, legacy>>
  BY DEF CommitInvite, End
<1>2. Typed /\ Kept /\ q.at = "commit" /\ Sound(q, users, links, wasReset)
  BY DEF IInv, At
<1>3. Admitted(q, users) /\ Knows(q, users, links, wasReset)
  BY <1>2 DEF Sound
<1>4. Present(u, users) /\ users[u].status = "invited"
  <2>1. CASE q.op = "invite"
    BY <1>2, <1>3, <2>1 DEF Admitted, Knows, UserOps
  <2>2. CASE q.op = "invite_professional"
    <3>1. links[q.barber] # None /\ q.barber \in Barbers
      BY <1>1, <1>2, <1>3, <2>2 DEF Creates, Admitted
    <3>2. u = links[q.barber] /\ u \in Users /\ users[u].status # "none"
      BY <1>2, <2>2, <3>1 DEF Typed, Kept, ReferencesHold
    <3> QED
      BY <1>2, <1>3, <2>2, <3>1, <3>2 DEF Knows, Present
  <2> QED
    BY <1>1, <2>1, <2>2
<1> HIDE DEF u
<1>5. u \in Users
  BY <1>4 DEF Present
<1>6. /\ invites' \in [Invites -> Invite] /\ InvitesOpenOnce(invites')
      /\ \A i \in Invites :
            \/ invites'[i].user = u
            \/ /\ invites'[i].user = invites[i].user
               /\ invites'[i].state = "open" => invites[i].state = "open"
               /\ invites'[i].state # "none" => invites[i].state # "none"
      /\ \A i \in Invites : invites[i].state # "none" => invites'[i].state # "none"
  BY <1>1, <1>2, <1>5, InvitesCreated DEF Kept
<1> QED
  BY <1>1, <1>4, <1>6, InvitesOnlyAreSafe

\* revokeCanonicalUserInvites
LEMMA RevocationIsSafe ==
    ASSUME IInv, NEW c \in Browsers, CommitRevokeInvites(c), wasReset' = wasReset
    PROVE  SafeCommit(c)
<1>1. Typed /\ Kept
  BY DEF IInv
<1>2. /\ invites' = Revoke(invites, req[c].user) /\ req' = [req EXCEPT ![c] = Idle]
      /\ UNCHANGED <<users, links, legacy>>
  BY DEF CommitRevokeInvites, End
<1>3. /\ invites' \in [Invites -> Invite]
      /\ \A i \in Invites :
           /\ invites'[i].user = invites[i].user
           /\ invites'[i].state = "open" => invites[i].state = "open"
           /\ invites'[i].state # "none" <=> invites[i].state # "none"
  BY <1>1, <1>2, InvitesRevoked
<1>4. InvitesOpenOnce(invites')
  BY <1>1, <1>3 DEF Kept, InvitesOpenOnce
<1> QED
  BY <1>2, <1>3, <1>4, InvitesOnlyAreSafe

-----------------------------------------------------------------------------
\* Commits of a user's row, with or without its links, its invites and its session.
LEMMA RowCommitIsSafe ==
    ASSUME IInv, NEW c \in Browsers, At(c, "commit"), req[c].op \in UserOps,
           users' = UsersAfter(req[c]),
           wasReset' = IF req[c].op = "reset" THEN TRUE ELSE wasReset,
           links' \in [Barbers -> Users \cup {None}],
           LinksMove(req[c].held, users, links, links'),
           \A b \in Barbers : links'[b] \in {links[b], None, req[c].user},
           invites' \in [Invites -> Invite], InvitesOpenOnce(invites'),
           \A i \in Invites : invites[i].state # "none" => invites'[i].state # "none",
           \A i \in Invites :
             /\ invites'[i].user = invites[i].user
             /\ invites'[i].state = "open" => invites[i].state = "open"
             /\ invites'[i].state # "none" => invites[i].state # "none"
             /\ req[c].op = "accept" /\ invites'[i].state = "open" => invites[i].user # req[c].user,
           legacy' \in [Barbers -> {"none", "open", "used"}],
           \A b \in Barbers : legacy[b] = "used" => legacy'[b] = "used",
           req[c].op = "accept_legacy" => \E b \in Barbers : legacy'[b] = "used",
           NEW n \in Request, req' = [req EXCEPT ![c] = n], Outside(n),
           Sound(n, users', links', wasReset')
    PROVE  SafeCommit(c)
<1>1. Typed /\ Kept /\ req[c].at = "commit" /\ Sound(req[c], users, links, wasReset)
  BY DEF IInv, At
<1>2. /\ users' \in [Users -> User] /\ wasReset' \in BOOLEAN
      /\ RowsMove(req[c].held, users, users')
      /\ InstallationMoves(req[c].held, users, users')
      /\ AdministratorsMove(req[c].held, users, users', wasReset')
      /\ ActiveUsersHavePasswords(users')
      /\ OnlyAResetTakesTheLastAdministrator'
      /\ \A u \in Users : users'[u].status # users[u].status =>
           u = req[c].user /\ req[c].op \in {"status", "accept", "accept_legacy", "reset"}
      /\ req[c].user \in Users /\ users'[req[c].user] = RowAfter(req[c])
  BY RowsCommitted
<1>3. ReferencesHold(users', links', invites')
  <2>1. Present(req[c].user, users)
    BY <1>1 DEF Sound, Admitted
  <2>2. users'[req[c].user].status # "none"
    BY <1>2, <2>1 DEF Present, RowsMove
  <2> QED
    BY <1>1, <1>2, <2>2, ReferencesSurvive, AccessAssumption DEF ReferencesHold
<1>4. req[c].op = "reset" => users'[req[c].user].status = "invited"
  <2>1. req[c] \in Request /\ Admitted(req[c], users)
    BY <1>1 DEF Typed, Sound
  <2> QED
    BY <1>1, <1>2, <2>1, RowsAfter DEF Admitted
<1>5. req[c].op = "status" => users[req[c].user].status # "invited"
  BY <1>1 DEF Sound, Knows
<1>6. InvitesAreAwaited(invites', users', legacy')
  <2>1. ASSUME NEW i \in Invites, invites'[i].state = "open"
        PROVE  \/ users'[invites'[i].user].status = "invited"
               \/ \E b \in Barbers : legacy'[b] = "used"
               \/ /\ invites[i].state = "open" /\ invites'[i].user = invites[i].user
                  /\ users[invites[i].user].status = "invited" =>
                       users'[invites[i].user].status = "invited"
    <3>1. invites[i].state = "open" /\ invites'[i].user = invites[i].user
      BY <2>1
    <3>2. invites[i].user \in Users
      BY <1>1, <3>1 DEF Kept, ReferencesHold
    <3> QED
      BY <1>2, <1>4, <1>5, <2>1, <3>1, <3>2
  <2> QED
    BY <1>1, <2>1, InvitesStayAwaited
<1>7. wasReset => wasReset'
  OBVIOUS
<1> QED
  BY <1>2, <1>3, <1>6, <1>7 DEF SafeCommit
\* The same when links, invites and the invites of the time before stay as they are.
LEMMA PlainRowCommitIsSafe ==
    ASSUME IInv, NEW c \in Browsers, At(c, "commit"), req[c].op \in UserOps \ {"accept", "accept_legacy"},
           users' = UsersAfter(req[c]),
           wasReset' = IF req[c].op = "reset" THEN TRUE ELSE wasReset,
           UNCHANGED <<links, invites, legacy>>,
           NEW n \in Request, req' = [req EXCEPT ![c] = n], Outside(n),
           Sound(n, users', links', wasReset')
    PROVE  SafeCommit(c)
<1>1. Typed /\ Kept
  BY DEF IInv
<1>2. links' \in [Barbers -> Users \cup {None}] /\ LinksMove(req[c].held, users, links, links')
      /\ \A b \in Barbers : links'[b] \in {links[b], None, req[c].user}
  BY <1>1 DEF Typed, LinksMove
<1>3. invites' \in [Invites -> Invite] /\ InvitesOpenOnce(invites')
      /\ legacy' \in [Barbers -> {"none", "open", "used"}]
  BY <1>1 DEF Typed, Kept
<1> QED
  BY <1>2, <1>3, RowCommitIsSafe

\* setCanonicalProfessionalLink: every link that changes is locked.
LEMMA ProfessionalIsSafe ==
    ASSUME IInv, NEW c \in Browsers, At(c, "commit"), CommitProfessional(c), wasReset' = wasReset
    PROVE  SafeCommit(c)
<1> DEFINE q == req[c]
<1>1. /\ q.op = "professional" /\ users' = UsersAfter(q)
      /\ links' = [b \in Barbers |-> IF b = q.barber THEN q.user
                                     ELSE IF links[b] = q.user THEN None ELSE links[b]]
      /\ req' = [req EXCEPT ![c] = Idle] /\ UNCHANGED <<invites, legacy>>
  BY DEF CommitProfessional, End
<1>2. Typed /\ Kept /\ q.at = "commit" /\ Sound(q, users, links, wasReset)
  BY DEF IInv, At
<1>3. Admitted(q, users) /\ HoldsLocks(q, links) /\ Knows(q, users, links, wasReset)
  BY <1>2 DEF Sound
<1>4. q.op \in UserOps
  BY <1>1 DEF UserOps
<1> HIDE DEF q
<1>5. q.user \in Users /\ <<"user", q.user>> \in q.held
  BY <1>2, <1>3, <1>4 DEF Admitted, HoldsLocks, Present
<1>6. q.barber # None => <<"barber", q.barber>> \in q.held
                         /\ \A b \in Barbers : links[b] = q.user => b = q.barber
  BY <1>1, <1>2, <1>3 DEF HoldsLocks, Knows
<1>7. q.barber = None => \A b \in Barbers : links[b] = q.user => <<"barber", b>> \in q.held
  BY <1>1, <1>2, <1>3 DEF HoldsLocks
<1>8. links' \in [Barbers -> Users \cup {None}]
      /\ \A b \in Barbers : links'[b] \in {links[b], None, q.user}
  BY <1>1, <1>2, <1>5 DEF Typed
<1>9. LinksMove(q.held, users, links, links')
  <2> SUFFICES ASSUME NEW b \in Barbers, links'[b] # links[b]
               PROVE  /\ <<"barber", b>> \in q.held
                      /\ links'[b] = None \/ links'[b] = q.user
    BY <1>5 DEF LinksMove
  <2>1. links'[b] = IF b = q.barber THEN q.user ELSE IF links[b] = q.user THEN None ELSE links[b]
    BY <1>1
  <2>2. None \notin Barbers
    BY AccessAssumption
  <2> QED
    BY <1>6, <1>7, <2>1, <2>2
<1>10. invites' \in [Invites -> Invite] /\ InvitesOpenOnce(invites')
       /\ legacy' \in [Barbers -> {"none", "open", "used"}]
  BY <1>1, <1>2 DEF Typed, Kept
<1> QED
  BY <1>1, <1>4, <1>8, <1>9, <1>10, EndedIsSound, RowCommitIsSafe DEF q

\* updateCanonicalUserIdentity, setCanonicalUserStatus and replaceCanonicalUserAccess
LEMMA RowIsSafe ==
    ASSUME IInv, NEW c \in Browsers, At(c, "commit"), CommitRow(c), wasReset' = wasReset
    PROVE  SafeCommit(c)
<1>1. /\ req[c].op \in {"identity", "status", "access"} /\ users' = UsersAfter(req[c])
      /\ req' = [req EXCEPT ![c] = Idle] /\ UNCHANGED <<links, invites, legacy>>
  BY DEF CommitRow, End
<1>2. req[c].op \in UserOps \ {"accept", "accept_legacy"} /\ req[c].op # "reset"
  BY <1>1 DEF UserOps
<1> QED
  BY <1>1, <1>2, EndedIsSound, PlainRowCommitIsSafe

\* The session that an accepted invite opens is its user's, as the row is then.
LEMMA AcceptedIdentity ==
    ASSUME IInv, NEW c \in Browsers, At(c, "commit"), req[c].op \in UserOps \ {"reset"},
           users' = UsersAfter(req[c]), wasReset' = wasReset
    PROVE  NewIdentity(req[c]) \in Identity /\ IsOfItsUser(NewIdentity(req[c]), users')
<1> DEFINE q == req[c]
<1>1. /\ users' \in [Users -> User] /\ RowsMove(q.held, users, users')
      /\ q.user \in Users /\ users'[q.user] = RowAfter(q)
  BY RowsCommitted
<1>2. Present(q.user, users)
  BY DEF IInv, Sound, Admitted, At
<1>3. users'[q.user] \in User /\ users'[q.user].status # "none"
  BY <1>1, <1>2 DEF RowsMove, Present
<1> HIDE DEF q
<1>4. /\ NewIdentity(q).user = q.user /\ NewIdentity(q).version = users'[q.user].version
      /\ NewIdentity(q).pw = users'[q.user].pw /\ NewIdentity(q) \in Identity
  BY <1>1, <1>3 DEF NewIdentity, Identity, User
<1>5. users'[q.user].version \in Nat
  BY <1>3 DEF User
<1> QED
  BY <1>3, <1>4, <1>5 DEF IsOfItsUser, q

\* acceptCanonicalUserInvite: the accepted invite opens nothing any more, nor do the others.
LEMMA AcceptIsSafe ==
    ASSUME IInv, NEW c \in Browsers, At(c, "commit"), CommitAccept(c), wasReset' = wasReset
    PROVE  SafeCommit(c)
<1> DEFINE q == req[c]
           n == [Idle EXCEPT !.at = "cookie", !.identity = NewIdentity(q)]
<1>1. /\ q.op = "accept" /\ users' = UsersAfter(q)
      /\ invites' = [Revoke(invites, q.user) EXCEPT ![q.invite].state = "accepted"]
      /\ req' = [req EXCEPT ![c] = n] /\ UNCHANGED <<links, legacy>>
  BY DEF CommitAccept
<1>2. Typed /\ Kept /\ q.at = "commit" /\ Sound(q, users, links, wasReset)
  BY DEF IInv, At
<1>3. q.op \in UserOps \ {"reset"} /\ q.op # "accept_legacy"
  BY <1>1 DEF UserOps
<1>4. n \in Request /\ Outside(n) /\ Sound(n, users', links', wasReset')
  BY <1>1, <1>3, AcceptedIdentity, CookieIsSound
<1>5. q.invite \in Invites
  BY <1>1, <1>2 DEF Sound, Admitted
<1> HIDE DEF q, n
<1>6. \A i \in Invites : invites'[i] = IF i = q.invite
                                       THEN [Revoke(invites, q.user)[i] EXCEPT !.state = "accepted"]
                                       ELSE Revoke(invites, q.user)[i]
  BY <1>1, <1>2, <1>5, InvitesRevoked
<1>7. /\ invites' \in [Invites -> Invite]
      /\ \A i \in Invites :
           /\ invites'[i].user = invites[i].user
           /\ invites'[i].state = "open" => invites[i].state = "open" /\ invites[i].user # q.user
           /\ invites'[i].state # "none" <=> invites[i].state # "none"
  <2>1. \A i \in Invites : Revoke(invites, q.user)[i] \in Invite
    BY <1>2, InvitesRevoked
  <2>2. [Revoke(invites, q.user)[q.invite] EXCEPT !.state = "accepted"] \in Invite
        /\ [Revoke(invites, q.user)[q.invite] EXCEPT !.state = "accepted"].user
             = Revoke(invites, q.user)[q.invite].user
        /\ [Revoke(invites, q.user)[q.invite] EXCEPT !.state = "accepted"].state = "accepted"
    BY <1>5, <2>1 DEF Invite
  <2>3. invites' \in [Invites -> Invite]
    BY <1>1, <1>2, <2>1, <2>2, InvitesRevoked
  <2>4. invites[q.invite].state # "none"
    BY <1>1, <1>2 DEF IInv, InvitesWereSent, q
  <2>5. ASSUME NEW i \in Invites
        PROVE  /\ invites'[i].user = invites[i].user
               /\ invites'[i].state = "open" => invites[i].state = "open" /\ invites[i].user # q.user
               /\ invites'[i].state # "none" <=> invites[i].state # "none"
    <3>0. /\ Revoke(invites, q.user)[i].user = invites[i].user
          /\ Revoke(invites, q.user)[i].state = "open" =>
               invites[i].state = "open" /\ invites[i].user # q.user
          /\ Revoke(invites, q.user)[i].state # "none" <=> invites[i].state # "none"
      BY <1>2, InvitesRevoked
    <3>1. CASE i = q.invite
      <4>1. invites'[i] = [Revoke(invites, q.user)[q.invite] EXCEPT !.state = "accepted"]
        BY <1>6, <3>1
      <4>2. invites'[i].user = invites[i].user /\ invites'[i].state = "accepted"
        BY <2>2, <3>0, <3>1, <4>1
      <4> QED
        BY <2>4, <3>1, <4>2
    <3>2. CASE i # q.invite
      <4>1. invites'[i] = Revoke(invites, q.user)[i]
        BY <1>6, <3>2
      <4> QED
        BY <3>0, <4>1
    <3> QED
      BY <3>1, <3>2
  <2> QED
    BY <2>3, <2>5
<1>8. InvitesOpenOnce(invites')
  BY <1>2, <1>7 DEF Kept, InvitesOpenOnce
<1>9. /\ links' \in [Barbers -> Users \cup {None}] /\ LinksMove(q.held, users, links, links')
      /\ \A b \in Barbers : links'[b] \in {links[b], None, q.user}
      /\ legacy' \in [Barbers -> {"none", "open", "used"}]
  BY <1>1, <1>2 DEF Typed, LinksMove
<1> QED
  BY <1>1, <1>3, <1>4, <1>7, <1>8, <1>9, RowCommitIsSafe DEF q

\* acceptLegacyProfessionalInviteCanonical: it uses a legacy invite and leaves the others.
LEMMA AcceptLegacyIsSafe ==
    ASSUME IInv, NEW c \in Browsers, At(c, "commit"), CommitAcceptLegacy(c), wasReset' = wasReset
    PROVE  SafeCommit(c)
<1> DEFINE q == req[c]
           n == [Idle EXCEPT !.at = "cookie", !.identity = NewIdentity(q)]
<1>1. /\ q.op = "accept_legacy" /\ users' = UsersAfter(q)
      /\ legacy' = [legacy EXCEPT ![q.barber] = "used"]
      /\ req' = [req EXCEPT ![c] = n] /\ UNCHANGED <<links, invites>>
  BY DEF CommitAcceptLegacy
<1>2. Typed /\ Kept /\ q.at = "commit" /\ Sound(q, users, links, wasReset)
  BY DEF IInv, At
<1>3. q.op \in UserOps \ {"reset"} /\ q.op # "accept"
  BY <1>1 DEF UserOps
<1>4. n \in Request /\ Outside(n) /\ Sound(n, users', links', wasReset')
  BY <1>1, <1>3, AcceptedIdentity, CookieIsSound
<1>5. q.barber \in Barbers
  BY <1>1, <1>2 DEF Sound, Admitted
<1> HIDE DEF q, n
<1>6. /\ legacy' \in [Barbers -> {"none", "open", "used"}]
      /\ \A b \in Barbers : legacy[b] = "used" => legacy'[b] = "used"
      /\ legacy'[q.barber] = "used"
  BY <1>1, <1>2, <1>5 DEF Typed
<1>7. /\ links' \in [Barbers -> Users \cup {None}] /\ LinksMove(q.held, users, links, links')
      /\ \A b \in Barbers : links'[b] \in {links[b], None, q.user}
      /\ invites' \in [Invites -> Invite] /\ InvitesOpenOnce(invites')
  BY <1>1, <1>2 DEF Typed, LinksMove, Kept
<1>8. \E b \in Barbers : legacy'[b] = "used"
  BY <1>5, <1>6
<1> QED
  BY <1>1, <1>3, <1>4, <1>6, <1>7, <1>8, RowCommitIsSafe DEF q

\* revokeCanonicalUserSessions and changeCanonicalPassword
LEMMA SessionRevocationIsSafe ==
    ASSUME IInv, NEW c \in Browsers, At(c, "commit"), CommitRevokeSessions(c), wasReset' = wasReset
    PROVE  SafeCommit(c)
<1>1. /\ req[c].op \in {"revoke_sessions", "password"} /\ users' = UsersAfter(req[c])
      /\ UNCHANGED <<links, invites, legacy>>
      /\ \/ req' = [req EXCEPT ![c] = [Idle EXCEPT !.at = "clear"]]
         \/ req' = [req EXCEPT ![c] = Idle]
  BY DEF CommitRevokeSessions, End
<1>2. req[c].op \in UserOps \ {"accept", "accept_legacy"} /\ req[c].op # "reset"
  BY <1>1 DEF UserOps
<1>3. CASE req' = [req EXCEPT ![c] = Idle]
  BY <1>1, <1>2, <1>3, EndedIsSound, PlainRowCommitIsSafe
<1>4. CASE req' = [req EXCEPT ![c] = [Idle EXCEPT !.at = "clear"]]
  <2> DEFINE n == [Idle EXCEPT !.at = "clear"]
  <2>1. n \in Request /\ Outside(n) /\ Sound(n, users', links', wasReset')
    BY ClearIsSound
  <2> HIDE DEF n
  <2> QED
    BY <1>1, <1>2, <1>4, <2>1, PlainRowCommitIsSafe DEF n
<1> QED
  BY <1>1, <1>3, <1>4

\* resetCanonicalPasswordForProfessional, the one commit that counts no administrator.
LEMMA ResetIsSafe ==
    ASSUME IInv, NEW c \in Browsers, At(c, "commit"), CommitReset(c)
    PROVE  SafeCommit(c)
<1> DEFINE n == [Idle EXCEPT !.at = "invalidate", !.barber = req[c].barber]
<1>1. /\ req[c].op = "reset" /\ users' = UsersAfter(req[c]) /\ wasReset' = TRUE
      /\ req' = [req EXCEPT ![c] = n] /\ UNCHANGED <<links, invites, legacy>>
  BY DEF CommitReset
<1>2. req[c].op \in UserOps \ {"accept", "accept_legacy"}
  BY <1>1 DEF UserOps
<1>3. req[c].barber \in Barbers
  BY <1>1 DEF IInv, Sound, Admitted, At
<1>4. n \in Request /\ Outside(n) /\ Sound(n, users', links', wasReset')
  BY <1>3, InvalidationIsSound
<1> HIDE DEF n
<1> QED
  BY <1>1, <1>2, <1>4, PlainRowCommitIsSafe

\* Every commit is safe.
LEMMA CommitsAreSafe ==
    ASSUME IInv, NEW c \in Browsers, Commit(c)
    PROVE  SafeCommit(c) /\ cookies' = cookies
<1>1. At(c, "commit") /\ cookies' = cookies /\ (req[c].op # "reset" => wasReset' = wasReset)
  BY DEF Commit
<1>2. CASE CommitBootstrap(c)
  BY <1>1, <1>2, BootstrapIsSafe DEF CommitBootstrap
<1>3. CASE CommitNewUser(c)
  <2>1. req[c].op # "reset"
    BY <1>3 DEF CommitNewUser, Creates
  <2> QED
    BY <1>1, <1>3, <2>1, NewUserIsSafe
<1>4. CASE CommitInvite(c)
  BY <1>1, <1>4, InviteIsSafe DEF CommitInvite
<1>5. CASE CommitRevokeInvites(c)
  BY <1>1, <1>5, RevocationIsSafe DEF CommitRevokeInvites
<1>6. CASE CommitProfessional(c)
  BY <1>1, <1>6, ProfessionalIsSafe DEF CommitProfessional
<1>7. CASE CommitRow(c)
  BY <1>1, <1>7, RowIsSafe DEF CommitRow
<1>8. CASE CommitAccept(c)
  BY <1>1, <1>8, AcceptIsSafe DEF CommitAccept
<1>9. CASE CommitAcceptLegacy(c)
  BY <1>1, <1>9, AcceptLegacyIsSafe DEF CommitAcceptLegacy
<1>10. CASE CommitRevokeSessions(c)
  BY <1>1, <1>10, SessionRevocationIsSafe DEF CommitRevokeSessions
<1>11. CASE CommitReset(c)
  BY <1>1, <1>11, ResetIsSafe
<1> QED
  BY <1>1, <1>2, <1>3, <1>4, <1>5, <1>6, <1>7, <1>8, <1>9, <1>10, <1>11 DEF Commit

-----------------------------------------------------------------------------
\* A step of one request that leaves the tables and the sessions as they are.
LEMMA QuietStep ==
    ASSUME IInv, UNCHANGED <<tables, cookies>>, NEW c \in Browsers,
           NEW q \in Request, req' = [req EXCEPT ![c] = q],
           Sound(q, users, links, wasReset),
           \A lock \in q.held : lock \in req[c].held \/ Holders(lock) = {},
           q.at \in {"lock", "decide", "commit"} /\ q.op = "accept" =>
               invites[q.invite].state # "none"
    PROVE  IInv'
<1>1. Typed /\ Kept /\ LocksExclude /\ InvitesWereSent
      /\ \A d \in Browsers : Sound(req[d], users, links, wasReset)
  BY DEF IInv
<1>2. UNCHANGED <<users, links, invites, legacy, wasReset, cookies>>
  BY DEF tables
<1>3. req'[c] = q /\ \A d \in Browsers : d # c => req'[d] = req[d]
  BY <1>1 DEF Typed
<1>4. Typed'
  BY <1>1, <1>2 DEF Typed
<1>5. Kept'
  BY <1>1, <1>2 DEF Kept, OnlyAResetTakesTheLastAdministrator, OneAdministratorRemains,
     ActiveAdministrators
<1>6. LocksExclude'
  <2> SUFFICES ASSUME NEW d \in Browsers, NEW e \in Browsers,
                      NEW lock \in req'[d].held, lock \in req'[e].held, d # e
               PROVE  FALSE
    BY DEF LocksExclude
  <2>1. \A f \in Browsers : lock \in req[f].held => (lock \in q.held => lock \in req[c].held)
    BY DEF Holders
  <2> QED
    BY <1>1, <1>3, <2>1 DEF LocksExclude, Holders
<1>7. InvitesWereSent'
  <2> SUFFICES ASSUME NEW d \in Browsers, req'[d].at \in {"lock", "decide", "commit"},
                      req'[d].op = "accept"
               PROVE  invites[req'[d].invite].state # "none"
    BY <1>2 DEF InvitesWereSent
  <2> QED
    BY <1>1, <1>3 DEF InvitesWereSent
<1>8. \A d \in Browsers : Sound(req'[d], users', links', wasReset')
  <2> SUFFICES ASSUME NEW d \in Browsers
               PROVE  Sound(req'[d], users, links, wasReset)
    BY <1>2
  <2> QED
    BY <1>1, <1>3
<1> QED
  BY <1>4, <1>5, <1>6, <1>7, <1>8 DEF IInv

\* The admission of a request.
LEMMA FreshStep ==
    ASSUME IInv, NEW c \in Browsers, NEW q \in Request, Begin(c, q), q.held = {},
           q.at \in {"lock", "read", "compare"}, Admitted(q, users),
           q.op = "accept" => invites[q.invite].state # "none"
    PROVE  IInv'
<1>1. Sound(q, users, links, wasReset)
  BY OutsideIsSound
<1> QED
  BY <1>1, QuietStep DEF Begin

\* A request of the management is admitted with what it says of itself.
LEMMA ManagementStep ==
    ASSUME IInv, NEW c \in Browsers, AdmitManagement(c)
    PROVE  IInv'
<1>0. Typed /\ Valid(c)
  BY DEF IInv, AdmitManagement, Manager
<1>1. \A op \in AllOps :
        /\ As(c, op) \in Request /\ As(c, op).op = op /\ As(c, op).at = "lock"
        /\ As(c, op).actor = cookies[c].user /\ Present(As(c, op).actor, users)
        /\ As(c, op).ctx = users[cookies[c].user].access
        /\ As(c, op).identity = Nobody /\ As(c, op).held = {}
        /\ As(c, op).barber = None
  BY <1>0, RequestsOfASession
<1>2. IsOfItsUser(Nobody, users)
  BY NobodyIsAnIdentity DEF IsOfItsUser
<1>3. ASSUME NEW u \in Users, users[u].status # "none",
             NEW op \in {"invite", "revoke_invites", "revoke_sessions"},
             Begin(c, [As(c, op) EXCEPT !.user = u])
      PROVE  IInv'
  <2> DEFINE a == As(c, op)
             q == [a EXCEPT !.user = u]
  <2>1. a \in Request /\ a.op = op /\ a.at = "lock" /\ a.identity = Nobody /\ a.held = {}
    BY <1>1 DEF AllOps
  <2> HIDE DEF a
  <2>2. /\ q \in Request /\ q.op = op /\ q.at = "lock" /\ q.user = u /\ q.held = {}
        /\ q.identity = Nobody
    BY <2>1 DEF Request
  <2> HIDE DEF q
  <2>3. Admitted(q, users)
    BY <1>2, <1>3, <2>2 DEF Admitted, Present
  <2> QED
    BY <1>3, <2>2, <2>3, FreshStep DEF q, a
<1>4. ASSUME NEW u \in Users, users[u].status # "none", NEW e \in Emails,
             Begin(c, [As(c, "identity") EXCEPT !.user = u, !.email = e])
      PROVE  IInv'
  <2> DEFINE a == As(c, "identity")
             q == [a EXCEPT !.user = u, !.email = e]
  <2>1. a \in Request /\ a.op = "identity" /\ a.at = "lock" /\ a.identity = Nobody /\ a.held = {}
    BY <1>1 DEF AllOps
  <2> HIDE DEF a
  <2>2. /\ q \in Request /\ q.op = "identity" /\ q.at = "lock" /\ q.user = u /\ q.held = {}
        /\ q.identity = Nobody /\ q.email = e
    BY <2>1 DEF Request
  <2> HIDE DEF q
  <2>3. Admitted(q, users)
    BY <1>2, <1>4, <2>2 DEF Admitted, Present
  <2> QED
    BY <1>4, <2>2, <2>3, FreshStep DEF q, a
<1>5. ASSUME NEW u \in Users, users[u].status # "none", NEW s \in {"active", "disabled"},
             Begin(c, [As(c, "status") EXCEPT !.user = u, !.status = s])
      PROVE  IInv'
  <2> DEFINE a == As(c, "status")
             q == [a EXCEPT !.user = u, !.status = s]
  <2>1. a \in Request /\ a.op = "status" /\ a.at = "lock" /\ a.identity = Nobody /\ a.held = {}
    BY <1>1 DEF AllOps
  <2> HIDE DEF a
  <2>2. /\ q \in Request /\ q.op = "status" /\ q.at = "lock" /\ q.user = u /\ q.held = {}
        /\ q.identity = Nobody /\ q.status = s
    BY <2>1, ZenonT(60) DEF Request
  <2> HIDE DEF q
  <2>3. Admitted(q, users)
    BY <1>2, <1>5, <2>2 DEF Admitted, Present
  <2> QED
    BY <1>5, <2>2, <2>3, FreshStep DEF q, a
<1>6. ASSUME NEW u \in Users, users[u].status # "none", NEW b \in Barbers \cup {None},
             Begin(c, [As(c, "professional") EXCEPT !.at = "read", !.user = u, !.barber = b])
      PROVE  IInv'
  <2> DEFINE a == As(c, "professional")
             q == [a EXCEPT !.at = "read", !.user = u, !.barber = b]
  <2>1. a \in Request /\ a.op = "professional" /\ a.identity = Nobody /\ a.held = {}
    BY <1>1 DEF AllOps
  <2> HIDE DEF a
  <2>2. /\ q \in Request /\ q.op = "professional" /\ q.at = "read" /\ q.user = u /\ q.held = {}
        /\ q.identity = Nobody
    BY <2>1, ZenonT(60) DEF Request, Steps
  <2> HIDE DEF q
  <2>3. Admitted(q, users)
    BY <1>2, <1>6, <2>2 DEF Admitted, Present
  <2> QED
    BY <1>6, <2>2, <2>3, FreshStep DEF q, a
<1>7. ASSUME NEW g \in Grants, NEW e \in Emails, NEW b \in Barbers \cup {None},
             UnderCeiling([As(c, "create") EXCEPT !.grant = g, !.email = e, !.barber = b].ctx, g),
             Begin(c, [As(c, "create") EXCEPT !.grant = g, !.email = e, !.barber = b])
      PROVE  IInv'
  <2> DEFINE a == As(c, "create")
             q == [a EXCEPT !.grant = g, !.email = e, !.barber = b]
  <2>1. /\ a \in Request /\ a.op = "create" /\ a.at = "lock" /\ a.identity = Nobody
        /\ a.held = {} /\ Present(a.actor, users)
    BY <1>1 DEF AllOps
  <2>2. g \in Access
    BY AccessAssumption
  <2> HIDE DEF a
  <2>3. /\ q \in Request /\ q.op = "create" /\ q.at = "lock" /\ q.held = {}
        /\ q.identity = Nobody /\ q.email = e /\ q.grant = g /\ q.actor = a.actor
    BY <2>1, <2>2 DEF Request
  <2>4. UnderCeiling(q.ctx, g)
    BY <1>7 DEF q, a
  <2> HIDE DEF q
  <2>5. Admitted(q, users)
    BY <1>2, <2>1, <2>3, <2>4 DEF Admitted, UserOps
  <2> QED
    BY <1>7, <2>3, <2>5, FreshStep DEF q, a
<1>8. ASSUME NEW b \in Barbers, Begin(c, [As(c, "reset") EXCEPT !.at = "read", !.barber = b])
      PROVE  IInv'
  <2> DEFINE a == As(c, "reset")
             q == [a EXCEPT !.at = "read", !.barber = b]
  <2>1. a \in Request /\ a.op = "reset" /\ a.identity = Nobody /\ a.held = {}
    BY <1>1 DEF AllOps
  <2> HIDE DEF a
  <2>2. /\ q \in Request /\ q.op = "reset" /\ q.at = "read" /\ q.barber = b /\ q.held = {}
        /\ q.identity = Nobody
    BY <2>1, ZenonT(60) DEF Request, Steps
  <2> HIDE DEF q
  <2>3. Admitted(q, users)
    BY <1>2, <1>8, <2>2 DEF Admitted
  <2> QED
    BY <1>8, <2>2, <2>3, FreshStep DEF q, a
<1>9. ASSUME NEW b \in Barbers, NEW l \in Locations,
             UnderCeiling(users[cookies[c].user].access, [NoAccess EXCEPT ![l].preset = "professional"]),
             Begin(c, [As(c, "invite_professional") EXCEPT !.barber = b,
                           !.grant = [NoAccess EXCEPT ![l].preset = "professional"]])
      PROVE  IInv'
  <2> DEFINE a == As(c, "invite_professional")
             g == [NoAccess EXCEPT ![l].preset = "professional"]
             q == [a EXCEPT !.barber = b, !.grant = g]
  <2>1. /\ a \in Request /\ a.op = "invite_professional" /\ a.at = "lock" /\ a.identity = Nobody
        /\ a.held = {} /\ Present(a.actor, users) /\ a.ctx = users[cookies[c].user].access
    BY <1>1 DEF AllOps
  <2>2. g \in Access
    <3>1. [NoAccess[l] EXCEPT !.preset = "professional"] \in Scope
      BY NoAccessIsAnAccess DEF Access, Scope, Presets
    <3> QED
      BY <3>1, NoAccessIsAnAccess DEF Access
  <2>3. UnderCeiling(a.ctx, g)
    BY <1>9, <2>1
  <2>a. Begin(c, q)
    BY <1>9
  <2> HIDE DEF a, g
  <2>4. /\ q \in Request /\ q.op = "invite_professional" /\ q.at = "lock" /\ q.held = {}
        /\ q.identity = Nobody /\ q.barber = b /\ q.grant = g /\ q.actor = a.actor /\ q.ctx = a.ctx
    BY <2>1, <2>2 DEF Request
  <2> HIDE DEF q
  <2>5. Admitted(q, users)
    BY <1>2, <2>1, <2>3, <2>4 DEF Admitted, UserOps
  <2> QED
    BY <2>a, <2>4, <2>5, FreshStep
<1> QED
  BY <1>3, <1>4, <1>5, <1>6, <1>7, <1>8, <1>9, ZenonT(60) DEF AdmitManagement

\* replaceCanonicalUserAccess before its transaction.
LEMMA ReplaceAccessStep ==
    ASSUME IInv, NEW c \in Browsers, AdmitReplaceAccess(c)
    PROVE  IInv'
<1> DEFINE a == As(c, "access")
<1>1. PICK u \in Users, place \in Places, g \in Grants :
        /\ users[u].status # "none"
        /\ UnderCeiling([a EXCEPT !.user = u, !.place = place, !.grant = g].ctx, g)
        /\ Begin(c, [a EXCEPT !.user = u, !.place = place, !.grant = g])
  BY DEF AdmitReplaceAccess
<1> DEFINE q == [a EXCEPT !.user = u, !.place = place, !.grant = g]
<1>2. a \in Request /\ a.op = "access" /\ a.at = "lock" /\ a.identity = Nobody /\ a.held = {}
  BY RequestsOfASession DEF IInv, AdmitReplaceAccess, AllOps
<1>3. g \in Access
  BY AccessAssumption
<1> HIDE DEF a
<1>4. /\ q \in Request /\ q.op = "access" /\ q.at = "lock" /\ q.held = {}
      /\ q.identity = Nobody /\ q.user = u /\ q.grant = g
  BY <1>2, <1>3 DEF Request
<1>5. UnderCeiling(q.ctx, g) /\ Begin(c, q)
  BY <1>1
<1> HIDE DEF q
<1>6. Admitted(q, users)
  BY <1>1, <1>4, <1>5, NobodyIsAnIdentity DEF Admitted, Present, IsOfItsUser
<1> QED
  BY <1>4, <1>5, <1>6, FreshStep

\* The request for a new password is of the session's own user.
LEMMA PasswordStep ==
    ASSUME IInv, NEW c \in Browsers, AdmitPassword(c)
    PROVE  IInv'
<1> DEFINE a == As(c, "password")
           q == [a EXCEPT !.user = cookies[c].user]
<1>1. /\ a \in Request /\ a.op = "password" /\ a.at = "lock" /\ a.identity = Nobody /\ a.held = {}
      /\ Present(cookies[c].user, users)
  BY RequestsOfASession DEF IInv, AdmitPassword, AllOps
<1>2. Begin(c, q)
  BY DEF AdmitPassword
<1> HIDE DEF a
<1>3. /\ q \in Request /\ q.op = "password" /\ q.at = "lock" /\ q.held = {}
      /\ q.identity = Nobody /\ q.user = cookies[c].user
  BY <1>1 DEF Request, Present
<1> HIDE DEF q
<1>4. IsOfItsUser(q.identity, users)
  BY <1>3, NobodyIsAnIdentity DEF IsOfItsUser
<1>5. Present(q.user, users)
  BY <1>1, <1>3
<1>6. Admitted(q, users)
  BY <1>3, <1>4, <1>5, Zenon DEF Admitted
<1> QED
  BY <1>2, <1>3, <1>6, FreshStep

\* Bootstrap, invites and logins need no session.
LEMMA PublicStep ==
    ASSUME IInv, NEW c \in Browsers, AdmitPublic(c)
    PROVE  IInv'
<1>0. Typed /\ Kept
  BY DEF IInv
<1>a. IsOfItsUser(Nobody, users)
  BY NobodyIsAnIdentity DEF IsOfItsUser
<1>1. CASE Begin(c, [Idle EXCEPT !.op = "bootstrap", !.at = "lock"])
  <2> DEFINE q == [Idle EXCEPT !.op = "bootstrap", !.at = "lock"]
  <2>a. "bootstrap" \in AllOps /\ "lock" \in Steps
    BY DEF AllOps, Steps
  <2>1. q \in Request /\ q.op = "bootstrap" /\ q.at = "lock" /\ q.held = {} /\ q.identity = Nobody
    BY <2>a, IdleIsARequest DEF Request
  <2> HIDE DEF q
  <2>2. Admitted(q, users)
    BY <1>a, <2>1 DEF Admitted, UserOps
  <2> QED
    BY <1>1, <2>1, <2>2, FreshStep DEF q
<1>2. ASSUME NEW i \in Invites, invites[i].state # "none",
             Begin(c, [Idle EXCEPT !.op = "accept", !.at = "lock", !.invite = i, !.user = invites[i].user])
      PROVE  IInv'
  <2> DEFINE q == [Idle EXCEPT !.op = "accept", !.at = "lock", !.invite = i, !.user = invites[i].user]
  <2>1. Present(invites[i].user, users)
    BY <1>0, <1>2 DEF Kept, ReferencesHold, Present
  <2>2. /\ q \in Request /\ q.op = "accept" /\ q.at = "lock" /\ q.held = {} /\ q.identity = Nobody
        /\ q.invite = i /\ q.user = invites[i].user
    BY <2>1, IdleIsARequest, ZenonT(60) DEF Request, Steps, AllOps, Present
  <2> HIDE DEF q
  <2>3. Admitted(q, users)
    BY <1>a, <2>1, <2>2 DEF Admitted
  <2> QED
    BY <1>2, <2>2, <2>3, FreshStep DEF q
<1>3. ASSUME NEW b \in Barbers,
             Begin(c, [Idle EXCEPT !.op = "accept_legacy", !.at = "read", !.barber = b])
      PROVE  IInv'
  <2> DEFINE q == [Idle EXCEPT !.op = "accept_legacy", !.at = "read", !.barber = b]
  <2>a. "accept_legacy" \in AllOps /\ "read" \in Steps
    BY DEF AllOps, Steps
  <2>1. /\ q \in Request /\ q.op = "accept_legacy" /\ q.at = "read" /\ q.held = {}
        /\ q.identity = Nobody /\ q.barber = b
    BY <2>a, IdleIsARequest DEF Request
  <2> HIDE DEF q
  <2>2. Admitted(q, users)
    BY <1>a, <2>1 DEF Admitted
  <2> QED
    BY <1>3, <2>1, <2>2, FreshStep DEF q
<1>4. ASSUME NEW u \in Users, users[u].status = "active",
             Begin(c, [Idle EXCEPT !.op = "login", !.at = "compare", !.user = u,
                !.identity = [user |-> u, version |-> users[u].version, pw |-> users[u].pw]])
      PROVE  IInv'
  <2> DEFINE x == [user |-> u, version |-> users[u].version, pw |-> users[u].pw]
             q == [Idle EXCEPT !.op = "login", !.at = "compare", !.user = u, !.identity = x]
  <2>1. users[u] \in User /\ x.user = u
    BY <1>0 DEF Typed
  <2>2. x \in Identity /\ IsOfItsUser(x, users)
    BY <1>4, <2>1 DEF Identity, IsOfItsUser, User
  <2>3. Begin(c, q)
    BY <1>4
  <2>a. "login" \in AllOps /\ "compare" \in Steps
    BY DEF AllOps, Steps
  <2> HIDE DEF x
  <2>4. /\ q \in Request /\ q.op = "login" /\ q.at = "compare" /\ q.held = {}
        /\ q.identity = x /\ q.user = u
    BY <2>2, <2>a, IdleIsARequest DEF Request
  <2> HIDE DEF q
  <2>5. Admitted(q, users)
    BY <2>1, <2>2, <2>4 DEF Admitted
  <2> QED
    BY <2>3, <2>4, <2>5, FreshStep
<1> QED
  BY <1>1, <1>2, <1>3, <1>4 DEF AdmitPublic

-----------------------------------------------------------------------------
\* A request that gives up, because of a deadlock, a failure or a refusal, or that is done.
LEMMA EndStep ==
    ASSUME IInv, NEW c \in Browsers, End(c), UNCHANGED <<tables, cookies>>
    PROVE  IInv'
BY QuietStep, EndedIsSound, IdleIsARequest DEF End

\* The locks a transaction asks for are locks there are.
LEMMA LocksExist ==
    ASSUME Typed, Kept, NEW q \in Request, q.at = "lock", Admitted(q, users)
    PROVE  \A i \in DOMAIN LockOrder(q) : LockOrder(q)[i] \subseteq Lock
<1>1. q.op \in UserOps => q.user \in Users
  BY DEF Admitted, Present
<1>2. \A u \in Users : <<"user", u>> \in Lock
  BY DEF Lock
<1>4. \A u : InviteLocks(u) \subseteq Lock
  BY DEF InviteLocks, OpenOf, Lock
<1>5. \A i \in Invites : <<"invite", i>> \in Lock
  BY DEF Lock
<1>6. \A e \in Emails : <<"login", e>> \in Lock
  BY DEF Lock
<1>7. CASE q.op = "bootstrap"
  BY <1>7 DEF LockOrder, Lock
<1>8. CASE q.op = "create"
  <2>1. q.email \in Emails /\ {"barber"} \X ({q.barber} \ {None}) \subseteq Lock
    BY <1>8 DEF Admitted, Request, Lock
  <2>2. LockOrder(q) = <<{<<"login", q.email>>}, {"barber"} \X ({q.barber} \ {None})>>
    BY <1>8 DEF LockOrder
  <2> QED
    BY <1>6, <2>1, <2>2
<1>9. CASE q.op = "identity"
  <2>1. q.email \in Emails
    BY <1>9 DEF Admitted
  <2>2. {"login"} \X ({q.email} \ {users[q.user].email}) \subseteq Lock
    BY <2>1 DEF Lock
  <2>3. LockOrder(q) = <<{<<"user", q.user>>}, {"login"} \X ({q.email} \ {users[q.user].email})>>
    BY <1>9 DEF LockOrder
  <2> QED
    BY <1>1, <1>2, <1>9, <2>2, <2>3 DEF UserOps
<1>10. CASE q.op \in {"status", "access"}
  <2>1. LockOrder(q) = <<{<<"advisory", "administrators">>}, {<<"user", q.user>>}>>
    BY <1>10 DEF LockOrder
  <2>2. <<"advisory", "administrators">> \in Lock
    BY DEF Lock
  <2> QED
    BY <1>1, <1>2, <1>10, <2>1, <2>2 DEF UserOps
<1>11. CASE q.op = "professional"
  <2> DEFINE Bs == IF q.barber = None THEN BarbersOf(q.user) ELSE {q.barber}
  <2>1. LockOrder(q) = <<{<<"user", q.user>>}, {"barber"} \X Bs>>
    BY <1>11 DEF LockOrder
  <2>2. Bs \subseteq Barbers
    BY DEF BarbersOf, Request
  <2> HIDE DEF Bs
  <2>3. {"barber"} \X Bs \subseteq Lock
    BY <2>2 DEF Lock
  <2> QED
    BY <1>1, <1>2, <1>11, <2>1, <2>3 DEF UserOps
<1>12. CASE q.op \in {"invite", "revoke_invites"}
  <2>1. LockOrder(q) = <<{<<"user", q.user>>}, InviteLocks(q.user)>>
    BY <1>12 DEF LockOrder
  <2> QED
    BY <1>1, <1>2, <1>4, <1>12, <2>1 DEF UserOps
<1>13. CASE q.op = "accept"
  <2>1. LockOrder(q) = <<{<<"invite", q.invite>>}, {<<"user", q.user>>}>>
    BY <1>13 DEF LockOrder
  <2>2. q.invite \in Invites
    BY <1>13 DEF Admitted
  <2> QED
    BY <1>1, <1>2, <1>5, <1>13, <2>1, <2>2 DEF UserOps
<1>14. CASE q.op = "invite_professional"
  <2>1. q.barber \in Barbers /\ BarberEmail[q.barber] \in Emails
    BY <1>14, AccessAssumption DEF Admitted
  <2>2. CASE links[q.barber] = None
    <3>1. LockOrder(q) = <<{<<"barber", q.barber>>}, {<<"login", BarberEmail[q.barber]>>}>>
      BY <1>14, <2>2 DEF LockOrder
    <3>2. <<"barber", q.barber>> \in Lock /\ <<"login", BarberEmail[q.barber]>> \in Lock
      BY <2>1 DEF Lock
    <3> QED
      BY <3>1, <3>2
  <2>3. CASE links[q.barber] # None
    <3>1. LockOrder(q) = <<{<<"barber", q.barber>>}, {<<"user", links[q.barber]>>},
                           InviteLocks(links[q.barber])>>
      BY <1>14, <2>3 DEF LockOrder
    <3>2. links[q.barber] \in Users
      BY <2>1, <2>3 DEF Typed
    <3>3. <<"barber", q.barber>> \in Lock /\ <<"user", links[q.barber]>> \in Lock
          /\ InviteLocks(links[q.barber]) \subseteq Lock
      BY <1>4, <2>1, <3>2 DEF Lock
    <3> QED
      BY <3>1, <3>3
  <2> QED
    BY <2>2, <2>3
<1>15. CASE q.op = "accept_legacy"
  <2>1. LockOrder(q) = <<{<<"legacy", q.barber>>}, {<<"user", q.user>>}>>
    BY <1>15 DEF LockOrder
  <2>2. q.barber \in Barbers
    BY <1>15 DEF Admitted
  <2>3. <<"legacy", q.barber>> \in Lock /\ <<"user", q.user>> \in Lock
    BY <1>1, <1>15, <2>2 DEF Lock, UserOps
  <2> QED
    BY <2>1, <2>3
<1>16. CASE q.op \in {"revoke_sessions", "password", "reset"}
  <2>1. LockOrder(q) = <<{<<"user", q.user>>}>>
    BY <1>16 DEF LockOrder
  <2> QED
    BY <1>1, <1>2, <1>16, <2>1 DEF UserOps
<1> QED
  BY <1>7, <1>8, <1>9, <1>10, <1>11, <1>12, <1>13, <1>14, <1>15, <1>16 DEF AllOps, Admitted, Request

\* A lock is taken when no other request holds it.
LEMMA TakeLockStep ==
    ASSUME IInv, NEW c \in Browsers, TakeLock(c)
    PROVE  IInv'
<1> DEFINE q == req[c]
<1>1. q \in Request /\ q.at = "lock" /\ Sound(q, users, links, wasReset) /\ Typed /\ Kept
  BY DEF IInv, Typed, TakeLock, At
<1>2. PICK lock \in Missing(c) : Holders(lock) = {} /\ req' = [req EXCEPT ![c].held = @ \cup {lock}]
  BY DEF TakeLock
<1>3. lock \in Lock
  <2>1. PICK i \in DOMAIN LockOrder(q) : lock \in LockOrder(q)[i]
    BY DEF Missing, Waiting
  <2>2. Admitted(q, users)
    BY <1>1 DEF Sound
  <2> HIDE DEF q
  <2> QED
    BY <1>1, <2>1, <2>2, LocksExist
<1> DEFINE n == [q EXCEPT !.held = @ \cup {lock}]
<1>4. req' = [req EXCEPT ![c] = n]
  BY <1>2
<1>5. q.op = "accept" => invites[q.invite].state # "none"
  BY <1>1 DEF IInv, InvitesWereSent
<1> HIDE DEF q
<1>6. /\ n \in Request /\ n.held = q.held \cup {lock} /\ n.at = q.at /\ n.op = q.op /\ n.user = q.user
      /\ n.actor = q.actor /\ n.ctx = q.ctx /\ n.grant = q.grant /\ n.email = q.email
      /\ n.barber = q.barber /\ n.invite = q.invite /\ n.status = q.status /\ n.identity = q.identity
  BY <1>1, <1>3 DEF Request
<1> HIDE DEF n
<1>7. Admitted(n, users)
  BY <1>1, <1>6 DEF Sound, Admitted
<1>8. Sound(n, users, links, wasReset)
  BY <1>1, <1>6, <1>7, OutsideIsSound
<1> QED
  BY <1>2, <1>4, <1>5, <1>6, <1>8, QuietStep DEF TakeLock, q

\* Whoever waits for nothing holds the locks of its transaction.
LEMMA NothingMissing ==
    ASSUME Typed, NEW q \in Request, Admitted(q, users), q.at = "lock",
           \A i \in DOMAIN LockOrder(q) : LockOrder(q)[i] \subseteq q.held
    PROVE  /\ q.op \in UserOps => <<"user", q.user>> \in q.held
           /\ q.op = "bootstrap" => <<"advisory", "bootstrap">> \in q.held
           /\ q.op \in {"status", "access"} => <<"advisory", "administrators">> \in q.held
           /\ q.op \in {"create", "professional"} /\ q.barber # None => <<"barber", q.barber>> \in q.held
           /\ q.op = "professional" /\ q.barber = None =>
                \A b \in Barbers : links[b] = q.user => <<"barber", b>> \in q.held
           /\ q.op = "invite_professional" =>
                /\ <<"barber", q.barber>> \in q.held
                /\ links[q.barber] # None => <<"user", links[q.barber]>> \in q.held
<1>1. CASE q.op = "bootstrap"
  <2>1. LockOrder(q) = <<{<<"advisory", "bootstrap">>}>>
    BY <1>1 DEF LockOrder
  <2> QED
    BY <1>1, <2>1 DEF UserOps
<1>2. CASE q.op = "create"
  <2>1. LockOrder(q) = <<{<<"login", q.email>>}, {"barber"} \X ({q.barber} \ {None})>>
    BY <1>2 DEF LockOrder
  <2>2. {"barber"} \X ({q.barber} \ {None}) \subseteq q.held
    BY <2>1
  <2> QED
    BY <1>2, <2>2 DEF UserOps
<1>3. CASE q.op = "identity"
  <2>1. LockOrder(q) = <<{<<"user", q.user>>}, {"login"} \X ({q.email} \ {users[q.user].email})>>
    BY <1>3 DEF LockOrder
  <2>2. {<<"user", q.user>>} \subseteq q.held
    BY <2>1
  <2> QED
    BY <1>3, <2>2 DEF UserOps
<1>4. CASE q.op \in {"status", "access"}
  <2>1. LockOrder(q) = <<{<<"advisory", "administrators">>}, {<<"user", q.user>>}>>
    BY <1>4 DEF LockOrder
  <2>2. {<<"advisory", "administrators">>} \subseteq q.held /\ {<<"user", q.user>>} \subseteq q.held
    BY <2>1
  <2> QED
    BY <1>4, <2>2 DEF UserOps
<1>5. CASE q.op = "professional"
  <2> DEFINE Bs == IF q.barber = None THEN BarbersOf(q.user) ELSE {q.barber}
  <2>1. LockOrder(q) = <<{<<"user", q.user>>}, {"barber"} \X Bs>>
    BY <1>5 DEF LockOrder
  <2> HIDE DEF Bs
  <2>2. {<<"user", q.user>>} \subseteq q.held /\ {"barber"} \X Bs \subseteq q.held
    BY <2>1
  <2> QED
    BY <1>5, <2>2 DEF UserOps, Bs, BarbersOf
<1>6. CASE q.op \in {"invite", "revoke_invites"}
  <2>1. LockOrder(q) = <<{<<"user", q.user>>}, InviteLocks(q.user)>>
    BY <1>6 DEF LockOrder
  <2>2. {<<"user", q.user>>} \subseteq q.held
    BY <2>1
  <2> QED
    BY <1>6, <2>2 DEF UserOps
<1>7. CASE q.op = "accept"
  <2>1. LockOrder(q) = <<{<<"invite", q.invite>>}, {<<"user", q.user>>}>>
    BY <1>7 DEF LockOrder
  <2>2. {<<"user", q.user>>} \subseteq q.held
    BY <2>1
  <2> QED
    BY <1>7, <2>2 DEF UserOps
<1>8. CASE q.op = "invite_professional"
  <2>1. CASE links[q.barber] = None
    <3>1. LockOrder(q) = <<{<<"barber", q.barber>>}, {<<"login", BarberEmail[q.barber]>>}>>
      BY <1>8, <2>1 DEF LockOrder
    <3>2. {<<"barber", q.barber>>} \subseteq q.held
      BY <3>1
    <3> QED
      BY <1>8, <2>1, <3>2 DEF UserOps
  <2>2. CASE links[q.barber] # None
    <3>1. LockOrder(q) = <<{<<"barber", q.barber>>}, {<<"user", links[q.barber]>>},
                           InviteLocks(links[q.barber])>>
      BY <1>8, <2>2 DEF LockOrder
    <3>2. {<<"barber", q.barber>>} \subseteq q.held /\ {<<"user", links[q.barber]>>} \subseteq q.held
      BY <3>1
    <3> QED
      BY <1>8, <3>2 DEF UserOps
  <2> QED
    BY <2>1, <2>2
<1>9. CASE q.op = "accept_legacy"
  <2>1. LockOrder(q) = <<{<<"legacy", q.barber>>}, {<<"user", q.user>>}>>
    BY <1>9 DEF LockOrder
  <2>2. {<<"user", q.user>>} \subseteq q.held
    BY <2>1
  <2> QED
    BY <1>9, <2>2 DEF UserOps
<1>10. CASE q.op \in {"revoke_sessions", "password", "reset"}
  <2>1. LockOrder(q) = <<{<<"user", q.user>>}>>
    BY <1>10 DEF LockOrder
  <2>2. {<<"user", q.user>>} \subseteq q.held
    BY <2>1
  <2> QED
    BY <1>10, <2>2 DEF UserOps
<1>11. q.op \in AllOps \ {"login", "logout"}
  BY DEF Admitted, Request
<1> QED
  BY <1>1, <1>2, <1>3, <1>4, <1>5, <1>6, <1>7, <1>8, <1>9, <1>10, <1>11 DEF AllOps

\* A transaction decides with all its locks.
LEMMA AllLockedStep ==
    ASSUME IInv, NEW c \in Browsers, AllLocked(c)
    PROVE  IInv'
<1> DEFINE q == req[c]
           n == [q EXCEPT !.at = "decide"]
<1>1. q \in Request /\ q.at = "lock" /\ Admitted(q, users) /\ Typed
  BY DEF IInv, Typed, AllLocked, At, Sound
<1>2. \A i \in DOMAIN LockOrder(q) : LockOrder(q)[i] \subseteq q.held
  BY DEF AllLocked, Waiting
<1>3. req' = [req EXCEPT ![c] = n]
  BY DEF AllLocked, GoTo
<1>4. q.op = "accept" => invites[q.invite].state # "none"
  BY <1>1 DEF IInv, InvitesWereSent
<1> HIDE DEF q
<1>5. /\ n \in Request /\ n.held = q.held /\ n.at = "decide" /\ n.op = q.op /\ n.user = q.user
      /\ n.actor = q.actor /\ n.ctx = q.ctx /\ n.grant = q.grant /\ n.email = q.email
      /\ n.barber = q.barber /\ n.invite = q.invite /\ n.status = q.status /\ n.identity = q.identity
  BY <1>1 DEF Request, Steps
<1> HIDE DEF n
<1>6. Admitted(n, users)
  BY <1>1, <1>5 DEF Admitted
<1>7. HoldsLocks(n, links)
  BY <1>1, <1>2, <1>5, NothingMissing DEF HoldsLocks
<1>8. Sound(n, users, links, wasReset)
  BY <1>5, <1>6, <1>7 DEF Sound, Knows
<1> QED
  BY <1>3, <1>4, <1>5, <1>8, QuietStep DEF AllLocked, q

\* What is read before a lock is taken is of a user there is.
LEMMA ReadSnapshotStep ==
    ASSUME IInv, NEW c \in Browsers, ReadSnapshot(c)
    PROVE  IInv'
<1> DEFINE q == req[c]
<1>1. q \in Request /\ q.at = "read" /\ Admitted(q, users) /\ Typed /\ Kept
  BY DEF IInv, Typed, ReadSnapshot, At, Sound
<1>2. UNCHANGED <<tables, cookies>>
  BY DEF ReadSnapshot
<1>3. \A b \in Barbers : links[b] # None => Present(links[b], users)
  BY <1>1 DEF Typed, Kept, ReferencesHold, Present
<1>4. CASE q.op = "professional" /\ req' = [req EXCEPT ![c].seen = LinkOf(q.user), ![c].at = "lock"]
  <2> DEFINE n == [q EXCEPT !.seen = LinkOf(q.user), !.at = "lock"]
  <2>1. LinkOf(q.user) \in Barbers \cup {None}
    BY DEF LinkOf, BarbersOf
  <2>2. req' = [req EXCEPT ![c] = n]
    BY <1>1, <1>4 DEF Typed
  <2>3. q.op = "professional"
    BY <1>4
  <2> HIDE DEF q
  <2>4. /\ n \in Request /\ n.held = q.held /\ n.at = "lock" /\ n.op = "professional"
        /\ n.user = q.user /\ n.identity = q.identity
    <3> DEFINE m == [q EXCEPT !.seen = LinkOf(q.user)]
    <3>1. /\ m \in Request /\ m.held = q.held /\ m.op = "professional"
          /\ m.user = q.user /\ m.identity = q.identity
      BY <1>1, <2>1, <2>3 DEF Request
    <3>2. "lock" \in Steps
      BY DEF Steps
    <3> HIDE DEF m
    <3>3. [m EXCEPT !.at = "lock"] \in Request /\ [m EXCEPT !.at = "lock"].held = q.held
          /\ [m EXCEPT !.at = "lock"].at = "lock" /\ [m EXCEPT !.at = "lock"].op = "professional"
          /\ [m EXCEPT !.at = "lock"].user = q.user /\ [m EXCEPT !.at = "lock"].identity = q.identity
      BY <3>1, <3>2 DEF Request
    <3> QED
      BY <3>3 DEF m
  <2> HIDE DEF n
  <2>5. Sound(n, users, links, wasReset)
    BY <1>1, <2>3, <2>4, OutsideIsSound DEF Admitted
  <2> QED
    BY <1>2, <2>2, <2>4, <2>5, QuietStep DEF q
<1>5. CASE req' = [req EXCEPT ![c] = Idle]
  BY <1>2, <1>5, EndStep DEF End
<1>6. CASE /\ q.op = "reset" /\ links[q.barber] # None
           /\ req' = [req EXCEPT ![c] = [q EXCEPT !.user = links[q.barber], !.at = "lock"]]
  <2> DEFINE n == [q EXCEPT !.user = links[q.barber], !.at = "lock"]
  <2>1. q.barber \in Barbers
    BY <1>1, <1>6 DEF Admitted
  <2>2. links[q.barber] \in Users /\ Present(links[q.barber], users)
    BY <1>3, <1>6, <2>1 DEF Present
  <2>3. q.op = "reset" /\ req' = [req EXCEPT ![c] = n]
    BY <1>6
  <2> HIDE DEF q
  <2>4. /\ n \in Request /\ n.held = q.held /\ n.at = "lock" /\ n.op = "reset"
        /\ n.user = links[q.barber] /\ n.identity = q.identity /\ n.barber = q.barber
    BY <1>1, <2>2, <2>3 DEF Request, Steps
  <2> HIDE DEF n
  <2>5. Sound(n, users, links, wasReset)
    BY <1>1, <2>1, <2>2, <2>4, OutsideIsSound DEF Admitted
  <2> QED
    BY <1>2, <2>3, <2>4, <2>5, QuietStep DEF q
<1>7. CASE /\ q.op = "accept_legacy" /\ links[q.barber] # None
           /\ Holders(<<"legacy", q.barber>>) = {}
           /\ req' = [req EXCEPT ![c] = [q EXCEPT !.user = links[q.barber], !.at = "lock",
                                                  !.held = {<<"legacy", q.barber>>}]]
  <2> DEFINE n == [q EXCEPT !.user = links[q.barber], !.at = "lock", !.held = {<<"legacy", q.barber>>}]
  <2>1. q.barber \in Barbers
    BY <1>1, <1>7 DEF Admitted
  <2>2. links[q.barber] \in Users /\ Present(links[q.barber], users)
    BY <1>3, <1>7, <2>1 DEF Present
  <2>3. q.op = "accept_legacy" /\ Holders(<<"legacy", q.barber>>) = {} /\ req' = [req EXCEPT ![c] = n]
    BY <1>7
  <2>a. <<"legacy", q.barber>> \in Lock
    BY <2>1 DEF Lock
  <2> HIDE DEF q
  <2>4. /\ n \in Request /\ n.held = {<<"legacy", q.barber>>} /\ n.at = "lock"
        /\ n.op = "accept_legacy" /\ n.user = links[q.barber] /\ n.identity = q.identity
        /\ n.barber = q.barber
    BY <1>1, <2>2, <2>3, <2>a DEF Request, Steps
  <2> HIDE DEF n
  <2>5. Sound(n, users, links, wasReset)
    BY <1>1, <2>1, <2>2, <2>4, OutsideIsSound DEF Admitted
  <2> QED
    BY <1>2, <2>3, <2>4, <2>5, QuietStep DEF q
<1> QED
  BY <1>4, <1>5, <1>6, <1>7 DEF ReadSnapshot

\* What is accepted is known.
LEMMA AcceptedIsKnown ==
    ASSUME Typed, Kept, NEW q \in Request, Admitted(q, users), HoldsLocks(q, links),
           q.at = "decide", Accepted(q)
    PROVE  /\ q.op = "professional" /\ q.barber # None =>
                \A b \in Barbers : links[b] = q.user => b = q.barber
           /\ q.op = "bootstrap" => \A u \in Users : users[u].status = "none"
           /\ q.op = "status" => /\ users[q.user].status # "invited"
                                 /\ q.status = "active" => users[q.user].pw # 0
           /\ q.op = "invite" => users[q.user].status = "invited"
           /\ q.op = "invite_professional" /\ links[q.barber] # None =>
                users[links[q.barber]].status = "invited"
           /\ q.op \in {"status", "access"} => LeavesAnAdministrator(q, users)
<1>1. CASE q.op = "professional"
  <2>1. q.barber # None => Linkable(q.user, q.barber)
    BY <1>1 DEF Accepted, Creates
  <2> QED
    BY <1>1, <2>1 DEF Linkable, BarbersOf
<1>2. CASE q.op = "bootstrap"
  <2>1. NoUsers
    BY <1>2 DEF Accepted, NoUsers, Creates
  <2> QED
    BY <1>2, <2>1 DEF NoUsers
<1>3. CASE q.op = "invite"
  BY <1>3 DEF Accepted, Creates
<1>4. CASE q.op = "invite_professional"
  <2>1. CASE links[q.barber] # None
    <3>1. users[links[q.barber]].status = "invited"
      BY <1>4, <2>1 DEF Accepted, Creates
    <3> QED
      BY <1>4, <3>1
  <2>2. CASE links[q.barber] = None
    BY <1>4, <2>2
  <2> QED
    BY <2>1, <2>2
<1>5. q.op \in {"status", "access"} /\ AdministratorRemains(UsersAfter(q)) => LeavesAnAdministrator(q, users)
  <2> SUFFICES ASSUME q.op \in {"status", "access"}, AdministratorRemains(UsersAfter(q))
               PROVE  LeavesAnAdministrator(q, users)
    OBVIOUS
  <2>1. q.op \in UserOps /\ Present(q.user, users) /\ (q.op = "status" => q.status \in {"active", "disabled"})
    BY DEF UserOps, Admitted
  <2>2. PICK u \in Users : IsActiveAdministrator(UsersAfter(q)[u])
    BY DEF AdministratorRemains, ActiveAdministrators, IsActiveAdministrator
  <2>3. CASE u # q.user
    BY <2>2, <2>3 DEF UsersAfter, LeavesAnAdministrator, Typed
  <2>4. CASE u = q.user
    <3>1. IsActiveAdministrator(RowAfter(q))
      BY <2>2, <2>4 DEF UsersAfter, Typed
    <3>2. /\ RowAfter(q).status = IF q.op = "status" THEN q.status
                                  ELSE IF q.op \in {"accept", "accept_legacy"} THEN "active"
                                  ELSE IF q.op = "reset" THEN "invited"
                                  ELSE users[q.user].status
          /\ RowAfter(q).access = IF q.op = "access" THEN ReplaceScopes(users[q.user].access, q)
                                  ELSE users[q.user].access
      BY <2>1, RowsAfter
    <3> QED
      BY <3>1, <3>2 DEF IsActiveAdministrator, LeavesAnAdministrator
  <2> QED
    BY <2>3, <2>4
<1>6. CASE q.op = "status"
  <2>1. /\ users[q.user].status # "invited" /\ (q.status = "active" => users[q.user].pw # 0)
        /\ AdministratorRemains(UsersAfter(q))
    BY <1>6 DEF Accepted, Creates
  <2> QED
    BY <1>5, <1>6, <2>1
<1>7. CASE q.op = "access"
  <2>1. AdministratorRemains(UsersAfter(q))
    BY <1>7 DEF Accepted, Creates
  <2> QED
    BY <1>5, <1>7, <2>1
<1> QED
  BY <1>1, <1>2, <1>3, <1>4, <1>6, <1>7

\* A request that is accepted knows what it checked.
LEMMA DecideStep ==
    ASSUME IInv, NEW c \in Browsers, Decide(c)
    PROVE  IInv'
<1> DEFINE q == req[c]
           n == [q EXCEPT !.at = "commit"]
<1>1. /\ q \in Request /\ q.at = "decide" /\ Admitted(q, users) /\ HoldsLocks(q, links)
      /\ Typed /\ Kept
  BY DEF IInv, Typed, Decide, At, Sound
<1>2. UNCHANGED <<tables, cookies>>
  BY DEF Decide
<1>3. CASE End(c)
  BY <1>2, <1>3, EndStep
<1>4. CASE Accepted(q) /\ GoTo(c, "commit")
  <2>1. req' = [req EXCEPT ![c] = n] /\ Accepted(q)
    BY <1>4 DEF GoTo
  <2>2. q.op = "accept" => invites[q.invite].state # "none"
    BY <1>1 DEF IInv, InvitesWereSent
  <2> HIDE DEF q
  <2>3. /\ n \in Request /\ n.held = q.held /\ n.at = "commit" /\ n.op = q.op /\ n.user = q.user
        /\ n.actor = q.actor /\ n.ctx = q.ctx /\ n.grant = q.grant /\ n.email = q.email
        /\ n.barber = q.barber /\ n.invite = q.invite /\ n.status = q.status /\ n.identity = q.identity
        /\ n.place = q.place
    BY <1>1 DEF Request, Steps
  <2> HIDE DEF n
  <2>4. Admitted(n, users)
    BY <1>1, <2>3 DEF Admitted
  <2>5. HoldsLocks(n, links)
    BY <1>1, <2>3 DEF HoldsLocks
  <2>6. LeavesAnAdministrator(q, users) => LeavesAnAdministrator(n, users)
    BY <2>3 DEF LeavesAnAdministrator, ReplaceScopes
  <2>7. Knows(n, users, links, wasReset)
    BY <1>1, <2>1, <2>3, <2>6, AcceptedIsKnown DEF Knows
  <2> QED
    BY <1>2, <2>1, <2>2, <2>3, <2>4, <2>5, <2>7, QuietStep DEF Sound, q
<1> QED
  BY <1>3, <1>4 DEF Decide

\* The conditional UPDATE of a login leaves the identity that was compared.
LEMMA AuthenticateStep ==
    ASSUME IInv, NEW c \in Browsers, Authenticate(c)
    PROVE  IInv'
<1> DEFINE q == req[c]
           n == [q EXCEPT !.at = "cookie"]
<1>1. q \in Request /\ q.at = "compare" /\ Admitted(q, users)
  BY DEF IInv, Typed, Authenticate, At, Sound
<1>2. UNCHANGED <<tables, cookies>>
  BY DEF Authenticate
<1>3. CASE End(c)
  BY <1>2, <1>3, EndStep
<1>4. CASE GoTo(c, "cookie")
  <2>1. req' = [req EXCEPT ![c] = n]
    BY <1>4 DEF GoTo
  <2> HIDE DEF q
  <2>2. n \in Request /\ n.held = q.held /\ n.at = "cookie" /\ n.identity = q.identity
    BY <1>1 DEF Request, Steps
  <2> HIDE DEF n
  <2>3. Sound(n, users, links, wasReset)
    BY <1>1, <2>2, OutsideIsSound DEF Admitted
  <2> QED
    BY <1>2, <2>1, <2>2, <2>3, QuietStep DEF q
<1> QED
  BY <1>3, <1>4 DEF Authenticate

-----------------------------------------------------------------------------
\* Steps on the sessions and on what is left of the time before.
LEMMA SessionStep ==
    ASSUME IInv, UNCHANGED tables, NEW c \in Browsers,
           NEW identity \in Identity, IsOfItsUser(identity, users),
           cookies' = [cookies EXCEPT ![c] = identity],
           End(c) \/ req' = req
    PROVE  IInv'
<1>1. Typed /\ Kept /\ LocksExclude /\ InvitesWereSent
      /\ \A d \in Browsers : Sound(req[d], users, links, wasReset)
  BY DEF IInv
<1>2. UNCHANGED <<users, links, invites, legacy, wasReset>>
  BY DEF tables
<1>3. req' \in [Browsers -> Request] /\ \A d \in Browsers : req'[d] = req[d] \/ req'[d] = Idle
  BY <1>1, IdleIsARequest DEF Typed, End
<1>4. Typed'
  BY <1>1, <1>2, <1>3 DEF Typed
<1>5. \A d \in Browsers : cookies'[d] = cookies[d] \/ cookies'[d] = identity
  BY <1>1 DEF Typed
<1>6. Kept'
  <2>1. \A d \in Browsers : IsOfItsUser(cookies'[d], users')
    <3> SUFFICES ASSUME NEW d \in Browsers
                 PROVE  IsOfItsUser(cookies'[d], users)
      BY <1>2
    <3> QED
      BY <1>1, <1>5 DEF Kept
  <2> QED
    BY <1>1, <1>2, <2>1 DEF Kept, OnlyAResetTakesTheLastAdministrator, OneAdministratorRemains,
       ActiveAdministrators
<1>7. LocksExclude' /\ InvitesWereSent'
  BY <1>1, <1>2, <1>3, IdleIsARequest DEF LocksExclude, InvitesWereSent
<1>8. \A d \in Browsers : Sound(req'[d], users', links', wasReset')
  <2> SUFFICES ASSUME NEW d \in Browsers
               PROVE  Sound(req'[d], users, links, wasReset)
    BY <1>2
  <2> QED
    BY <1>1, <1>3, EndedIsSound
<1> QED
  BY <1>4, <1>6, <1>7, <1>8 DEF IInv

\* invalidateBarberInvites
LEMMA InvalidateStep ==
    ASSUME IInv, NEW c \in Browsers, InvalidateLegacy(c)
    PROVE  IInv'
<1>1. Typed /\ Kept /\ LocksExclude /\ InvitesWereSent
      /\ \A d \in Browsers : Sound(req[d], users, links, wasReset)
  BY DEF IInv
<1>2. /\ UNCHANGED <<users, links, invites, cookies, wasReset>> /\ End(c)
      /\ legacy' = [legacy EXCEPT ![req[c].barber] = IF @ = "open" THEN "used" ELSE @]
  BY DEF InvalidateLegacy
<1>3. legacy' \in [Barbers -> {"none", "open", "used"}]
      /\ \A b \in Barbers : legacy[b] = "used" => legacy'[b] = "used"
  BY <1>1, <1>2 DEF Typed
<1>4. req' \in [Browsers -> Request] /\ \A d \in Browsers : req'[d] = req[d] \/ req'[d] = Idle
  BY <1>1, <1>2, IdleIsARequest DEF Typed, End
<1>5. Typed'
  BY <1>1, <1>2, <1>3, <1>4 DEF Typed
<1>6. InvitesAreAwaited(invites', users', legacy')
  BY <1>1, <1>2, <1>3 DEF Kept, InvitesAreAwaited
<1>7. Kept'
  BY <1>1, <1>2, <1>6 DEF Kept, OnlyAResetTakesTheLastAdministrator, OneAdministratorRemains,
     ActiveAdministrators
<1>8. LocksExclude' /\ InvitesWereSent'
  BY <1>1, <1>2, <1>4, IdleIsARequest DEF LocksExclude, InvitesWereSent
<1>9. \A d \in Browsers : Sound(req'[d], users', links', wasReset')
  <2> SUFFICES ASSUME NEW d \in Browsers
               PROVE  Sound(req'[d], users, links, wasReset)
    BY <1>2
  <2> QED
    BY <1>1, <1>4, EndedIsSound
<1> QED
  BY <1>5, <1>7, <1>8, <1>9 DEF IInv

\* An invite that expires was open.
LEMMA ExpireStep ==
    ASSUME IInv, NEW i \in Invites, Expire(i)
    PROVE  IInv'
<1>1. Typed /\ Kept /\ LocksExclude /\ InvitesWereSent
      /\ \A d \in Browsers : Sound(req[d], users, links, wasReset)
  BY DEF IInv
<1>2. /\ UNCHANGED <<users, links, legacy, cookies, req, wasReset>>
      /\ invites[i].state = "open" /\ invites' = [invites EXCEPT ![i].state = "expired"]
  BY DEF Expire
<1>3. /\ invites' \in [Invites -> Invite]
      /\ \A j \in Invites : /\ invites'[j].user = invites[j].user
                            /\ invites'[j].state = "open" => invites[j].state = "open"
                            /\ invites'[j].state = "none" <=> invites[j].state = "none"
  BY <1>1, <1>2 DEF Typed, Invite
<1>4. Typed'
  BY <1>1, <1>2, <1>3 DEF Typed
<1>5. /\ ReferencesHold(users', links', invites') /\ InvitesOpenOnce(invites')
      /\ InvitesAreAwaited(invites', users', legacy')
  BY <1>1, <1>2, <1>3 DEF Kept, ReferencesHold, InvitesOpenOnce, InvitesAreAwaited
<1>6. Kept'
  BY <1>1, <1>2, <1>5 DEF Kept, OnlyAResetTakesTheLastAdministrator, OneAdministratorRemains,
     ActiveAdministrators
<1>7. InvitesWereSent'
  BY <1>1, <1>2, <1>3 DEF InvitesWereSent, Sound, Admitted
<1>8. LocksExclude'
  BY <1>1, <1>2 DEF LocksExclude
<1> QED
  BY <1>1, <1>2, <1>4, <1>6, <1>7, <1>8 DEF IInv

\* The induction step.
LEMMA StepsKeepIInv == IInv /\ [Next]_vars => IInv'
<1> SUFFICES ASSUME IInv, [Next]_vars
             PROVE  IInv'
  OBVIOUS
<1>a. Typed /\ Kept /\ \A d \in Browsers : Sound(req[d], users, links, wasReset)
  BY DEF IInv
<1>b. IsOfItsUser(Nobody, users)
  BY NobodyIsAnIdentity DEF IsOfItsUser
<1>1. CASE UNCHANGED vars
  BY <1>1 DEF vars, IInv, Typed, Kept, LocksExclude, InvitesWereSent,
     OnlyAResetTakesTheLastAdministrator, OneAdministratorRemains, ActiveAdministrators
<1>2. ASSUME NEW c \in Browsers, Admit(c)
      PROVE  IInv'
  BY <1>2, ManagementStep, ReplaceAccessStep, PasswordStep, PublicStep DEF Admit
<1>3. ASSUME NEW c \in Browsers, Logout(c)
      PROVE  IInv'
  BY <1>3, <1>b, NobodyIsAnIdentity, SessionStep DEF Logout
<1>4. ASSUME NEW c \in Browsers, EstablishSession(c)
      PROVE  IInv'
  <2>1. req[c].identity \in Identity /\ IsOfItsUser(req[c].identity, users)
    BY <1>a DEF Typed, Request, Sound, Admitted
  <2> QED
    BY <1>4, <2>1, SessionStep DEF EstablishSession
<1>5. ASSUME NEW c \in Browsers, ClearSession(c)
      PROVE  IInv'
  BY <1>5, <1>b, NobodyIsAnIdentity, SessionStep DEF ClearSession
<1>6. ASSUME NEW c \in Browsers, BreakDeadlock(c) \/ Fail(c)
      PROVE  IInv'
  BY <1>6, EndStep DEF BreakDeadlock, Fail
<1>7. ASSUME NEW c \in Browsers, Commit(c)
      PROVE  IInv'
  BY <1>7, CommitsAreSafe, CommitStep
<1>8. ASSUME NEW c \in Browsers, Work(c)
      PROVE  IInv'
  BY <1>4, <1>5, <1>6, <1>7, <1>8, AllLockedStep, ReadSnapshotStep, DecideStep, InvalidateStep,
     AuthenticateStep DEF Work
<1> QED
  BY <1>1, <1>2, <1>3, <1>6, <1>8, TakeLockStep, ExpireStep DEF Next

\* The base: InstallationAssumption.
LEMMA InitialStatesAreSound == Init => IInv
<1> SUFFICES ASSUME Init
             PROVE  IInv
  OBVIOUS
<1>1. PICK start \in Installations :
        /\ users = start.users /\ links = start.links /\ invites = start.invites
        /\ legacy = start.legacy /\ cookies = start.cookies
  BY DEF Init
<1>2. Installed(start)
  BY InstallationAssumption
<1>3. req = [c \in Browsers |-> Idle] /\ wasReset = FALSE
  BY DEF Init
<1>4. Typed
  BY <1>1, <1>2, <1>3, IdleIsARequest DEF Installed, Typed
<1>5. Kept
  BY <1>1, <1>2 DEF Installed, Kept, OnlyAResetTakesTheLastAdministrator, OneAdministratorRemains,
     AdministratorRemains
<1>6. LocksExclude /\ InvitesWereSent
  BY <1>3, IdleIsARequest DEF LocksExclude, InvitesWereSent
<1>7. \A c \in Browsers : Sound(req[c], users, links, wasReset)
  BY <1>3, EndedIsSound
<1> QED
  BY <1>4, <1>5, <1>6, <1>7 DEF IInv

\* The inductive invariant holds.
THEOREM AccountsStaySound == Spec => []IInv
BY InitialStatesAreSound, StepsKeepIInv, PTL DEF Spec

\* A session of an active user was opened with the password the user has now, whichever
\* login was comparing passwords when it was changed (authenticateCanonicalUser).
THEOREM LiveSessionsKnow == Spec => []LiveSessionsKnowThePassword
<1>1. IInv => LiveSessionsKnowThePassword
  BY DEF IInv, Kept, LiveSessionsKnowThePassword, Valid, IsOfItsUser
<1> QED
  BY <1>1, AccountsStaySound, PTL

\* An open invite is the only one of its user, who waits for it, unless a legacy invite
\* was used (createInvite, acceptCanonicalUserInvite).
THEOREM InvitesStayInOrder == Spec => []OneOpenInvite
<1>1. IInv => OneOpenInvite
  BY DEF IInv, Kept, OneOpenInvite
<1> QED
  BY <1>1, AccountsStaySound, PTL

\* Without a professional's reset an installation keeps an active global administrator,
\* however many requests disable and demote at the same time (assertGlobalAdministratorRemains).
THEOREM AdministratorsStay == Spec => []OnlyAResetTakesTheLastAdministrator
<1>1. IInv => OnlyAResetTakesTheLastAdministrator
  BY DEF IInv, Kept
<1> QED
  BY <1>1, AccountsStaySound, PTL

-----------------------------------------------------------------------------
\* Only commits change users.
LEMMA UsersChangeInCommits ==
    ASSUME [Next]_vars, users' # users
    PROVE  \E c \in Browsers : Commit(c)
<1>1. Next
  BY SMTT(40) DEF vars
<1>2. ASSUME NEW c \in Browsers, Admit(c)
      PROVE  users' = users
  BY <1>2 DEF Admit, AdmitManagement, AdmitReplaceAccess, AdmitPassword, AdmitPublic, Begin, tables
<1>3. ASSUME NEW c \in Browsers, Logout(c) \/ TakeLock(c) \/ Fail(c)
      PROVE  users' = users
  BY <1>3 DEF Logout, TakeLock, Fail, tables
<1>4. ASSUME NEW c \in Browsers, Work(c), ~Commit(c)
      PROVE  users' = users
  BY <1>4 DEF Work, AllLocked, BreakDeadlock, ReadSnapshot, Decide, InvalidateLegacy, Authenticate,
     EstablishSession, ClearSession, tables
<1>5. ASSUME NEW i \in Invites, Expire(i)
      PROVE  users' = users
  BY <1>5 DEF Expire
<1> QED
  BY <1>1, <1>2, <1>3, <1>4, <1>5 DEF Next

\* A session outlives no change of its user's status, email, password or access
\* (session_version, in every UPDATE of the user management).
THEOREM RightsEndSessions == Spec => SessionsEndWithTheirRights
<1> DEFINE Ends == \A c \in Browsers : Valid(c) /\ Valid(c)' /\ cookies'[c] = cookies[c]
                     => users'[cookies[c].user] = users[cookies[c].user]
<1>1. IInv /\ [Next]_vars => Ends
  <2> SUFFICES ASSUME IInv, [Next]_vars,
                      NEW c \in Browsers, Valid(c), Valid(c)', cookies'[c] = cookies[c],
                      users'[cookies[c].user] # users[cookies[c].user]
               PROVE  FALSE
    OBVIOUS
  <2> DEFINE u == cookies[c].user
  <2>1. u \in Users /\ users[u].status = "active" /\ users[u].version \in Nat
    BY DEF Valid, IInv, Typed, Identity, User
  <2>2. users[u].version = cookies[c].version /\ users'[u].version = cookies[c].version
    BY DEF Valid
  <2>3. PICK d \in Browsers : Commit(d)
    BY UsersChangeInCommits
  <2>4. RowsMove(req[d].held, users, users')
    BY <2>3, CommitsAreSafe DEF SafeCommit
  <2> HIDE DEF u
  <2>5. users'[u].version = users[u].version + 1
    BY <2>1, <2>4 DEF RowsMove, u
  <2> QED
    BY <2>1, <2>2, <2>5
<1> QED
  BY <1>1, AccountsStaySound, PTL DEF Spec, SessionsEndWithTheirRights

\* What a grant under the ceiling gives, the actor had.
LEMMA GrantsStayBelow ==
    ASSUME NEW ctx, NEW grant \in Access, UnderCeiling(ctx, grant)
    PROVE  /\ \A place \in Places : \A cap \in Granted(grant, place) : HasCapabilityAt(ctx, cap, place)
           /\ IsGlobalAdministrator(grant) => IsGlobalAdministrator(ctx)
<1>2. ASSUME NEW place \in Places, grant[place] = NoScope
      PROVE  Granted(grant, place) = {}
  BY <1>2 DEF Granted, NoScope, PresetCapabilities
<1>3. "global" \in Places
  OBVIOUS
<1>4. grant["global"] = NoScope => ~IsGlobalAdministrator(grant)
  BY DEF IsGlobalAdministrator, NoScope
<1> QED
  BY <1>2, <1>3, <1>4 DEF UnderCeiling

\* Nobody gives what he does not have: the ceiling that was checked when a request was
\* admitted covers what its commit gives (assertGrantCeiling).
THEOREM RightsComeFromSomewhere == Spec => RightsAreHandedDown
<1> DEFINE HandedDown(u, place) ==
         \/ Granted(users'[u].access, place) \subseteq Granted(users[u].access, place)
         \/ \A v \in Users : users[v].status = "none"
         \/ \E c \in Browsers :
              /\ At(c, "commit")
              /\ \A cap \in Granted(users'[u].access, place) \ Granted(users[u].access, place) :
                    HasCapabilityAt(req[c].ctx, cap, place)
              /\ IsGlobalAdministrator(users'[u].access) => IsGlobalAdministrator(req[c].ctx)
                                                          \/ IsGlobalAdministrator(users[u].access)
<1>1. ASSUME IInv, NEW c \in Browsers, Commit(c), NEW u \in Users, NEW place \in Places
      PROVE  HandedDown(u, place)
  <2> DEFINE q == req[c]
  <2>1. /\ q \in Request /\ q.at = "commit" /\ At(c, "commit") /\ Typed
        /\ Admitted(q, users) /\ Knows(q, users, links, wasReset)
    BY <1>1 DEF Commit, At, IInv, Typed, Sound
  <2>2. SafeCommit(c)
    BY <1>1, CommitsAreSafe
  <2>3. q.grant \in Access
    BY <2>1 DEF Request
  <2>4. CASE CommitBootstrap(c)
    BY <2>1, <2>4 DEF CommitBootstrap, Knows
  <2>5. CASE CommitNewUser(c)
    <3>1. PICK v \in Users : Creates(q) /\ users' = [users EXCEPT ![v] = NewUser(q)]
      BY <2>5 DEF CommitNewUser
    <3>2. q.op \in {"create", "invite_professional"}
      BY <3>1 DEF Creates
    <3>3. UnderCeiling(q.ctx, q.grant)
      BY <2>1, <3>2 DEF Admitted
    <3>4. CASE u = v
      <4>1. users'[u].access = q.grant
        BY <2>1, <3>1, <3>4 DEF Typed, NewUser
      <4> QED
        BY <2>1, <2>3, <3>3, <4>1, GrantsStayBelow
    <3>5. CASE u # v
      BY <2>1, <3>1, <3>5 DEF Typed
    <3> QED
      BY <3>4, <3>5
  <2>6. CASE CommitInvite(c) \/ CommitRevokeInvites(c)
    BY <2>6 DEF CommitInvite, CommitRevokeInvites
  <2>7. CASE users' = UsersAfter(q) /\ q.op \in UserOps
    <3>1. /\ RowAfter(q).access = IF q.op = "access" THEN ReplaceScopes(users[q.user].access, q)
                                  ELSE users[q.user].access
      BY <2>1, <2>7, RowsAfter DEF Admitted
    <3>2. u # q.user => users'[u] = users[u]
      BY <2>1, <2>7 DEF UsersAfter, Typed
    <3>3. u = q.user => users'[u] = RowAfter(q)
      BY <2>1, <2>7 DEF UsersAfter, Typed
    <3>4. CASE u # q.user \/ q.op # "access"
      BY <3>1, <3>2, <3>3, <3>4
    <3>5. CASE u = q.user /\ q.op = "access"
      <4>1. UnderCeiling(q.ctx, q.grant)
        BY <2>1, <3>5 DEF Admitted
      <4>2. users'[u].access = ReplaceScopes(users[u].access, q)
        BY <3>1, <3>3, <3>5
      <4>3. users[u].access \in Access /\ q.place \in Places
        BY <2>1 DEF Typed, User, Request
      <4>4. CASE q.place = "global"
        <5>1. users'[u].access = q.grant
          BY <4>2, <4>4 DEF ReplaceScopes
        <5> QED
          BY <2>1, <2>3, <4>1, <5>1, GrantsStayBelow
      <4>5. CASE q.place # "global"
        <5>1. users'[u].access = [users[u].access EXCEPT ![q.place] = q.grant[q.place]]
          BY <4>2, <4>5 DEF ReplaceScopes
        <5>2. IsGlobalAdministrator(users'[u].access) => IsGlobalAdministrator(users[u].access)
          BY <4>3, <4>5, <5>1 DEF IsGlobalAdministrator, Access
        <5>3. place # q.place => Granted(users'[u].access, place) = Granted(users[u].access, place)
          BY <4>3, <5>1 DEF Granted, Access
        <5>4. place = q.place => Granted(users'[u].access, place) = Granted(q.grant, place)
          BY <4>3, <5>1 DEF Granted, Access
        <5> QED
          BY <2>1, <2>3, <4>1, <5>2, <5>3, <5>4, GrantsStayBelow
      <4> QED
        BY <4>4, <4>5
    <3> QED
      BY <3>4, <3>5
  <2>8. CASE CommitProfessional(c) \/ CommitRow(c) \/ CommitAccept(c) \/ CommitAcceptLegacy(c)
             \/ CommitRevokeSessions(c) \/ CommitReset(c)
    BY <2>7, <2>8 DEF CommitProfessional, CommitRow, CommitAccept, CommitAcceptLegacy,
       CommitRevokeSessions, CommitReset, UserOps
  <2> QED
    BY <1>1, <2>4, <2>5, <2>6, <2>8 DEF Commit
<1> HIDE DEF HandedDown
<1>2. IInv /\ [Next]_vars /\ users' # users => \A u \in Users, place \in Places : HandedDown(u, place)
  BY <1>1, UsersChangeInCommits
<1> DEFINE Down == users' # users => \A u \in Users, place \in Places :
         Granted(users'[u].access, place) \subseteq Granted(users[u].access, place)
         \/ \A v \in Users : users[v].status = "none"
         \/ \E c \in Browsers :
              /\ At(c, "commit")
              /\ \A cap \in Granted(users'[u].access, place) \ Granted(users[u].access, place) :
                    HasCapabilityAt(req[c].ctx, cap, place)
              /\ IsGlobalAdministrator(users'[u].access) => IsGlobalAdministrator(req[c].ctx)
                                                          \/ IsGlobalAdministrator(users[u].access)
<1>3. IInv /\ [Next]_vars => Down
  BY <1>2 DEF HandedDown
<1> QED
  BY <1>3, AccountsStaySound, PTL DEF Spec, RightsAreHandedDown

-----------------------------------------------------------------------------
(***************************************************************************)
(* The authentication mode.  The installation runs the accounts of         *)
(* UserAccess in one mode and those of AuthCutover in the other, so what   *)
(* is proved of each of them holds of the installation.  LegacyProofs has  *)
(* the theorems of AuthCutover_proofs for the tables of the installation;  *)
(* its definitions are those of Legacy, one by one.                        *)
(***************************************************************************)
LegacyProofs == INSTANCE AuthCutover_proofs WITH
    Admins <- LegacyAdmins, Barbers <- LegacyBarbers, Users <- LegacyUsers,
    Invites <- LegacyInvites, Emails <- LegacyEmails, Names <- LegacyNames,
    Clients <- Browsers, Ops <- LegacyOps, Installations <- LegacyInstallations,
    MaxRequests <- LegacyMaxRequests,
    invites <- barberInvites, req <- requests, begun <- received

LEMMA SameTables ==
  /\ (Legacy!CutoverAssumption <=> LegacyProofs!CutoverAssumption)
  /\ (Legacy!Init <=> LegacyProofs!Init)
  /\ (Legacy!vars = LegacyProofs!vars)
  BY Zenon DEF
     Legacy!CutoverAssumption, LegacyProofs!CutoverAssumption, Legacy!IsFiniteSet,
     LegacyProofs!IsFiniteSet, Legacy!Identifiers, LegacyProofs!Identifiers,
     Legacy!Installed, LegacyProofs!Installed, Legacy!Tables, LegacyProofs!Tables,
     Legacy!Admin, LegacyProofs!Admin, Legacy!Barber, LegacyProofs!Barber, Legacy!User,
     LegacyProofs!User, Legacy!Absent, LegacyProofs!Absent, Legacy!Invite,
     LegacyProofs!Invite, Legacy!Init, LegacyProofs!Init, Legacy!Idle, LegacyProofs!Idle,
     Legacy!NoRun, LegacyProofs!NoRun, Legacy!vars, LegacyProofs!vars

LEMMA SameStarts ==
  ASSUME NEW s
  PROVE  /\ (\A b : Legacy!StartInvite(s, b) <=> LegacyProofs!StartInvite(s, b))
         /\ (\A b : Legacy!StartEdit(s, b) <=> LegacyProofs!StartEdit(s, b))
         /\ (\A b : Legacy!StartReset(s, b) <=> LegacyProofs!StartReset(s, b))
         /\ (\A i : Legacy!StartAccept(s, i) <=> LegacyProofs!StartAccept(s, i))
         /\ (\A a : Legacy!CreateAdmin(s, a) <=> LegacyProofs!CreateAdmin(s, a))
  BY Zenon DEF
     Legacy!StartInvite, LegacyProofs!StartInvite, Legacy!StartEdit, LegacyProofs!StartEdit,
     Legacy!StartReset, LegacyProofs!StartReset, Legacy!StartAccept,
     LegacyProofs!StartAccept, Legacy!CreateAdmin, LegacyProofs!CreateAdmin, Legacy!Begin,
     LegacyProofs!Begin, Legacy!At, LegacyProofs!At, Legacy!Idle, LegacyProofs!Idle,
     Legacy!InUse, LegacyProofs!InUse, Legacy!Identifiers, LegacyProofs!Identifiers,
     Legacy!Exists, LegacyProofs!Exists, Legacy!NewPassword, LegacyProofs!NewPassword,
     Legacy!Passwords, LegacyProofs!Passwords, Legacy!Max, LegacyProofs!Max

LEMMA SameWaits ==
  ASSUME NEW s
  PROVE  /\ (Legacy!LockAdvisory(s) <=> LegacyProofs!LockAdvisory(s))
         /\ (Legacy!LockRow(s) <=> LegacyProofs!LockRow(s))
         /\ (Legacy!ClaimInvite(s) <=> LegacyProofs!ClaimInvite(s))
         /\ (Legacy!Abort(s) <=> LegacyProofs!Abort(s))
  BY Zenon DEF
     Legacy!LockAdvisory, LegacyProofs!LockAdvisory, Legacy!LockRow, LegacyProofs!LockRow,
     Legacy!ClaimInvite, LegacyProofs!ClaimInvite, Legacy!Abort, LegacyProofs!Abort,
     Legacy!At, LegacyProofs!At, Legacy!Take, LegacyProofs!Take, Legacy!Granted,
     LegacyProofs!Granted, Legacy!Blockers, LegacyProofs!Blockers, Legacy!Deadlocked,
     LegacyProofs!Deadlocked, Legacy!Wanted, LegacyProofs!Wanted, Legacy!OpenOf,
     LegacyProofs!OpenOf, Legacy!EmailKeys, LegacyProofs!EmailKeys, Legacy!InUse,
     LegacyProofs!InUse, Legacy!End, LegacyProofs!End, Legacy!Idle, LegacyProofs!Idle

LEMMA SameWrites ==
  ASSUME NEW s
  PROVE  /\ (Legacy!ReplaceInvite(s) <=> LegacyProofs!ReplaceInvite(s))
         /\ (Legacy!RevokeAccess(s) <=> LegacyProofs!RevokeAccess(s))
         /\ (Legacy!Update(s) <=> LegacyProofs!Update(s))
         /\ (Legacy!SetPassword(s) <=> LegacyProofs!SetPassword(s))
  BY Zenon DEF
     Legacy!ReplaceInvite, LegacyProofs!ReplaceInvite, Legacy!RevokeAccess,
     LegacyProofs!RevokeAccess, Legacy!Update, LegacyProofs!Update, Legacy!SetPassword,
     LegacyProofs!SetPassword, Legacy!At, LegacyProofs!At, Legacy!Granted,
     LegacyProofs!Granted, Legacy!Blockers, LegacyProofs!Blockers, Legacy!Wanted,
     LegacyProofs!Wanted, Legacy!OpenOf, LegacyProofs!OpenOf, Legacy!EmailKeys,
     LegacyProofs!EmailKeys, Legacy!InUse, LegacyProofs!InUse, Legacy!End, LegacyProofs!End,
     Legacy!Idle, LegacyProofs!Idle, Legacy!Used, LegacyProofs!Used, Legacy!NewPassword,
     LegacyProofs!NewPassword, Legacy!Passwords, LegacyProofs!Passwords, Legacy!Max,
     LegacyProofs!Max

LEMMA SameCases ==
  ASSUME NEW T
  PROVE  /\ (Legacy!Cases(T) = LegacyProofs!Cases(T))
         /\ (Legacy!SafeCases(T) = LegacyProofs!SafeCases(T))
  BY Zenon DEF
     Legacy!Cases, LegacyProofs!Cases, Legacy!SafeCases, LegacyProofs!SafeCases,
     Legacy!Component, LegacyProofs!Component, Legacy!Records, LegacyProofs!Records,
     Legacy!IdentifiersOf, LegacyProofs!IdentifiersOf, Legacy!Exists, LegacyProofs!Exists,
     Legacy!IsSafe, LegacyProofs!IsSafe, Legacy!IsBlocker, LegacyProofs!IsBlocker,
     Legacy!NeedsReview, LegacyProofs!NeedsReview, Legacy!Mixed, LegacyProofs!Mixed,
     Legacy!AdminsOf, LegacyProofs!AdminsOf, Legacy!BarbersOf, LegacyProofs!BarbersOf,
     Legacy!LinkedUsers, LegacyProofs!LinkedUsers, Legacy!Hashes, LegacyProofs!Hashes,
     Legacy!Usable, LegacyProofs!Usable, Legacy!Cardinality, LegacyProofs!Cardinality

LEMMA SameSafety ==
  ASSUME NEW T, NEW c
  PROVE  /\ (Legacy!IsSafe(T, c) <=> LegacyProofs!IsSafe(T, c))
         /\ (Legacy!HasLogin(T, c) <=> LegacyProofs!HasLogin(T, c))
  BY Zenon DEF
     Legacy!IsSafe, LegacyProofs!IsSafe, Legacy!HasLogin, LegacyProofs!HasLogin,
     Legacy!IsBlocker, LegacyProofs!IsBlocker, Legacy!NeedsReview, LegacyProofs!NeedsReview,
     Legacy!Mixed, LegacyProofs!Mixed, Legacy!AdminsOf, LegacyProofs!AdminsOf,
     Legacy!BarbersOf, LegacyProofs!BarbersOf, Legacy!LinkedUsers, LegacyProofs!LinkedUsers,
     Legacy!Hashes, LegacyProofs!Hashes, Legacy!Usable, LegacyProofs!Usable,
     Legacy!Cardinality, LegacyProofs!Cardinality, Legacy!IdentifiersOf,
     LegacyProofs!IdentifiersOf

LEMMA SameUser ==
  ASSUME NEW T, NEW c
  PROVE  /\ (Legacy!Candidates(T, c) = LegacyProofs!Candidates(T, c))
         /\ (Legacy!Succeeds(T, c) <=> LegacyProofs!Succeeds(T, c))
         /\ (Legacy!Applied(T, c) = LegacyProofs!Applied(T, c))
  BY Zenon DEF
     Legacy!Candidates, LegacyProofs!Candidates, Legacy!Succeeds, LegacyProofs!Succeeds,
     Legacy!Applied, LegacyProofs!Applied, Legacy!IsCompatible, LegacyProofs!IsCompatible,
     Legacy!HasPlace, LegacyProofs!HasPlace, Legacy!UserOf, LegacyProofs!UserOf,
     Legacy!FreeUser, LegacyProofs!FreeUser, Legacy!Min, LegacyProofs!Min, Legacy!Absent,
     LegacyProofs!Absent, Legacy!Identity, LegacyProofs!Identity, Legacy!The,
     LegacyProofs!The, Legacy!AdminsOf, LegacyProofs!AdminsOf, Legacy!BarbersOf,
     LegacyProofs!BarbersOf, Legacy!Hashes, LegacyProofs!Hashes, Legacy!LinkedUsers,
     LegacyProofs!LinkedUsers, Legacy!Cardinality, LegacyProofs!Cardinality

LEMMA SameOutcome ==
  ASSUME NEW T, NEW c
  PROVE  Legacy!Outcome(T, c) = LegacyProofs!Outcome(T, c)
  BY SameSafety, SameUser, Zenon DEF
     Legacy!Outcome, LegacyProofs!Outcome

LEMMA SameRuns ==
  /\ (Legacy!StartBackfill <=> LegacyProofs!StartBackfill)
  /\ (Legacy!BeginCase <=> LegacyProofs!BeginCase)
  /\ (Legacy!FailCase <=> LegacyProofs!FailCase)
  /\ (Legacy!EndBackfill <=> LegacyProofs!EndBackfill)
  BY SameCases, Zenon DEF
     Legacy!StartBackfill, LegacyProofs!StartBackfill, Legacy!BeginCase,
     LegacyProofs!BeginCase, Legacy!FailCase, LegacyProofs!FailCase, Legacy!EndBackfill,
     LegacyProofs!EndBackfill, Legacy!EndCase, LegacyProofs!EndCase, Legacy!Stay,
     LegacyProofs!Stay, Legacy!NoRun, LegacyProofs!NoRun

LEMMA SameCommit ==
  Legacy!CommitCase <=> LegacyProofs!CommitCase
<1> DEFINE T == backfill.seen
           c == backfill.case
<1>1. /\ Legacy!Candidates(T, c) = LegacyProofs!Candidates(T, c)
      /\ Legacy!Applied(T, c) = LegacyProofs!Applied(T, c)
  BY SameUser, Zenon
<1>2. Legacy!Outcome(T, c) = LegacyProofs!Outcome(T, c)
  BY SameOutcome, Zenon
<1>3. Legacy!IsSafe(T, c) <=> LegacyProofs!IsSafe(T, c)
  BY SameSafety, Zenon
<1>4. Legacy!Cases(T) = LegacyProofs!Cases(T)
  BY SameCases, Zenon
<1> QED
  BY <1>1, <1>2, <1>3, <1>4 DEF
     Legacy!CommitCase, LegacyProofs!CommitCase, Legacy!EndCase, LegacyProofs!EndCase,
     Legacy!Stay, LegacyProofs!Stay, Legacy!Serializable, LegacyProofs!Serializable,
     Legacy!ToLink, LegacyProofs!ToLink, Legacy!AdminsOf, LegacyProofs!AdminsOf,
     Legacy!BarbersOf, LegacyProofs!BarbersOf

LEMMA SameExpire ==
  ASSUME NEW i
  PROVE  Legacy!Expire(i) <=> LegacyProofs!Expire(i)
  BY Zenon DEF
     Legacy!Expire, LegacyProofs!Expire

LEMMA SameNext ==
  Legacy!Next <=> LegacyProofs!Next
<1>1. \A s : /\ (Legacy!Start(s) <=> LegacyProofs!Start(s))
             /\ (Legacy!Statement(s) <=> LegacyProofs!Statement(s))
             /\ (Legacy!Abort(s) <=> LegacyProofs!Abort(s))
  <2> SUFFICES ASSUME NEW s
               PROVE  /\ (Legacy!Start(s) <=> LegacyProofs!Start(s))
                      /\ (Legacy!Statement(s) <=> LegacyProofs!Statement(s))
                      /\ (Legacy!Abort(s) <=> LegacyProofs!Abort(s))
    OBVIOUS
  <2>1. Legacy!Start(s) <=> LegacyProofs!Start(s)
    BY SameStarts, Zenon DEF Legacy!Start, LegacyProofs!Start
  <2>2. Legacy!Statement(s) <=> LegacyProofs!Statement(s)
    BY SameWaits, SameWrites, Zenon DEF Legacy!Statement, LegacyProofs!Statement
  <2>3. Legacy!Abort(s) <=> LegacyProofs!Abort(s)
    BY SameWaits, Zenon
  <2> QED
    BY <2>1, <2>2, <2>3, Zenon
<1>2. Legacy!Backfill <=> LegacyProofs!Backfill
  BY SameRuns, SameCommit, Zenon DEF Legacy!Backfill, LegacyProofs!Backfill
<1>3. \A i : Legacy!Expire(i) <=> LegacyProofs!Expire(i)
  BY SameExpire, Zenon
<1> QED
  BY <1>1, <1>2, <1>3, Zenon DEF Legacy!Next, LegacyProofs!Next

LEMMA SameLogins ==
  Legacy!ReadyKeepsLogins <=> LegacyProofs!ReadyKeepsLogins
<1>1. Legacy!NoUnresolvedCase(db) <=> LegacyProofs!NoUnresolvedCase(db)
  BY SameCases, SameSafety, Zenon DEF Legacy!NoUnresolvedCase, LegacyProofs!NoUnresolvedCase
<1>2. Legacy!LoginsAreLinked(db) <=> LegacyProofs!LoginsAreLinked(db)
  BY Zenon DEF Legacy!LoginsAreLinked, LegacyProofs!LoginsAreLinked,
     Legacy!Exists, LegacyProofs!Exists
<1>3. Legacy!LinksMatch(db) <=> LegacyProofs!LinksMatch(db)
  BY Zenon DEF Legacy!LinksMatch, LegacyProofs!LinksMatch, Legacy!Keys, LegacyProofs!Keys,
     Legacy!IdentifiersOf, LegacyProofs!IdentifiersOf
<1>4. Legacy!UsersAreCoherent(db) <=> LegacyProofs!UsersAreCoherent(db)
  BY Zenon DEF Legacy!UsersAreCoherent, LegacyProofs!UsersAreCoherent,
     Legacy!ActiveUsers, LegacyProofs!ActiveUsers
<1>5. Legacy!Ready(db) <=> LegacyProofs!Ready(db)
  BY <1>1, <1>2, <1>3, <1>4, Zenon DEF Legacy!Ready, LegacyProofs!Ready
<1> QED
  BY <1>5, Zenon DEF Legacy!ReadyKeepsLogins, LegacyProofs!ReadyKeepsLogins,
     Legacy!Quiet, LegacyProofs!Quiet, Legacy!At, LegacyProofs!At,
     Legacy!Exists, LegacyProofs!Exists, Legacy!SameLogin, LegacyProofs!SameLogin,
     Legacy!Keys, LegacyProofs!Keys

\* The installation is the accounts of the canonical mode and those of the legacy one: only
\* those of the mode it was started in take steps (auth-runtime.ts).
THEOREM RuntimeIsEitherMode == Runtime => Spec /\ LegacyProofs!Spec
<1>1. RuntimeInit => Init /\ LegacyProofs!Init
  BY SameTables, Zenon DEF RuntimeInit
<1>2. [RuntimeNext]_<<vars, legacyVars, mode>> => [Next]_vars
  BY DEF RuntimeNext
<1>3. [RuntimeNext]_<<vars, legacyVars, mode>> => [LegacyProofs!Next]_(LegacyProofs!vars)
  <2>1. legacyVars' = legacyVars => LegacyProofs!vars' = LegacyProofs!vars
    BY DEF legacyVars, LegacyProofs!vars
  <2> QED
    BY <2>1, SameNext DEF RuntimeNext
<1> QED
  BY <1>1, <1>2, <1>3, PTL DEF Runtime, Spec, LegacyProofs!Spec

LEMMA LegacyTables == LegacyProofs!CutoverAssumption
  BY LegacyAssumption, SameTables, Zenon

\* See AuthCutover_proofs!StaleEditsAlone: what was given an email before it was changed
\* opens nothing after (storage.ts:908), but for a stale edit.
THEOREM RuntimeStaleEditsAlone == Runtime => []OnlyAStaleEditKeepsAccess
<1>1. LegacyProofs!Spec => []LegacyProofs!OnlyAStaleEditKeepsAccess
  BY LegacyTables, LegacyProofs!StaleEditsAlone
<1>2. LegacyProofs!OnlyAStaleEditKeepsAccess => OnlyAStaleEditKeepsAccess
  BY Zenon DEF OnlyAStaleEditKeepsAccess, Legacy!OnlyAStaleEditKeepsAccess,
     LegacyProofs!OnlyAStaleEditKeepsAccess
<1> QED
  BY <1>1, <1>2, RuntimeIsEitherMode, PTL

\* See AuthCutover_proofs!ReadyMeansReady: READY means that every login survives the change
\* of mode (auth-cutover-check.ts).
THEOREM RuntimeReadyMeansReady == Runtime => []ReadyKeepsLogins
<1>1. LegacyProofs!Spec => []LegacyProofs!ReadyKeepsLogins
  BY LegacyTables, LegacyProofs!ReadyMeansReady
<1>2. LegacyProofs!ReadyKeepsLogins => ReadyKeepsLogins
  BY SameLogins, Zenon DEF ReadyKeepsLogins
<1> QED
  BY <1>1, <1>2, RuntimeIsEitherMode, PTL

\* The two readings of the fold are of one step.
LEMMA SameApply ==
  ASSUME NEW T, NEW S
  PROVE  Legacy!AfterAll(T, S) = LegacyProofs!AfterAll(T, S)
<1>1. \A X, c : Legacy!After(X, c) = LegacyProofs!After(X, c)
  BY SameOutcome, SameUser, Zenon DEF Legacy!After, LegacyProofs!After
<1> QED
  BY <1>1 DEF Legacy!AfterAll, LegacyProofs!AfterAll, Legacy!FoldSet, LegacyProofs!FoldSet,
     Legacy!MapThenFoldSet, LegacyProofs!MapThenFoldSet

\* See AuthCutover_proofs!TheDryRunIsRight: the dry run of the backfill says what --apply
\* does (auth-legacy-backfill.ts), as long as there are ids for the new users.
THEOREM RuntimeDryRunIsRight ==
  Runtime => [](LegacyProofs!EnoughIds(db) => ApplyDoesWhatTheDryRunSaid)
<1>1. LegacyProofs!Spec =>
        [](LegacyProofs!EnoughIds(db) => LegacyProofs!ApplyDoesWhatTheDryRunSaid)
  BY LegacyTables, LegacyProofs!TheDryRunIsRight
<1>2. LegacyProofs!ApplyDoesWhatTheDryRunSaid => ApplyDoesWhatTheDryRunSaid
  <2>1. Legacy!Quiet <=> LegacyProofs!Quiet
    BY Zenon DEF Legacy!Quiet, LegacyProofs!Quiet, Legacy!At, LegacyProofs!At
  <2>2. \A T : Legacy!SafeCases(T) = LegacyProofs!SafeCases(T)
    BY SameCases, Zenon
  <2> QED
    BY <2>1, <2>2, SameApply, SameOutcome, Zenon DEF ApplyDoesWhatTheDryRunSaid,
       Legacy!ApplyDoesWhatTheDryRunSaid, LegacyProofs!ApplyDoesWhatTheDryRunSaid
<1> QED
  BY <1>1, <1>2, RuntimeIsEitherMode, PTL

\* See AuthCutover_proofs!TheBackfillLinksWhatIs: the backfill links a barber to a user with
\* the password and the email that the barber has (auth-legacy-backfill.ts).
THEOREM RuntimeLinksWhatIs == Runtime => LinkedAsTheyAre
<1> DEFINE L == \A b \in LegacyBarbers :
                  db.barbers[b].user = None /\ db'.barbers[b].user # None =>
                    LET row == db'.barbers[b] IN
                    /\ db'.users[row.user].pw = row.pw
                    /\ row.email \in Legacy!Keys(db', row.user)
           P == \A b \in LegacyBarbers :
                  db.barbers[b].user = None /\ db'.barbers[b].user # None =>
                    LET row == db'.barbers[b] IN
                    /\ db'.users[row.user].pw = row.pw
                    /\ row.email \in LegacyProofs!Keys(db', row.user)
<1>1. LegacyProofs!Spec => LegacyProofs!LinkedAsTheyAre
  BY LegacyTables, LegacyProofs!TheBackfillLinksWhatIs
<1>2. [P]_(LegacyProofs!vars) => [L]_(Legacy!vars)
  <2>1. P => L
    BY Zenon DEF Legacy!Keys, LegacyProofs!Keys
  <2> HIDE DEF L, P
  <2> QED
    BY <2>1 DEF Legacy!vars, LegacyProofs!vars
<1>3. LegacyProofs!LinkedAsTheyAre => Legacy!LinkedAsTheyAre
  BY <1>2, PTL DEF Legacy!LinkedAsTheyAre, LegacyProofs!LinkedAsTheyAre
<1> QED
  BY <1>1, <1>3, RuntimeIsEitherMode, PTL DEF LinkedAsTheyAre
=============================================================================
