---------------------------- MODULE AuthCutover ----------------------------
(***************************************************************************)
(* The accounts of AUTH_RUNTIME_MODE legacy, and the tools that move them  *)
(* to the users of the canonical mode: invites, emails and passwords of    *)
(* barbers (server/storage.ts, server/routes.ts), the classification of    *)
(* the records (server/auth-legacy-preflight.ts), the backfill             *)
(* (server/auth-legacy-backfill.ts) and the readiness check                *)
(* (server/auth-cutover-check.ts).                                         *)
(*                                                                         *)
(* The check and the dry run only read: they are operators on the tables,  *)
(* evaluated in every state.  Identifiers are the normalized ones.         *)
(***************************************************************************)
EXTENDS Integers, FiniteSets, FiniteSetsExt

CONSTANTS
    Admins, Barbers, Users, Invites,   \* row ids, the free ones included
    Locations,
    Emails, Names,     \* identifiers with and without the shape of an email
    None,
    Clients,           \* each has one request under way at most
    Ops,               \* requests that arrive
    WholeRecords,      \* a client sends the email back with an edit of another field
    Installations,     \* tables the run starts from
    MaxRequests,       \* bound: requests in all
    MaxBackfills       \* bound: runs of the backfill with --apply

Identifiers == Emails \cup Names

VARIABLES
    db,        \* tables admins, barbers and users
    invites,   \* table barber_invites
    req,       \* what each request under way holds in memory
    backfill,  \* the run of auth:backfill --apply
    begun, runs,
    reverted   \* history: barbers whose email an edit decided on an older row put back

vars == <<db, invites, req, backfill, begun, runs, reverted>>

-----------------------------------------------------------------------------
(***************************************************************************)
(* Rows.  Of two password hashes the greater was set later; 0 is NULL.     *)
(***************************************************************************)
Admin == [username: Identifiers \cup {None}, email: Identifiers \cup {None}, pw: Nat,
          user: Users \cup {None}]
\* under: history, the email of the barber when the password's invite was issued.
Barber == [email: Identifiers \cup {None}, pw: Nat, user: Users \cup {None}, visible: BOOLEAN,
           places: SUBSET Locations, under: Identifiers \cup {None}]
\* administrator: the global scope; places: the locations of a professional scope.
User == [username: Identifiers \cup {None}, email: Identifiers \cup {None}, pw: Nat,
         status: {"none", "active", "disabled"}, administrator: BOOLEAN, places: SUBSET Locations]
Absent == [username |-> None, email |-> None, pw |-> 0, status |-> "none",
           administrator |-> FALSE, places |-> {}]
NoAdmin == [username |-> None, email |-> None, pw |-> 0, user |-> None]
\* email: history, what the barber's email was when the invite was stored.
Invite == [barber: Barbers \cup {None}, state: {"none", "open", "expired", "used"},
           email: Identifiers \cup {None}]

Tables == [admins: [Admins -> Admin], barbers: [Barbers -> Barber], users: [Users -> User]]

Exists(T, a) == T.admins[a].username # None

\* Tables before the first backfill: there are no users, and the history is what it was.
Installed(start) ==
    /\ start \in [db: Tables, invites: [Invites -> Invite]]
    /\ \A u \in Users : start.db.users[u] = Absent
    /\ \A a \in Admins : start.db.admins[a].user = None
    /\ \A b \in Barbers : LET row == start.db.barbers[b] IN
         row.user = None /\ (row.pw # 0 => row.under = row.email)
    /\ \A i \in Invites : LET invite == start.invites[i] IN
         /\ invite.state # "none" => invite.barber \in Barbers
         /\ invite.state = "open" => invite.email = start.db.barbers[invite.barber].email

CutoverAssumption ==
    /\ Users \subseteq Nat /\ Invites \subseteq Nat
    /\ IsFiniteSet(Admins) /\ IsFiniteSet(Barbers) /\ IsFiniteSet(Users)
    /\ Emails \cap Names = {} /\ None \notin Identifiers \cup Users \cup Barbers \cup Invites
    /\ WholeRecords \in BOOLEAN
    /\ MaxRequests \in Nat /\ MaxBackfills \in Nat
    /\ \A start \in Installations : Installed(start)

Passwords(T) == {T.admins[a].pw : a \in Admins} \cup {T.barbers[b].pw : b \in Barbers}
                \cup {T.users[u].pw : u \in Users}
NewPassword(T) == Max(Passwords(T)) + 1
InUse(T, b, email) == email # None /\ \E other \in Barbers \ {b} : T.barbers[other].email = email

-----------------------------------------------------------------------------
(***************************************************************************)
(* Classification of the legacy records.  A case is a set of records that  *)
(* are linked by identifiers.                                              *)
(***************************************************************************)
Usable(identifier) == identifier \in Emails

Records(T) == {<<"admin", a>> : a \in {a \in Admins : Exists(T, a)}} \cup ({"barber"} \X Barbers)
EmailsOf(T, r) ==
    {IF r[1] = "admin" THEN T.admins[r[2]].email ELSE T.barbers[r[2]].email} \ {None}
IdentifiersOf(T, r) ==
    (IF r[1] = "admin" THEN {T.admins[r[2]].username, T.admins[r[2]].email}
     ELSE {T.barbers[r[2]].email}) \ {None}
\* The records that r reaches: every set that holds r and whatever shares an identifier
\* with a member holds them.
Component(T, r) ==
    LET near == [other \in Records(T) |->
                   {x \in Records(T) : IdentifiersOf(T, x) \cap IdentifiersOf(T, other) # {}}]
        closed == {S \in SUBSET Records(T) : \A other \in S : near[other] \subseteq S}
    IN  {other \in Records(T) : \A S \in closed : r \in S => other \in S}
Cases(T) == {Component(T, r) : r \in Records(T)}

AdminsOf(c) == {r[2] : r \in {r \in c : r[1] = "admin"}}
BarbersOf(c) == {r[2] : r \in {r \in c : r[1] = "barber"}}
LinkedUsers(T, c) == ({T.admins[a].user : a \in AdminsOf(c)}
                      \cup {T.barbers[b].user : b \in BarbersOf(c)}) \ {None}
Hashes(T, c) == ({T.admins[a].pw : a \in AdminsOf(c)}
                 \cup {T.barbers[b].pw : b \in BarbersOf(c)}) \ {0}

IsBlocker(T, c) ==
    \/ Cardinality(AdminsOf(c)) > 1 \/ Cardinality(BarbersOf(c)) > 1
    \/ Cardinality(LinkedUsers(T, c)) > 1
    \/ \E a \in AdminsOf(c) : T.admins[a].pw = 0
    \/ \E b \in BarbersOf(c) : T.barbers[b].pw # 0 /\ ~Usable(T.barbers[b].email)

Mixed(c) == AdminsOf(c) # {} /\ BarbersOf(c) # {}
NeedsReview(T, c) ==
    \/ \E a \in AdminsOf(c) : LET row == T.admins[a] IN
         IF row.email = None THEN ~Usable(row.username) ELSE ~Usable(row.email)
    \/ \E b \in BarbersOf(c) : LET row == T.barbers[b] IN
         row.email # None /\ (~Usable(row.email) \/ row.pw = 0)
    \/ Mixed(c) /\ Cardinality((UNION {IdentifiersOf(T, r) : r \in c}) \cap Emails) > 1
    \/ Mixed(c) /\ Cardinality(Hashes(T, c)) > 1

IsSafe(T, c) == ~IsBlocker(T, c) /\ ~NeedsReview(T, c)
SafeCases(T) == {c \in Cases(T) : IsSafe(T, c)}

-----------------------------------------------------------------------------
(***************************************************************************)
(* The user of a safe case.                                                *)
(***************************************************************************)
The(S) == CHOOSE x \in S : TRUE

\* resolveCanonicalIdentity; in a safe case all the passwords are one.
Identity(T, c) ==
    LET administrators == {T.admins[a] : a \in AdminsOf(c)}
        professionals == {T.barbers[b] : b \in BarbersOf(c)}
        own == {row.email : row \in administrators} \cap Emails
        shared == {row.email : row \in professionals} \cap Emails
    IN  [pw |-> The(Hashes(T, c)),
         username |-> IF administrators = {} THEN None ELSE The(administrators).username,
         email |-> IF own # {} THEN The(own) ELSE IF shared # {} THEN The(shared)
                   ELSE The(administrators).username]

HasLogin(T, c) == Hashes(T, c) # {}

Candidates(T, c) ==
    LET keys == {Identity(T, c).email, Identity(T, c).username} \ {None}
    IN  {u \in Users : /\ T.users[u].status # "none"
                       /\ \/ u \in LinkedUsers(T, c)
                          \/ {T.users[u].email, T.users[u].username} \cap keys # {}}

\* findCompatibleCanonicalUser, the errors it throws.
IsCompatible(T, c, u) ==
    /\ LinkedUsers(T, c) \subseteq {u}
    /\ T.users[u].email = Identity(T, c).email /\ T.users[u].username = Identity(T, c).username
    /\ T.users[u].pw = Identity(T, c).pw
    /\ T.users[u].status = "active"

HasPlace(T, c) == AdminsOf(c) # {} \/ \A b \in BarbersOf(c) : T.barbers[b].places # {}

Succeeds(T, c) ==
    /\ Cardinality(Candidates(T, c)) <= 1
    /\ \A u \in Candidates(T, c) : IsCompatible(T, c, u)
    /\ HasPlace(T, c)

FreeUser(T) == Min({u \in Users : T.users[u].status = "none"})
UserOf(T, c) == IF Candidates(T, c) = {} THEN FreeUser(T) ELSE The(Candidates(T, c))

\* processSafeIdentity with --apply, when it commits.
Applied(T, c) ==
    LET u == UserOf(T, c)
        row == IF Candidates(T, c) = {}
               THEN [Absent EXCEPT !.username = Identity(T, c).username, !.pw = Identity(T, c).pw,
                                   !.email = Identity(T, c).email, !.status = "active"]
               ELSE T.users[u]
    IN  [admins |-> [a \in Admins |-> IF a \in AdminsOf(c) THEN [T.admins[a] EXCEPT !.user = u]
                                      ELSE T.admins[a]],
         barbers |-> [b \in Barbers |-> IF b \in BarbersOf(c) THEN [T.barbers[b] EXCEPT !.user = u]
                                        ELSE T.barbers[b]],
         users |-> [T.users EXCEPT ![u] =
             IF AdminsOf(c) # {} THEN [row EXCEPT !.administrator = TRUE]
             ELSE [row EXCEPT !.places = @ \cup UNION {T.barbers[b].places : b \in BarbersOf(c)}]]]

\* The status of a case in the report; a dry run says "planned" where an apply says "applied".
Outcome(T, c) == CASE ~HasLogin(T, c) -> "skipped"
                   [] HasLogin(T, c) /\ ~Succeeds(T, c) -> "failed"
                   [] OTHER -> IF Applied(T, c) = T THEN "unchanged" ELSE "applied"

After(T, c) == IF Outcome(T, c) = "applied" THEN Applied(T, c) ELSE T
AfterAll(T, cases) == FoldSet(LAMBDA c, acc : After(acc, c), T, cases)

-----------------------------------------------------------------------------
(***************************************************************************)
(* auth:cutover-check: no issue is a BLOCKER.                              *)
(***************************************************************************)
Keys(T, u) == {T.users[u].email, T.users[u].username} \ {None}
ActiveUsers(T) == {u \in Users : T.users[u].status = "active"}

NoUnresolvedCase(T) == \A c \in Cases(T) : IsSafe(T, c)

AdministratorsAreLinked(T) ==
    \A a \in Admins : Exists(T, a) => T.admins[a].user # None
LoginsAreLinked(T) ==
    /\ \A a \in Admins : Exists(T, a) => T.admins[a].user # None
    /\ \A b \in Barbers : LET row == T.barbers[b] IN
         row.email # None /\ row.pw # 0 => row.user # None

\* The query counts a mismatch only where its comparison is true: for an administrator it
\* is unknown if the user has no username, and then it is not counted.
LinksMatch(T) ==
    /\ \A a \in Admins : LET u == T.admins[a].user IN
         u # None => \/ T.users[u].username = None
                     \/ Keys(T, u) \cap IdentifiersOf(T, <<"admin", a>>) # {}
    /\ \A b \in Barbers : LET row == T.barbers[b] IN
         row.user # None /\ row.email # None => row.email \in Keys(T, row.user)

UsersAreCoherent(T) ==
    /\ \A u \in ActiveUsers(T) : T.users[u].administrator \/ T.users[u].places # {}
    /\ \E u \in ActiveUsers(T) : T.users[u].administrator
    /\ \A u, v \in Users : u # v => T.users[u].email = None \/ T.users[u].email # T.users[v].username
    /\ \A b, c \in Barbers : T.barbers[b].user # None /\ b # c => T.barbers[b].user # T.barbers[c].user
    /\ \A u \in Users : T.users[u].places # {} => \E b \in Barbers : T.barbers[b].user = u

Ready(T) == NoUnresolvedCase(T) /\ LoginsAreLinked(T) /\ LinksMatch(T) /\ UsersAreCoherent(T)

-----------------------------------------------------------------------------
(***************************************************************************)
(* Requests of the legacy mode.                                            *)
(***************************************************************************)
Idle == [op |-> "none", at |-> "idle", barber |-> None, invite |-> None, email |-> None, held |-> {}]

At(s, step) == req[s].at = step
GoTo(s, step) == req' = [req EXCEPT ![s].at = step]
End(s) == req' = [req EXCEPT ![s] = Idle]
Begin(s, request) ==
    /\ At(s, "idle") /\ begun < MaxRequests /\ request.op \in Ops
    /\ req' = [req EXCEPT ![s] = request]
    /\ begun' = begun + 1
    /\ UNCHANGED <<db, invites, backfill, runs, reverted>>

OpenOf(b) == {i \in Invites : invites[i].barber = b /\ invites[i].state \in {"open", "expired"}}

\* The unique index on barbers.email: a row that gives an email up, or takes it, holds its key.
EmailKeys(s) == IF req[s].op = "reset" THEN {}
                ELSE {"email"} \X ({req[s].email, db.barbers[req[s].barber].email} \ {None})

\* The locks the next statement of a request waits for.
Wanted(s) ==
    LET r == req[s] IN
    CASE r.at = "advisory" -> {<<"advisory", r.barber>>}
      [] r.at \in {"row", "update"} -> {<<"barber", r.barber>>} \cup EmailKeys(s)
      [] r.at = "password" -> {<<"barber", r.barber>>}
      [] r.at = "claim" -> {<<"invite", r.invite>>}
      [] r.at \in {"replace", "revoke"} -> {"invite"} \X OpenOf(r.barber)
      [] OTHER -> {}
Blockers(s) == {other \in Clients \ {s} : req[other].held \cap Wanted(s) # {}}
Granted(s) == Blockers(s) = {}
Take(s, step) ==
    /\ Granted(s)
    /\ req' = [req EXCEPT ![s].held = @ \cup Wanted(s), ![s].at = step]
    /\ UNCHANGED <<db, invites, backfill, begun, runs, reverted>>

\* The handlers up to their transaction.
StartInvite(s, b) ==
    /\ db.barbers[b].visible /\ db.barbers[b].email # None
    /\ Begin(s, [Idle EXCEPT !.op = "invite", !.at = "advisory", !.barber = b])

StartAccept(s, i) ==
    /\ invites[i].state = "open" /\ db.barbers[invites[i].barber].visible
    /\ Begin(s, [Idle EXCEPT !.op = "accept", !.at = "claim", !.invite = i,
                             !.barber = invites[i].barber])

\* PATCH /api/barbers/:id: whether the email changes is decided on the row read here.
StartEdit(s, b) ==
    \E email \in Emails \cup {None} :
        /\ ~InUse(db, b, email)
        /\ \/ /\ email # db.barbers[b].email
              /\ Begin(s, [Idle EXCEPT !.op = "change", !.at = "advisory", !.barber = b, !.email = email])
           \/ /\ WholeRecords /\ email = db.barbers[b].email
              /\ Begin(s, [Idle EXCEPT !.op = "edit", !.at = "update", !.barber = b, !.email = email])

StartReset(s, b) == Begin(s, [Idle EXCEPT !.op = "reset", !.at = "update", !.barber = b])

\* Transactions under the advisory lock of the barber.
LockAdvisory(s) ==
    At(s, "advisory") /\ Take(s, IF req[s].op = "invite" THEN "replace" ELSE "row")

Replaced(b) == invites
Used(b) == [i \in Invites |-> IF i \in OpenOf(b) THEN [invites[i] EXCEPT !.state = "used"] ELSE invites[i]]

\* createBarberInviteReplacingActive; a run without free ids stops here.
ReplaceInvite(s) ==
    /\ At(s, "replace") /\ Granted(s)
    /\ \E i \in Invites :
        /\ invites[i].state = "none" /\ \A j \in Invites : invites[j].state = "none" => i <= j
        /\ invites' = [Used(req[s].barber) EXCEPT ![i] =
             [barber |-> req[s].barber, state |-> "open", email |-> db.barbers[req[s].barber].email]]
    /\ End(s)
    /\ UNCHANGED <<db, backfill, begun, runs, reverted>>

\* updateBarberAndRevokeAccess: the row, then the invites, then the COMMIT of both.
LockRow(s) ==
    /\ At(s, "row")
    /\ IF InUse(db, req[s].barber, req[s].email)
       THEN End(s) /\ UNCHANGED <<db, invites, backfill, begun, runs, reverted>>
       ELSE Take(s, "revoke")
RevokeAccess(s) ==
    LET b == req[s].barber IN
    /\ At(s, "revoke") /\ Granted(s)
    /\ db' = [db EXCEPT !.barbers[b].email = req[s].email, !.barbers[b].pw = 0, !.barbers[b].under = None]
    /\ invites' = Used(b)
    /\ reverted' = reverted \ {b}
    /\ End(s)
    /\ UNCHANGED <<backfill, begun, runs>>

\* updateBarber: one statement; the email it writes was read by the client or the handler.
Update(s) ==
    LET r == req[s]  row == db.barbers[r.barber] IN
    /\ At(s, "update") /\ Granted(s)
    /\ IF r.op = "reset"
       THEN /\ db' = [db EXCEPT !.barbers[r.barber].pw = 0, !.barbers[r.barber].under = None]
            /\ UNCHANGED reverted
       ELSE IF InUse(db, r.barber, r.email) THEN UNCHANGED <<db, reverted>>
       ELSE /\ db' = [db EXCEPT !.barbers[r.barber].email = r.email]
            /\ reverted' = IF row.email = r.email THEN reverted ELSE reverted \cup {r.barber}
    /\ End(s)
    /\ UNCHANGED <<invites, backfill, begun, runs>>

\* acceptBarberInvite: the invite is claimed, then the password is set.
ClaimInvite(s) ==
    /\ At(s, "claim")
    /\ IF invites[req[s].invite].state = "open" THEN Take(s, "password")
       ELSE /\ Granted(s) /\ End(s)
            /\ UNCHANGED <<db, invites, backfill, begun, runs, reverted>>
SetPassword(s) ==
    LET r == req[s] IN
    /\ At(s, "password") /\ Granted(s)
    /\ db' = [db EXCEPT !.barbers[r.barber].pw = NewPassword(db),
                        !.barbers[r.barber].under = invites[r.invite].email]
    /\ invites' = [invites EXCEPT ![r.invite].state = "used"]
    /\ End(s)
    /\ UNCHANGED <<backfill, begun, runs, reverted>>

\* POST /api/admin/create: usernames and emails of administrators are unique.
CreateAdmin(s, a) ==
    /\ "create_admin" \in Ops /\ At(s, "idle") /\ begun < MaxRequests /\ ~Exists(db, a)
    /\ \E username \in Identifiers, email \in Emails \cup {None} :
        /\ \A other \in Admins : db.admins[other].username # username
                                 /\ (email # None => db.admins[other].email # email)
        /\ db' = [db EXCEPT !.admins[a] = [username |-> username, email |-> email,
                                           pw |-> NewPassword(db), user |-> None]]
    /\ begun' = begun + 1
    /\ UNCHANGED <<invites, req, backfill, runs, reverted>>

Expire(i) ==
    /\ invites[i].state = "open" /\ \A s \in Clients : <<"invite", i>> \notin req[s].held
    /\ invites' = [invites EXCEPT ![i].state = "expired"]
    /\ UNCHANGED <<db, req, backfill, begun, runs, reverted>>

Deadlocked(s) == \E S \in SUBSET Clients : s \in S /\ \A d \in S : Blockers(d) \cap S # {}
\* PostgreSQL's detector, a lost connection or the end of the process: nothing is committed.
Abort(s) ==
    /\ ~At(s, "idle") /\ (Deadlocked(s) \/ req[s].held # {})
    /\ End(s)
    /\ UNCHANGED <<db, invites, backfill, begun, runs, reverted>>

-----------------------------------------------------------------------------
(***************************************************************************)
(* auth:backfill --apply.  One session advisory lock, one transaction for  *)
(* each safe case.                                                         *)
(***************************************************************************)
NoRun == [at |-> "idle", cases |-> {}, case |-> {}, seen |-> None]
Stay == UNCHANGED <<invites, req, begun, reverted>>

StartBackfill ==
    /\ backfill.at = "idle" /\ runs < MaxBackfills
    /\ backfill' = [NoRun EXCEPT !.at = "next", !.cases = SafeCases(db)]
    /\ runs' = runs + 1
    /\ UNCHANGED db /\ Stay

\* The transaction's snapshot, taken by its first statement.
BeginCase ==
    /\ backfill.at = "next"
    /\ \E c \in backfill.cases :
         backfill' = [backfill EXCEPT !.at = "case", !.case = c, !.cases = @ \ {c}, !.seen = db]
    /\ UNCHANGED <<db, runs>> /\ Stay

EndCase == backfill' = [backfill EXCEPT !.at = "next", !.case = {}, !.seen = None]

\* The barbers whose row the transaction updates.
ToLink(T, c) == {b \in BarbersOf(c) : T.barbers[b].user = None}
\* A row that was changed since the snapshot cannot be updated: SERIALIZABLE.
ReadCommitted(T, c) == T.barbers \in [Barbers -> Barber]
Serializable(T, c) == \A b \in ToLink(T, c) : db.barbers[b] = T.barbers[b]

\* A run without free ids stops here.
CommitCase ==
    LET c == backfill.case  seen == backfill.seen IN
    /\ backfill.at = "case"
    /\ IF c \in Cases(seen) /\ IsSafe(seen, c) /\ Outcome(seen, c) = "applied" /\ Serializable(seen, c)
       THEN /\ \A b \in ToLink(seen, c), s \in Clients : <<"barber", b>> \notin req[s].held
            /\ Candidates(seen, c) = {} => \E u \in Users : seen.users[u].status = "none"
            /\ LET new == Applied(seen, c) IN
               db' = [users |-> new.users,
                      admins |-> [a \in Admins |-> IF a \in AdminsOf(c)
                                    THEN [db.admins[a] EXCEPT !.user = new.admins[a].user] ELSE db.admins[a]],
                      barbers |-> [b \in Barbers |-> IF b \in BarbersOf(c)
                                    THEN [db.barbers[b] EXCEPT !.user = new.barbers[b].user] ELSE db.barbers[b]]]
       ELSE UNCHANGED db
    /\ EndCase
    /\ UNCHANGED runs /\ Stay

\* A case that fails is rolled back and the next one is tried.
FailCase == backfill.at = "case" /\ EndCase /\ UNCHANGED <<db, runs>> /\ Stay

\* The end of the loop, or of the process: the lock goes with the session.
EndBackfill == backfill.at # "idle" /\ backfill' = NoRun /\ UNCHANGED <<db, runs>> /\ Stay

-----------------------------------------------------------------------------
Init ==
    /\ \E start \in Installations : db = start.db /\ invites = start.invites
    /\ req = [s \in Clients |-> Idle]
    /\ backfill = NoRun
    /\ begun = 0 /\ runs = 0
    /\ reverted = {}

Start(s) == \/ \E b \in Barbers : StartInvite(s, b) \/ StartEdit(s, b) \/ StartReset(s, b)
            \/ \E i \in Invites : StartAccept(s, i)
            \/ \E a \in Admins : CreateAdmin(s, a)
Statement(s) == LockAdvisory(s) \/ ReplaceInvite(s) \/ LockRow(s) \/ RevokeAccess(s)
                \/ Update(s) \/ ClaimInvite(s) \/ SetPassword(s)
Backfill == StartBackfill \/ BeginCase \/ CommitCase \/ FailCase \/ EndBackfill
Next == \/ \E s \in Clients : Start(s) \/ Statement(s) \/ Abort(s)
        \/ \E i \in Invites : Expire(i)
        \/ Backfill

Spec == Init /\ [][Next]_vars

-----------------------------------------------------------------------------
\* "An email change and a concurrent invite can never leave an old invitation active"
\* (storage.ts:908): an invite that can be accepted was stored under the email the barber
\* has, and so was the invite of the password in force, whatever invites, changes, resets
\* and acceptances interleave.  The exception is an edit that writes back an email it
\* read before it was changed.
OnlyAStaleEditKeepsAccess ==
    \A b \in Barbers \ reverted : LET row == db.barbers[b] IN
        /\ \A i \in Invites : invites[i].barber = b /\ invites[i].state = "open"
                              => invites[i].email = row.email
        /\ row.pw # 0 => row.under = row.email

\* What the backfill links it links as it is: the user of a record has the password and
\* the identifier that the record has when it is linked, although both were read before.
LinkedAsTheyAre ==
    [][\A b \in Barbers : db.barbers[b].user = None /\ db'.barbers[b].user # None =>
         LET row == db'.barbers[b] IN
         /\ db'.users[row.user].pw = row.pw
         /\ row.email \in Keys(db', row.user)]_vars

\* The tables are read at rest: what is under way has changed none of them.
Quiet == backfill.at = "idle" /\ \A s \in Clients : At(s, "idle")

\* A dry run says what an apply does: no case is in the way of another, and a second
\* apply changes nothing.
ApplyDoesWhatTheDryRunSaid == Quiet =>
    LET cases == SafeCases(db) IN
    /\ \A c \in cases : Outcome(AfterAll(db, cases \ {c}), c) = Outcome(db, c)
    /\ LET applied == AfterAll(db, cases) IN
       \A c \in cases : Outcome(db, c) = "applied" =>
           c \in SafeCases(applied) /\ Outcome(applied, c) = "unchanged"

\* READY: whoever can log in can log in after the switch, with the same identifier, as
\* the user of its own record, with the rights of its role.  The password is the same,
\* unless a newer one was set after the backfill: the check compares no passwords.
SameLogin(identifier, row) ==
    LET u == row.user IN
    /\ u # None /\ {v \in Users : identifier \in Keys(db, v)} = {u}
    /\ db.users[u].status = "active" /\ db.users[u].pw \in 1..row.pw
ReadyKeepsLogins ==
    Quiet /\ Ready(db) =>
        /\ \A a \in Admins : Exists(db, a) =>
             /\ SameLogin(db.admins[a].username, db.admins[a])
             /\ db.users[db.admins[a].user].administrator
        /\ \A b \in Barbers : LET row == db.barbers[b] IN
             row.visible /\ row.email # None /\ row.pw # 0 =>
               /\ SameLogin(row.email, row)
               /\ db.users[row.user].administrator \/ db.users[row.user].places # {}
=============================================================================
