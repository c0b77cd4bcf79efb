----------------------------- MODULE MCAccounts -----------------------------
(* Small installations for UserAccess and AuthCutover.  What belongs to the  *)
(* other mode stays as it is: one value of it will do.                       *)
EXTENDS AuthRuntime, TLC

CONSTANTS u1, u2, u3, c1, c2, b1, l1, e1, e2, e3, n1

Administrator == [NoAccess EXCEPT !["global"].preset = "administrator"]
GlobalManager == [NoAccess EXCEPT !["global"].caps = {"users.manage", "access.manage"}]
LocalManager == [NoAccess EXCEPT ![l1].caps = {"access.manage"}]
Professional == [NoAccess EXCEPT ![l1].preset = "professional"]

MCGrants == {NoAccess, Administrator, Professional}
MCBarberEmail == b1 :> e3
MCOps == AllOps

Empty == [users |-> [u \in Users |-> Absent], links |-> [b \in Barbers |-> None],
          invites |-> [i \in Invites |-> [user |-> None, state |-> "none"]],
          legacy |-> [b \in Barbers |-> "none"], cookies |-> [c \in Browsers |-> Nobody]]
\* The second user is active, disabled or waits for its invite; the barber may be either user.
Shared(access, status, owner) ==
    LET row == [status |-> "active", version |-> 1, pw |-> 1, email |-> e1, access |-> Administrator]
        other == [row EXCEPT !.email = e2, !.access = access, !.status = status,
                             !.pw = IF status = "invited" THEN 0 ELSE 1]
        session(u) == [user |-> u, version |-> 1, pw |-> 1]
    IN  [Empty EXCEPT !.users = (u1 :> row) @@ (u2 :> other) @@ (u3 :> Absent),
                      !.links = b1 :> owner,
                      !.invites = IF status = "invited"
                                  THEN [@ EXCEPT ![1] = [user |-> u2, state |-> "open"]] ELSE @,
                      !.legacy = IF owner = None THEN b1 :> "none" ELSE b1 :> "open",
                      !.cookies = (c1 :> session(u1))
                                  @@ (c2 :> IF status = "active" THEN session(u2) ELSE Nobody)]
MCInstallations == {Empty}
    \cup {Shared(a, "active", owner) : a \in {Administrator, GlobalManager, LocalManager}, owner \in {u2, None}}
    \cup {Shared(Professional, s, owner) : s \in {"invited", "disabled"}, owner \in {u1, u2}}

-----------------------------------------------------------------------------
(* The legacy mode.                                                          *)
Owner == [username |-> n1, email |-> e1, pw |-> 1, user |-> None]
Free == [username |-> None, email |-> None, pw |-> 0, user |-> None]
NoUser == [username |-> None, email |-> None, pw |-> 0, status |-> "none",
           administrator |-> FALSE, places |-> {}]
Colleague(email, pw) == [email |-> email, pw |-> pw, user |-> None, visible |-> TRUE,
                         places |-> {l1}, under |-> IF pw = 0 THEN None ELSE email]
Nobody1 == Colleague(None, 0)
Legacy0(owner, first, second) ==
    [db |-> [admins |-> (1 :> owner) @@ (2 :> Free), barbers |-> (1 :> first) @@ (2 :> second),
             users |-> [u \in LegacyUsers |-> NoUser]],
     invites |-> [i \in LegacyInvites |-> [barber |-> None, state |-> "none", email |-> None]]]
Invited(start) == [start EXCEPT !.invites[1] = [barber |-> 1, state |-> "open", email |-> e2]]
\* An owner and a barber with logins of their own; one person with both; an owner without
\* an email; a hidden barber; one who was invited; two barbers, one without a location.
MCLegacyInstallations ==
    { Legacy0(Owner, Colleague(e2, 2), Nobody1),
      Legacy0(Owner, Colleague(e1, 1), Nobody1),
      Legacy0([Owner EXCEPT !.email = None], Nobody1, Nobody1),
      Legacy0([Owner EXCEPT !.username = e1, !.email = None], [Colleague(e2, 2) EXCEPT !.visible = FALSE], Nobody1),
      Invited(Legacy0(Owner, Colleague(e2, 0), Nobody1)),
      Legacy0([Owner EXCEPT !.email = e2], Colleague(e2, 3), [Colleague(e1, 2) EXCEPT !.places = {}]) }

AccountsInit ==
    /\ RuntimeInit
    /\ mode = "canonical" => db = Legacy0(Owner, Colleague(e2, 2), Nobody1).db
    /\ mode = "legacy" => users = Empty.users
Accounts == AccountsInit /\ [][RuntimeNext]_<<vars, legacyVars, mode>>
=============================================================================
