------------------------- MODULE AuthCutover_proofs -------------------------
(***************************************************************************)
(* The accounts of the legacy mode and the backfill that moves them, for   *)
(* any number of administrators, barbers, users, invites and clients: what *)
(* was given an email before it was changed opens nothing after; what the  *)
(* backfill links it links as it is; a READY readiness check means that    *)
(* every login survives the change of mode; and a dry run of the backfill  *)
(* says what an apply does.                                                *)
(***************************************************************************)
EXTENDS AuthCutover, FiniteSetTheorems, WellFoundedInduction, TLAPS

-----------------------------------------------------------------------------
(***************************************************************************)
(* Types.                                                                  *)
(***************************************************************************)
Row == ({"admin"} \X Admins) \cup ({"barber"} \X Barbers)
Lock == ({"advisory", "barber"} \X Barbers) \cup ({"invite"} \X Invites)
        \cup ({"email"} \X Identifiers)
Request == [op: {"none", "invite", "accept", "change", "edit", "reset"},
            at: {"idle", "advisory", "row", "revoke", "replace", "update", "claim", "password"},
            barber: Barbers \cup {None}, invite: Invites \cup {None},
            email: Identifiers \cup {None}, held: SUBSET Lock]
Run == [at: {"idle", "next", "case"}, cases: SUBSET SUBSET Row, case: SUBSET Row,
        seen: Tables \cup {None}]

TypeOK ==
    /\ db \in Tables /\ invites \in [Invites -> Invite]
    /\ backfill \in Run /\ (backfill.at = "case" => backfill.seen \in Tables)
    /\ reverted \subseteq Barbers

-----------------------------------------------------------------------------
(***************************************************************************)
(* What every request relies on.                                           *)
(***************************************************************************)
\* A request names the barber whose rows it locks, and an acceptance an invite of that
\* barber, open from the claim on because the claim has locked it.
Knows(q, table) ==
    /\ q.at # "idle" => q.barber \in Barbers
    /\ q.at \in {"claim", "password"} =>
         /\ q.invite \in Invites
         /\ table[q.invite].state # "none" /\ table[q.invite].barber = q.barber
    /\ q.at = "password" => <<"invite", q.invite>> \in q.held /\ table[q.invite].state = "open"

LocksExclude == \A s, t \in Clients : s # t => req[s].held \cap req[t].held = {}
Stored == \A i \in Invites : invites[i].state # "none" => invites[i].barber \in Barbers


-----------------------------------------------------------------------------
(***************************************************************************)
(* Sets and numbers.                                                       *)
(***************************************************************************)
\* A set of naturals has a least element: a statement about `Nat` alone.
LEMMA LeastNatural ==
  ASSUME NEW T, T \subseteq Nat, T # {}
  PROVE  \E x \in T : \A y \in T : x <= y
<1> DEFINE R == OpToRel(<, Nat)
<1>1. IsWellFoundedOn(R, Nat)
  BY NatLessThanWellFounded
<1>2. \A x, y \in Nat : y < x => <<y, x>> \in R
  BY DEF OpToRel
<1> HIDE DEF R
<1>3. PICK x \in T : \A y \in T : ~(<<y, x>> \in R)
  BY <1>1, WFMin
<1>4. ASSUME NEW y \in T PROVE x <= y
  <2>1. x \in Nat /\ y \in Nat
    OBVIOUS
  <2>2. ~(y < x)
    BY <1>2, <1>3, <2>1
  <2> QED
    BY <2>1, <2>2
<1> QED
  BY <1>4

\* A finite set of naturals has a greatest element: of its subsets that have none, one
\* with the fewest elements would have one more.
LEMMA GreatestNatural ==
  ASSUME NEW S, S \subseteq Nat, S # {}, IsFiniteSet(S)
  PROVE  \E x \in S : \A y \in S : x >= y
<1> DEFINE Unbounded(T) == T # {} /\ ~\E x \in T : \A y \in T : x >= y
           Sizes == {Cardinality(T) : T \in {T \in SUBSET S : Unbounded(T)}}
<1> SUFFICES ASSUME Unbounded(S) PROVE FALSE
  OBVIOUS
<1>1. \A T \in SUBSET S : IsFiniteSet(T) /\ Cardinality(T) \in Nat
  BY FS_Subset, FS_CardinalityType
<1>2. Sizes \subseteq Nat /\ Sizes # {}
  BY <1>1
<1>3. PICK n \in Sizes : \A m \in Sizes : n <= m
  BY <1>2, LeastNatural
<1>4. PICK T \in SUBSET S : Unbounded(T) /\ n = Cardinality(T)
  BY <1>3
<1>5. PICK x \in T : TRUE
  BY <1>4
<1>6. Cardinality(T \ {x}) = n - 1 /\ n \in Nat
  BY <1>1, <1>4, <1>5, FS_RemoveElement
<1>7. ~Unbounded(T \ {x})
  <2>1. T \ {x} \in SUBSET S
    OBVIOUS
  <2>2. ~(n <= n - 1)
    BY <1>6
  <2> QED
    BY <1>3, <1>6, <2>1, <2>2
<1>8. CASE T \ {x} = {}
  <2>1. T = {x}
    BY <1>5, <1>8
  <2>2. x \in Nat
    OBVIOUS
  <2> QED
    BY <1>4, <2>1, <2>2
<1>9. CASE T \ {x} # {}
  <2>1. PICK y \in T \ {x} : \A z \in T \ {x} : y >= z
    BY <1>7, <1>9
  <2>2. x \in Nat /\ y \in Nat /\ \A z \in T : z \in Nat
    OBVIOUS
  <2>3. CASE x >= y
    <3>1. \A z \in T : x >= z
      BY <2>1, <2>2, <2>3
    <3> QED
      BY <1>4, <3>1
  <2>4. CASE ~(x >= y)
    <3>1. \A z \in T : y >= z
      BY <2>1, <2>2, <2>4
    <3> QED
      BY <1>4, <2>1, <3>1
  <2> QED
    BY <2>3, <2>4
<1> QED
  BY <1>8, <1>9

\* What a finite table holds in a column is a finite set.
LEMMA FiniteColumn ==
  ASSUME NEW S, IsFiniteSet(S), NEW f, DOMAIN f = S
  PROVE  IsFiniteSet({f[x] : x \in S})
<1> DEFINE T == {f[x] : x \in S}
           g == [x \in S |-> f[x]]
<1>1. g \in Surjection(S, T)
  BY DEF Surjection
<1> QED
  BY <1>1, FS_Surjection

\* A finite set that does not have two elements has one at most.
LEMMA AtMostOne ==
  ASSUME NEW S, IsFiniteSet(S), ~(Cardinality(S) > 1), NEW x \in S, NEW y \in S
  PROVE  x = y
<1> SUFFICES ASSUME x # y PROVE FALSE
  OBVIOUS
<1>1. {x, y} \subseteq S /\ {x, y} = {x} \cup {y} /\ y \notin {x}
  OBVIOUS
<1>2. IsFiniteSet({x}) /\ Cardinality({x}) = 1
  BY FS_Singleton
<1>3. Cardinality({x, y}) = 2
  <2>1. Cardinality({x} \cup {y}) = Cardinality({x}) + 1
    BY <1>1, <1>2, FS_AddElement
  <2> QED
    BY <1>1, <1>2, <2>1
<1>4. Cardinality({x, y}) <= Cardinality(S) /\ Cardinality(S) \in Nat
  BY <1>1, FS_Subset, FS_CardinalityType
<1> QED
  BY <1>3, <1>4

\* A new password is later than every password there is.
LEMMA NewPasswordIsNew ==
  ASSUME CutoverAssumption, NEW T \in Tables, Admins \cup Barbers # {}
  PROVE  /\ NewPassword(T) \in Nat \ {0}
         /\ \A pw \in Passwords(T) : pw < NewPassword(T)
<1> DEFINE a == [x \in Admins |-> T.admins[x].pw]
           b == [x \in Barbers |-> T.barbers[x].pw]
           u == [x \in Users |-> T.users[x].pw]
           A == {a[x] : x \in Admins}
           B == {b[x] : x \in Barbers}
           U == {u[x] : x \in Users}
<1>1. Passwords(T) \subseteq Nat /\ Passwords(T) # {}
  <2>1. A \subseteq Nat
    BY DEF Tables, Admin
  <2>2. B \subseteq Nat
    BY DEF Tables, Barber
  <2>3. U \subseteq Nat
    BY DEF Tables, User
  <2>4. A \cup B # {}
    OBVIOUS
  <2>5. Passwords(T) = A \cup B \cup U
    BY DEF Passwords
  <2> HIDE DEF A, B, U
  <2> QED
    BY <2>1, <2>2, <2>3, <2>4, <2>5
<1>2. IsFiniteSet(Passwords(T))
  <2>1. DOMAIN a = Admins /\ DOMAIN b = Barbers /\ DOMAIN u = Users
    OBVIOUS
  <2>2. Passwords(T) = A \cup B \cup U
    BY DEF Passwords
  <2> HIDE DEF a, b, u
  <2>a. IsFiniteSet(Admins) /\ IsFiniteSet(Barbers) /\ IsFiniteSet(Users)
    BY DEF CutoverAssumption
  <2>b. IsFiniteSet(A)
    BY <2>1, <2>a, FiniteColumn
  <2>c. IsFiniteSet(B)
    BY <2>1, <2>a, FiniteColumn
  <2>3. IsFiniteSet(A) /\ IsFiniteSet(B) /\ IsFiniteSet(U)
    BY <2>1, <2>a, <2>b, <2>c, FiniteColumn
  <2> HIDE DEF A, B, U
  <2>4. IsFiniteSet(A \cup B)
    BY <2>3, FS_Union
  <2> QED
    BY <2>2, <2>3, <2>4, FS_Union
<1> HIDE DEF a, b, u
<1>3. \E x \in Passwords(T) : \A y \in Passwords(T) : x >= y
  BY <1>1, <1>2, GreatestNatural
<1>4. Max(Passwords(T)) \in Passwords(T) /\ \A y \in Passwords(T) : Max(Passwords(T)) >= y
  BY <1>3 DEF Max
<1> QED
  BY <1>1, <1>4 DEF NewPassword

-----------------------------------------------------------------------------
(***************************************************************************)
(* Safe cases.                                                             *)
(***************************************************************************)
LEMMA CaseRecords ==
  ASSUME NEW T, NEW c \in Cases(T)
  PROVE  /\ c \subseteq Records(T) /\ c \subseteq Row
         /\ AdminsOf(c) \subseteq {a \in Admins : Exists(T, a)}
         /\ BarbersOf(c) \subseteq Barbers
<1>1. c \subseteq Records(T)
  BY DEF Cases, Component
<1>2. \A r \in Records(T) : /\ r \in Row
                            /\ r[1] = "admin" => r[2] \in Admins /\ Exists(T, r[2])
                            /\ r[1] = "barber" => r[2] \in Barbers
  BY DEF Records, Row
<1> QED
  BY <1>1, <1>2 DEF AdminsOf, BarbersOf

LEMMA InCase ==
  ASSUME NEW T, NEW c \in Cases(T)
  PROVE  /\ \A a : a \in AdminsOf(c) <=> <<"admin", a>> \in c
         /\ \A b : b \in BarbersOf(c) <=> <<"barber", b>> \in c
<1>1. \A r \in c : r = <<r[1], r[2]>>
  BY CaseRecords DEF Row
<1>2. \A x, y : /\ <<x, y>>[1] = x /\ <<x, y>>[2] = y
  OBVIOUS
<1> QED
  BY <1>1, <1>2 DEF AdminsOf, BarbersOf

\* A safe case has one administrator and one barber at most, one user they are linked to
\* and one password.
LEMMA SafeCaseIsOfOne ==
  ASSUME CutoverAssumption, NEW T \in Tables, NEW c \in Cases(T), IsSafe(T, c)
  PROVE  /\ \A x, y \in AdminsOf(c) : x = y
         /\ \A x, y \in BarbersOf(c) : x = y
         /\ \A x, y \in Hashes(T, c) : x = y
<1>1. AdminsOf(c) \subseteq Admins /\ BarbersOf(c) \subseteq Barbers
  BY CaseRecords
<1>2. IsFiniteSet(AdminsOf(c)) /\ IsFiniteSet(BarbersOf(c))
  BY <1>1, FS_Subset DEF CutoverAssumption
<1>3. \A x, y \in AdminsOf(c) : x = y
  BY <1>2, AtMostOne DEF IsSafe, IsBlocker
<1>4. \A x, y \in BarbersOf(c) : x = y
  BY <1>2, AtMostOne DEF IsSafe, IsBlocker
<1>5. CASE Mixed(c)
  <2> DEFINE a == [x \in AdminsOf(c) |-> T.admins[x].pw]
             b == [x \in BarbersOf(c) |-> T.barbers[x].pw]
             A == {a[x] : x \in AdminsOf(c)}
             B == {b[x] : x \in BarbersOf(c)}
  <2>1. DOMAIN a = AdminsOf(c) /\ DOMAIN b = BarbersOf(c)
    OBVIOUS
  <2>2. Hashes(T, c) \subseteq A \cup B
    BY DEF Hashes
  <2> HIDE DEF a, b
  <2>3. IsFiniteSet(A)
    BY <1>2, <2>1, FiniteColumn
  <2>4. IsFiniteSet(B)
    BY <1>2, <2>1, FiniteColumn
  <2> HIDE DEF A, B
  <2>5. IsFiniteSet(Hashes(T, c))
    BY <2>2, <2>3, <2>4, FS_Union, FS_Subset
  <2>6. ~(Cardinality(Hashes(T, c)) > 1)
    BY <1>5 DEF IsSafe, NeedsReview
  <2> QED
    BY <1>3, <1>4, <2>5, <2>6, AtMostOne
<1>6. CASE ~Mixed(c)
  <2>1. AdminsOf(c) = {} \/ BarbersOf(c) = {}
    BY <1>6 DEF Mixed
  <2>2. \A x, y \in Hashes(T, c) : x = y
    BY <1>3, <1>4, <2>1 DEF Hashes
  <2> QED
    BY <1>3, <1>4, <2>2
<1> QED
  BY <1>5, <1>6

\* The records of a safe case: an administrator has a password, and a barber with a
\* password has an email of the shape of one.
LEMMA SafeRecords ==
  ASSUME NEW T \in Tables, NEW c \in Cases(T), IsSafe(T, c)
  PROVE  /\ \A a \in AdminsOf(c) : T.admins[a].pw # 0
         /\ \A b \in BarbersOf(c) : LET row == T.barbers[b] IN
              /\ row.pw # 0 => row.email \in Emails
              /\ row.email # None => row.email \in Emails /\ row.pw # 0
  BY DEF IsSafe, IsBlocker, NeedsReview, Usable

\* The identity of a safe case with a login: the one password, the administrator's
\* username, and an email unless the administrator has none.
LEMMA IdentityOfACase ==
  ASSUME CutoverAssumption, NEW T \in Tables, NEW c \in Cases(T), IsSafe(T, c), HasLogin(T, c)
  PROVE  /\ Identity(T, c).pw \in Nat \ {0}
         /\ \A pw \in Hashes(T, c) : Identity(T, c).pw = pw
         /\ Identity(T, c).email \in Identifiers
         /\ Identity(T, c).username \in Identifiers \cup {None}
         /\ \A a \in AdminsOf(c) : Identity(T, c).username = T.admins[a].username
<1> DEFINE administrators == {T.admins[a] : a \in AdminsOf(c)}
           professionals == {T.barbers[b] : b \in BarbersOf(c)}
           own == {row.email : row \in administrators} \cap Emails
           shared == {row.email : row \in professionals} \cap Emails
           id == Identity(T, c)
<1>1. AdminsOf(c) \subseteq {a \in Admins : Exists(T, a)} /\ BarbersOf(c) \subseteq Barbers
  BY CaseRecords
<1>2. \A S : S # {} => The(S) \in S
  BY DEF The
<1>3. id.pw = The(Hashes(T, c)) /\ id.pw \in Hashes(T, c)
  BY <1>2 DEF HasLogin, Identity
<1>4. \A pw \in Hashes(T, c) : id.pw = pw
  BY <1>3, SafeCaseIsOfOne
<1>5. Hashes(T, c) \subseteq Nat \ {0}
  <2>1. \A a \in AdminsOf(c) : T.admins[a].pw \in Nat
    BY <1>1 DEF Tables, Admin
  <2>2. \A b \in BarbersOf(c) : T.barbers[b].pw \in Nat
    BY <1>1 DEF Tables, Barber
  <2> QED
    BY <2>1, <2>2 DEF Hashes
<1>6. id.username = IF administrators = {} THEN None ELSE The(administrators).username
  BY DEF Identity
<1>7. id.email = IF own # {} THEN The(own) ELSE IF shared # {} THEN The(shared)
                 ELSE The(administrators).username
  BY DEF Identity
<1>8. \A a \in AdminsOf(c) : T.admins[a].username \in Identifiers
  BY <1>1 DEF Tables, Admin, Exists
<1>9. administrators # {} => \E a \in AdminsOf(c) : The(administrators) = T.admins[a]
  BY <1>2
<1>10. \A a \in AdminsOf(c) : The(administrators) = T.admins[a]
  BY <1>9, SafeCaseIsOfOne
<1>11. administrators = {} => shared # {}
  <2> SUFFICES ASSUME administrators = {} PROVE shared # {}
    OBVIOUS
  <2>1. PICK b \in BarbersOf(c) : T.barbers[b].pw # 0
    BY DEF HasLogin, Hashes
  <2>2. T.barbers[b].email \in Emails
    BY <2>1, SafeRecords
  <2> QED
    BY <2>2
<1>12. id.email \in Identifiers
  BY <1>2, <1>7, <1>8, <1>9, <1>11 DEF Identifiers
<1>13. id.username \in Identifiers \cup {None}
  BY <1>6, <1>8, <1>9
<1>14. \A a \in AdminsOf(c) : id.username = T.admins[a].username
  BY <1>6, <1>10
<1> HIDE DEF id
<1> QED
  BY <1>3, <1>4, <1>5, <1>12, <1>13, <1>14 DEF id

\* A barber without an email shares nothing: it is a case of its own.
LEMMA AloneWithoutEmail ==
  ASSUME NEW T, NEW c \in Cases(T), NEW b \in BarbersOf(c), T.barbers[b].email = None
  PROVE  c = {<<"barber", b>>}
<1> DEFINE x == <<"barber", b>>
           near == [other \in Records(T) |->
                      {y \in Records(T) : IdentifiersOf(T, y) \cap IdentifiersOf(T, other) # {}}]
           closed == {S \in SUBSET Records(T) : \A other \in S : near[other] \subseteq S}
<1>1. x \in c /\ c \subseteq Records(T)
  BY CaseRecords, InCase
<1>2. PICK r \in Records(T) : c = {other \in Records(T) : \A S \in closed : r \in S => other \in S}
  BY DEF Cases, Component
<1>3. IdentifiersOf(T, x) = {}
  BY DEF IdentifiersOf
<1>4. \A other \in Records(T) : x \notin near[other]
  BY <1>3
<1>5. Records(T) \ {x} \in closed
  BY <1>4
<1>6. r = x
  BY <1>1, <1>2, <1>5
<1>7. {x} \in closed
  BY <1>1, <1>3
<1> HIDE DEF x, near, closed
<1>8. \A other \in c : other \in {x}
  BY <1>2, <1>6, <1>7
<1>9. c = {x}
  BY <1>1, <1>8
<1> QED
  BY <1>9 DEF x

\* The barber of a safe case with a login logs in with the password and with the email, or
\* the username, of the identity.
LEMMA BarberIsKnown ==
  ASSUME CutoverAssumption, NEW T \in Tables, NEW c \in Cases(T), IsSafe(T, c), HasLogin(T, c),
         NEW b \in BarbersOf(c)
  PROVE  /\ T.barbers[b].pw = Identity(T, c).pw
         /\ T.barbers[b].email = Identity(T, c).email
<1> DEFINE row == T.barbers[b]
           administrators == {T.admins[a] : a \in AdminsOf(c)}
           professionals == {T.barbers[x] : x \in BarbersOf(c)}
           own == {x.email : x \in administrators} \cap Emails
           shared == {x.email : x \in professionals} \cap Emails
           id == Identity(T, c)
<1>1. row.email # None
  <2> SUFFICES ASSUME row.email = None PROVE FALSE
    OBVIOUS
  <2>1. c = {<<"barber", b>>}
    BY AloneWithoutEmail
  <2>2. AdminsOf(c) = {} /\ BarbersOf(c) = {b}
    BY <2>1 DEF AdminsOf, BarbersOf
  <2>3. row.pw # 0
    BY <2>2 DEF HasLogin, Hashes
  <2>4. row.email \in Emails
    BY <2>3, SafeRecords
  <2> QED
    BY <2>4 DEF CutoverAssumption, Identifiers
<1>2. row.email \in Emails /\ row.pw # 0
  BY <1>1, SafeRecords
<1>3. row.pw = id.pw
  BY <1>2, IdentityOfACase DEF Hashes
<1> SUFFICES row.email = id.email
  BY <1>3
<1>4. id.email = IF own # {} THEN The(own) ELSE IF shared # {} THEN The(shared)
                 ELSE The(administrators).username
  BY DEF Identity
<1>5. \A S : S # {} => The(S) \in S
  BY DEF The
<1>6. shared = {row.email}
  BY <1>2, SafeCaseIsOfOne
<1> HIDE DEF own, shared, id, administrators
<1>7. CASE own = {}
  BY <1>4, <1>5, <1>6, <1>7
<1>8. CASE own # {}
  <2> DEFINE all == (UNION {IdentifiersOf(T, r) : r \in c}) \cap Emails
             f == [a \in AdminsOf(c) |-> T.admins[a].username]
             g == [a \in AdminsOf(c) |-> T.admins[a].email]
             h == [x \in BarbersOf(c) |-> T.barbers[x].email]
             F == {f[a] : a \in AdminsOf(c)}
             G == {g[a] : a \in AdminsOf(c)}
             H == {h[x] : x \in BarbersOf(c)}
  <2>1. PICK a \in AdminsOf(c) : The(own) = T.admins[a].email /\ The(own) \in Emails
    <3>1. The(own) \in own
      BY <1>5, <1>8
    <3> QED
      BY <3>1 DEF own, administrators
  <2>2. <<"admin", a>> \in c /\ <<"barber", b>> \in c /\ None \notin Emails
    BY InCase DEF CutoverAssumption, Identifiers
  <2>3. T.admins[a].email \in IdentifiersOf(T, <<"admin", a>>)
        /\ row.email \in IdentifiersOf(T, <<"barber", b>>)
    BY <1>1, <2>1, <2>2 DEF IdentifiersOf
  <2>4. The(own) \in all /\ row.email \in all
    <3>1. \A r \in c : \A e \in IdentifiersOf(T, r) : e \in Emails => e \in all
      <4> DEFINE sets == {IdentifiersOf(T, r) : r \in c}
      <4>1. \A r \in c : IdentifiersOf(T, r) \in sets
        OBVIOUS
      <4>2. \A S \in sets : \A e \in S : e \in UNION sets
        OBVIOUS
      <4>3. all = (UNION sets) \cap Emails
        OBVIOUS
      <4> HIDE DEF sets, all
      <4> QED
        BY <4>1, <4>2, <4>3
    <3> HIDE DEF all
    <3> QED
      BY <1>2, <2>1, <2>2, <2>3, <3>1
  <2>5. Mixed(c)
    BY <2>1 DEF Mixed
  <2>6. AdminsOf(c) \subseteq Admins /\ BarbersOf(c) \subseteq Barbers /\ c \subseteq Records(T)
    BY CaseRecords
  <2>7. IsFiniteSet(AdminsOf(c)) /\ IsFiniteSet(BarbersOf(c))
    BY <2>6, FS_Subset DEF CutoverAssumption
  <2>8. \A r \in c : IdentifiersOf(T, r) \subseteq F \cup G \cup H
    <3> TAKE r \in c
    <3>1. r \in ({"admin"} \X Admins) \cup ({"barber"} \X Barbers)
      BY <2>6 DEF Records
    <3>2. CASE r \in {"admin"} \X Admins
      <4>1. r[1] = "admin" /\ r[2] \in AdminsOf(c)
        BY <3>2 DEF AdminsOf
      <4> QED
        BY <4>1 DEF IdentifiersOf
    <3>3. CASE r \in {"barber"} \X Barbers
      <4>1. r[1] = "barber" /\ r[2] \in BarbersOf(c)
        BY <3>3 DEF BarbersOf
      <4> QED
        BY <4>1 DEF IdentifiersOf
    <3> QED
      BY <3>1, <3>2, <3>3
  <2>9. DOMAIN f = AdminsOf(c) /\ DOMAIN g = AdminsOf(c) /\ DOMAIN h = BarbersOf(c)
    OBVIOUS
  <2>10. all \subseteq F \cup G \cup H
    BY <2>8
  <2> HIDE DEF f, g, h
  <2>11. IsFiniteSet(F)
    BY <2>7, <2>9, FiniteColumn
  <2>12. IsFiniteSet(G)
    BY <2>7, <2>9, FiniteColumn
  <2>13. IsFiniteSet(H)
    BY <2>7, <2>9, FiniteColumn
  <2>14. ~(Cardinality(all) > 1)
    BY <2>5 DEF IsSafe, NeedsReview
  <2> HIDE DEF F, G, H, all
  <2>15. IsFiniteSet(F \cup G)
    BY <2>11, <2>12, FS_Union
  <2>16. IsFiniteSet(F \cup G \cup H)
    BY <2>13, <2>15, FS_Union
  <2>17. IsFiniteSet(all)
    BY <2>10, <2>16, FS_Subset
  <2>18. The(own) = row.email
    BY <2>4, <2>14, <2>17, AtMostOne
  <2> QED
    BY <1>4, <1>8, <2>18
<1> QED
  BY <1>7, <1>8

-----------------------------------------------------------------------------
(***************************************************************************)
(* What an apply writes.                                                   *)
(***************************************************************************)
\* A case that the backfill applies.
Applies(T, c) ==
    /\ c \in Cases(T) /\ IsSafe(T, c) /\ Outcome(T, c) = "applied"
    /\ Candidates(T, c) = {} => \E u \in Users : T.users[u].status = "none"

IsUser(T, u) == u \in Users /\ T.users[u].status # "none"

\* It has a login, and one user: the only candidate, which is as the identity says, or an
\* id that is free.
LEMMA UserOfACase ==
  ASSUME CutoverAssumption, NEW T \in Tables, NEW c, Applies(T, c)
  PROVE  LET u == UserOf(T, c) IN
         /\ HasLogin(T, c) /\ u \in Users
         /\ Candidates(T, c) # {} =>
              Candidates(T, c) = {u} /\ IsCompatible(T, c, u)
         /\ Candidates(T, c) = {} => T.users[u].status = "none"
<1> DEFINE u == UserOf(T, c)
<1>1. HasLogin(T, c) /\ Succeeds(T, c)
  BY DEF Applies, Outcome
<1>2. CASE Candidates(T, c) # {}
  <2>1. Candidates(T, c) \subseteq Users /\ IsFiniteSet(Candidates(T, c))
    BY FS_Subset DEF Candidates, CutoverAssumption
  <2>2. ~(Cardinality(Candidates(T, c)) > 1)
    <3>1. Cardinality(Candidates(T, c)) <= 1
      BY <1>1 DEF Succeeds
    <3>2. Cardinality(Candidates(T, c)) \in Nat
      BY <2>1, FS_CardinalityType
    <3> QED
      BY <3>1, <3>2
  <2>3. u \in Candidates(T, c)
    BY <1>2 DEF UserOf, The
  <2>4. Candidates(T, c) = {u}
    BY <2>1, <2>2, <2>3, AtMostOne
  <2> QED
    BY <1>1, <1>2, <2>1, <2>3, <2>4 DEF Succeeds
<1>3. CASE Candidates(T, c) = {}
  <2> DEFINE free == {v \in Users : T.users[v].status = "none"}
  <2>1. free # {} /\ free \subseteq Nat
    BY <1>3 DEF Applies, CutoverAssumption
  <2>2. \E x \in free : \A y \in free : x <= y
    BY <2>1, LeastNatural
  <2>3. Min(free) \in free
    BY <2>2 DEF Min
  <2>4. u = Min(free)
    BY <1>3 DEF UserOf, FreeUser
  <2> QED
    BY <1>1, <1>3, <2>3, <2>4
<1> QED
  BY <1>2, <1>3

\* The user of the case has the identity, and what it had before; no other user changes.
LEMMA AppliedUsers ==
  ASSUME CutoverAssumption, NEW T \in Tables, NEW c, Applies(T, c)
  PROVE  LET u == UserOf(T, c)  new == Applied(T, c).users  id == Identity(T, c) IN
         /\ new \in [Users -> User]
         /\ \A v \in Users \ {u} : new[v] = T.users[v]
         /\ new[u].status = "active" /\ new[u].pw = id.pw
         /\ new[u].email = id.email /\ new[u].username = id.username
         /\ (IsUser(T, u) /\ T.users[u].administrator) \/ AdminsOf(c) # {} => new[u].administrator
<1> DEFINE u == UserOf(T, c)
           id == Identity(T, c)
           row == IF Candidates(T, c) = {}
                  THEN [Absent EXCEPT !.username = id.username, !.pw = id.pw,
                                      !.email = id.email, !.status = "active"]
                  ELSE T.users[u]
           places == UNION {T.barbers[b].places : b \in BarbersOf(c)}
           line == IF AdminsOf(c) # {} THEN [row EXCEPT !.administrator = TRUE]
                   ELSE [row EXCEPT !.places = @ \cup places]
           new == Applied(T, c).users
<1>1. /\ HasLogin(T, c) /\ u \in Users /\ c \in Cases(T) /\ IsSafe(T, c)
      /\ Candidates(T, c) # {} => IsCompatible(T, c, u)
      /\ Candidates(T, c) = {} => T.users[u].status = "none"
  BY UserOfACase DEF Applies
<1>2. /\ id.pw \in Nat /\ id.email \in Identifiers /\ id.username \in Identifiers \cup {None}
  BY <1>1, IdentityOfACase
<1>3. new = [T.users EXCEPT ![u] = line]
  BY DEF Applied
<1>4. T.users \in [Users -> User]
  BY DEF Tables
<1>5. places \subseteq Locations
  <2>1. BarbersOf(c) \subseteq Barbers
    BY <1>1, CaseRecords
  <2>2. \A b \in BarbersOf(c) : T.barbers[b].places \subseteq Locations
    BY <2>1 DEF Tables, Barber
  <2> QED
    BY <2>2
<1>6. /\ row \in User /\ row.status = "active" /\ row.pw = id.pw
      /\ row.email = id.email /\ row.username = id.username
      /\ IsUser(T, u) /\ T.users[u].administrator => row.administrator
  <2> HIDE DEF id, u
  <2>1. CASE Candidates(T, c) = {}
    BY <1>1, <1>2, <2>1 DEF User, Absent, IsUser
  <2>2. CASE Candidates(T, c) # {}
    BY <1>1, <1>4, <2>2 DEF IsCompatible, id
  <2> QED
    BY <2>1, <2>2
<1> HIDE DEF row, places
<1>7. /\ line \in User /\ line.status = "active" /\ line.pw = id.pw
      /\ line.email = id.email /\ line.username = id.username
      /\ (IsUser(T, u) /\ T.users[u].administrator) \/ AdminsOf(c) # {} => line.administrator
  <2> DEFINE Login == {"username", "email", "pw", "status"}
  <2>1. line = IF AdminsOf(c) # {} THEN [row EXCEPT !.administrator = TRUE]
               ELSE [row EXCEPT !.places = @ \cup places]
    OBVIOUS
  <2> HIDE DEF line, id, u
  <2>2. CASE AdminsOf(c) # {}
    <3>1. line = [row EXCEPT !.administrator = TRUE]
      BY <2>1, <2>2
    <3>2. line \in User /\ line.administrator /\ \A f \in Login : line[f] = row[f]
      BY <1>6, <3>1 DEF User
    <3> QED
      BY <1>6, <3>2
  <2>3. CASE AdminsOf(c) = {}
    <3>1. line = [row EXCEPT !.places = @ \cup places]
      BY <2>1, <2>3
    <3>2. line \in User
      BY <1>5, <1>6, <3>1 DEF User
    <3>3. \A f \in Login \cup {"administrator"} : line[f] = row[f]
      BY <1>6, <3>1 DEF User
    <3>4. line.administrator = row.administrator
      BY <3>3
    <3> QED
      BY <1>6, <2>3, <3>2, <3>3, <3>4
  <2> QED
    BY <2>2, <2>3
<1> HIDE DEF line, u, new, id
<1>8. /\ new \in [Users -> User]
      /\ \A v \in Users \ {u} : new[v] = T.users[v]
      /\ new[u] = line
  BY <1>1, <1>3, <1>4, <1>7
<1> QED
  BY <1>7, <1>8 DEF u, new, id

-----------------------------------------------------------------------------
(***************************************************************************)
(* The requests.                                                           *)
(***************************************************************************)
AllKnow == \A s \in Clients : Knows(req[s], invites)
RequestsOK == req \in [Clients -> Request] /\ LocksExclude /\ AllKnow

LEMMA OneRequestMoves ==
  ASSUME RequestsOK, NEW s \in Clients, NEW q \in Request, req' = [req EXCEPT ![s] = q],
         Knows(q, invites'),
         \A t \in Clients \ {s} : q.held \cap req[t].held = {} /\ Knows(req[t], invites')
  PROVE  RequestsOK'
<1>1. req' \in [Clients -> Request] /\ req'[s] = q
      /\ \A t \in Clients \ {s} : req'[t] = req[t]
  BY DEF RequestsOK
<1>2. LocksExclude'
  <2> SUFFICES ASSUME NEW t \in Clients, NEW r \in Clients, t # r
               PROVE  req'[t].held \cap req'[r].held = {}
    BY DEF LocksExclude
  <2>1. CASE t = s
    BY <1>1, <2>1
  <2>2. CASE r = s
    BY <1>1, <2>2
  <2>3. CASE t # s /\ r # s
    BY <1>1, <2>3 DEF RequestsOK, LocksExclude
  <2> QED
    BY <2>1, <2>2, <2>3
<1>3. \A t \in Clients : Knows(req'[t], invites')
  BY <1>1
<1> QED
  BY <1>1, <1>2, <1>3 DEF RequestsOK, AllKnow

\* A request that begins has no locks.
LEMMA BeginKeeps ==
  ASSUME RequestsOK, NEW s \in Clients, NEW q \in Request, Begin(s, q), q.held = {},
         Knows(q, invites)
  PROVE  RequestsOK'
<1>1. req' = [req EXCEPT ![s] = q] /\ invites' = invites
  BY DEF Begin
<1>2. \A t \in Clients \ {s} : q.held \cap req[t].held = {} /\ Knows(req[t], invites')
  BY <1>1 DEF RequestsOK, AllKnow
<1>3. Knows(q, invites')
  BY <1>1
<1> QED
  BY <1>1, <1>2, <1>3, OneRequestMoves

\* A statement waits until nobody has its locks.
LEMMA TakeKeeps ==
  ASSUME RequestsOK, NEW s \in Clients, NEW step, Take(s, step), Wanted(s) \subseteq Lock,
         NEW q, q = [req[s] EXCEPT !.held = @ \cup Wanted(s), !.at = step],
         q \in Request => Knows(q, invites),
         step \in {"idle", "advisory", "row", "revoke", "replace", "update", "claim", "password"}
  PROVE  RequestsOK'
<1>1. req[s] \in Request
  BY DEF RequestsOK
<1>2. q \in Request /\ q.held = req[s].held \cup Wanted(s)
  BY <1>1 DEF Request
<1>3. req' = [req EXCEPT ![s] = q]
  BY DEF Take, RequestsOK
<1>4. \A t \in Clients \ {s} : req[t].held \cap Wanted(s) = {}
  BY DEF Take, Granted, Blockers
<1>5. \A t \in Clients \ {s} : q.held \cap req[t].held = {}
  BY <1>2, <1>4 DEF RequestsOK, LocksExclude
<1>6. \A t \in Clients \ {s} : Knows(req[t], invites)
  BY DEF RequestsOK, AllKnow
<1>7. invites' = invites
  BY DEF Take
<1> QED
  BY <1>2, <1>3, <1>5, <1>6, <1>7, OneRequestMoves

\* A request that ends has changed no invite that another one has claimed.
LEMMA EndKeeps ==
  ASSUME CutoverAssumption, RequestsOK, NEW s \in Clients, End(s),
         \A i \in Invites : invites[i].state # "none" =>
           invites'[i].state # "none" /\ invites'[i].barber = invites[i].barber,
         \A t \in Clients \ {s} : At(t, "password") =>
           invites'[req[t].invite] = invites[req[t].invite]
  PROVE  RequestsOK'
<1>1. Idle \in Request /\ Idle.held = {} /\ Idle.at = "idle"
  BY DEF Idle, Request
<1>2. req' = [req EXCEPT ![s] = Idle]
  BY DEF End
<1>3. \A t \in Clients \ {s} : Knows(req[t], invites) /\ req[t] \in Request
  BY DEF RequestsOK, AllKnow
<1>4. \A t \in Clients \ {s} : Knows(req[t], invites')
  BY <1>3 DEF Knows, At
<1>5. Knows(Idle, invites')
  BY <1>1 DEF Knows
<1> QED
  BY <1>1, <1>2, <1>4, <1>5, OneRequestMoves

-----------------------------------------------------------------------------
(***************************************************************************)
(* What the requests do to the tables.                                     *)
(***************************************************************************)
\* One row of barbers is written: its link, its visibility and its locations stay, and its
\* password stays, is removed, or is new.
Writes(b, row) ==
    /\ b \in Barbers /\ row \in Barber
    /\ row.user = db.barbers[b].user
    /\ row.pw \in {db.barbers[b].pw, 0, NewPassword(db)}
    /\ db'.barbers = [db.barbers EXCEPT ![b] = row]
    /\ db'.admins = db.admins /\ db'.users = db.users
    /\ db' \in Tables

LEMMA Knowing ==
  ASSUME RequestsOK, NEW s \in Clients
  PROVE  req[s] \in Request /\ Knows(req[s], invites)
  BY DEF RequestsOK, AllKnow

LEMMA RowIsWritten ==
  ASSUME TypeOK, NEW b \in Barbers, NEW row \in Barber, row.user = db.barbers[b].user,
         row.pw \in {db.barbers[b].pw, 0, NewPassword(db)},
         db' = [admins |-> db.admins, barbers |-> [db.barbers EXCEPT ![b] = row], users |-> db.users]
  PROVE  Writes(b, row)
  BY DEF Writes, TypeOK, Tables

LEMMA RevokeWrites ==
  ASSUME TypeOK, RequestsOK, NEW s \in Clients, RevokeAccess(s)
  PROVE  LET b == req[s].barber IN
         \E row : /\ Writes(b, row)
                  /\ row.pw = 0 /\ row.email = req[s].email
<1> DEFINE b == req[s].barber
           e == req[s].email
           row == [db.barbers[b] EXCEPT !.email = e, !.pw = 0, !.under = None]
<1>1. b \in Barbers /\ e \in Identifiers \cup {None}
  BY Knowing DEF RevokeAccess, At, Knows, Request
<1>2. db' = [db EXCEPT !.barbers[b].email = e, !.barbers[b].pw = 0, !.barbers[b].under = None]
  BY DEF RevokeAccess
<1> HIDE DEF b, e
<1>3. db.barbers \in [Barbers -> Barber] /\ db \in Tables
  BY DEF TypeOK, Tables
<1>4. db' = [admins |-> db.admins, barbers |-> [db.barbers EXCEPT ![b] = row], users |-> db.users]
  BY <1>1, <1>2, <1>3 DEF Tables
<1>5. row \in Barber /\ row.pw = 0 /\ row.email = e /\ row.user = db.barbers[b].user
  BY <1>1, <1>3 DEF Barber
<1>7. Writes(b, row)
  BY <1>1, <1>4, <1>5, RowIsWritten
<1> QED
  BY <1>5, <1>7 DEF b, e

LEMMA UpdateWrites ==
  ASSUME CutoverAssumption, TypeOK, RequestsOK, NEW s \in Clients, Update(s)
  PROVE  LET b == req[s].barber IN
         \/ UNCHANGED <<db, reverted>>
         \/ \E row : /\ Writes(b, row)
                     /\ \/ row.pw = 0 /\ row.email = db.barbers[b].email /\ reverted' = reverted
                        \/ /\ row = [db.barbers[b] EXCEPT !.email = req[s].email]
                           /\ reverted' = IF db.barbers[b].email = req[s].email THEN reverted
                                          ELSE reverted \cup {b}
<1> DEFINE b == req[s].barber
           e == req[s].email
           emptied == [db.barbers[b] EXCEPT !.pw = 0, !.under = None]
           edited == [db.barbers[b] EXCEPT !.email = e]
<1>1. b \in Barbers /\ e \in Identifiers \cup {None}
  BY Knowing DEF Update, At, Knows, Request
<1>2. \/ UNCHANGED <<db, reverted>>
      \/ /\ db' = [db EXCEPT !.barbers[b].pw = 0, !.barbers[b].under = None]
         /\ reverted' = reverted
      \/ /\ db' = [db EXCEPT !.barbers[b].email = e]
         /\ reverted' = IF db.barbers[b].email = e THEN reverted ELSE reverted \cup {b}
  BY DEF Update
<1> HIDE DEF b, e
<1>3. db.barbers \in [Barbers -> Barber] /\ db \in Tables
  BY DEF TypeOK, Tables
<1>4. ASSUME db' = [db EXCEPT !.barbers[b].pw = 0, !.barbers[b].under = None]
      PROVE  Writes(b, emptied) /\ emptied.pw = 0 /\ emptied.email = db.barbers[b].email
  <2>1. db' = [admins |-> db.admins, barbers |-> [db.barbers EXCEPT ![b] = emptied], users |-> db.users]
    BY <1>1, <1>3, <1>4 DEF Tables
  <2>2. /\ emptied \in Barber /\ emptied.pw = 0 /\ emptied.user = db.barbers[b].user
        /\ emptied.email = db.barbers[b].email
    BY <1>1, <1>3 DEF Barber
  <2> HIDE DEF emptied, edited
  <2> QED
    BY <1>1, <2>1, <2>2, RowIsWritten
<1>5. ASSUME db' = [db EXCEPT !.barbers[b].email = e]
      PROVE  Writes(b, edited)
  <2>1. db' = [admins |-> db.admins, barbers |-> [db.barbers EXCEPT ![b] = edited], users |-> db.users]
    BY <1>1, <1>3, <1>5 DEF Tables
  <2>2. edited \in Barber /\ edited.pw = db.barbers[b].pw /\ edited.user = db.barbers[b].user
    BY <1>1, <1>3 DEF Barber
  <2> HIDE DEF emptied, edited
  <2> QED
    BY <1>1, <2>1, <2>2, RowIsWritten
<1> QED
  BY <1>2, <1>4, <1>5 DEF b, e

LEMMA SetPasswordWrites ==
  ASSUME CutoverAssumption, TypeOK, RequestsOK, NEW s \in Clients, SetPassword(s)
  PROVE  LET b == req[s].barber IN
         \E row : /\ Writes(b, row)
                  /\ row.email = db.barbers[b].email
                  /\ row.under = invites[req[s].invite].email
<1> DEFINE b == req[s].barber
           u == invites[req[s].invite].email
           n == NewPassword(db)
           row == [db.barbers[b] EXCEPT !.pw = n, !.under = u]
<1>1. b \in Barbers /\ req[s].invite \in Invites
  BY Knowing DEF SetPassword, At, Knows
<1>2. u \in Identifiers \cup {None}
  BY <1>1 DEF TypeOK, Invite
<1>3. db.barbers \in [Barbers -> Barber] /\ db \in Tables
  BY DEF TypeOK, Tables
<1>4. n \in Nat
  BY <1>1, <1>3, NewPasswordIsNew
<1>5. db' = [db EXCEPT !.barbers[b].pw = n, !.barbers[b].under = u]
  BY DEF SetPassword
<1> HIDE DEF b, u, n
<1>6. db' = [admins |-> db.admins, barbers |-> [db.barbers EXCEPT ![b] = row], users |-> db.users]
  BY <1>1, <1>3, <1>5 DEF Tables
<1>7. /\ row \in Barber /\ row.user = db.barbers[b].user /\ row.pw = n
      /\ row.email = db.barbers[b].email /\ row.under = u
  BY <1>1, <1>2, <1>3, <1>4 DEF Barber
<1>9. Writes(b, row)
  BY <1>1, <1>6, <1>7, RowIsWritten DEF n
<1> QED
  BY <1>7, <1>9 DEF b, u

\* POST /api/admin/create.
LEMMA CreateWrites ==
  ASSUME CutoverAssumption, TypeOK, NEW s \in Clients, NEW a \in Admins, CreateAdmin(s, a)
  PROVE  \E row \in Admin :
           /\ ~Exists(db, a) /\ row.user = None
           /\ db'.admins = [db.admins EXCEPT ![a] = row]
           /\ db'.barbers = db.barbers /\ db'.users = db.users
           /\ db' \in Tables
<1>1. PICK username \in Identifiers, email \in Emails \cup {None} :
        db' = [db EXCEPT !.admins[a] = [username |-> username, email |-> email,
                                        pw |-> NewPassword(db), user |-> None]]
  BY DEF CreateAdmin
<1> DEFINE row == [username |-> username, email |-> email, pw |-> NewPassword(db), user |-> None]
<1>2. NewPassword(db) \in Nat
  BY NewPasswordIsNew DEF TypeOK
<1>3. row \in Admin /\ row.user = None
  BY <1>2 DEF Admin, Identifiers
<1> HIDE DEF row
<1>4. db' = [db EXCEPT !.admins[a] = row]
  BY <1>1 DEF row
<1>5. ~Exists(db, a) /\ db \in Tables
  BY DEF CreateAdmin, TypeOK
<1> QED
  BY <1>3, <1>4, <1>5 DEF Tables

-----------------------------------------------------------------------------
(***************************************************************************)
(* An email that was given before it was changed opens nothing.            *)
(***************************************************************************)
Ok == TypeOK /\ RequestsOK /\ Stored /\ OnlyAStaleEditKeepsAccess

LEMMA OnlyRequestsMove ==
  ASSUME Ok, RequestsOK', UNCHANGED <<db, invites, backfill, reverted>>
  PROVE  Ok'
  BY DEF Ok, TypeOK, Stored, OnlyAStaleEditKeepsAccess

LEMMA StartsAreOk ==
  ASSUME CutoverAssumption, Ok, NEW s \in Clients, Start(s)
  PROVE  Ok'
<1>1. ASSUME NEW q \in Request, Begin(s, q), q.held = {}, Knows(q, invites) PROVE Ok'
  <2>1. RequestsOK'
    BY <1>1, BeginKeeps DEF Ok
  <2>2. UNCHANGED <<db, invites, backfill, reverted>>
    BY <1>1 DEF Begin
  <2> QED
    BY <2>1, <2>2, OnlyRequestsMove
<1>2. ASSUME NEW b \in Barbers, StartInvite(s, b) PROVE Ok'
  <2> DEFINE q == [Idle EXCEPT !.op = "invite", !.at = "advisory", !.barber = b]
  <2>1. q \in Request /\ q.held = {} /\ Knows(q, invites) /\ Begin(s, q)
    BY <1>2 DEF StartInvite, Idle, Request, Knows
  <2> QED
    BY <1>1, <2>1
<1>3. ASSUME NEW b \in Barbers, StartReset(s, b) PROVE Ok'
  <2> DEFINE q == [Idle EXCEPT !.op = "reset", !.at = "update", !.barber = b]
  <2>1. q \in Request /\ q.held = {} /\ Knows(q, invites) /\ Begin(s, q)
    BY <1>3 DEF StartReset, Idle, Request, Knows
  <2> QED
    BY <1>1, <2>1
<1>4. ASSUME NEW b \in Barbers, StartEdit(s, b) PROVE Ok'
  <2>1. PICK email \in Emails \cup {None}, change \in {TRUE, FALSE} :
          Begin(s, IF change = TRUE
                   THEN [Idle EXCEPT !.op = "change", !.at = "advisory", !.barber = b, !.email = email]
                   ELSE [Idle EXCEPT !.op = "edit", !.at = "update", !.barber = b, !.email = email])
    BY <1>4 DEF StartEdit
  <2> DEFINE q1 == [Idle EXCEPT !.op = "change", !.at = "advisory", !.barber = b, !.email = email]
             q2 == [Idle EXCEPT !.op = "edit", !.at = "update", !.barber = b, !.email = email]
  <2>2. q1 \in Request /\ q1.held = {} /\ Knows(q1, invites)
    BY DEF Idle, Request, Knows, Identifiers
  <2>3. q2 \in Request /\ q2.held = {} /\ Knows(q2, invites)
    BY DEF Idle, Request, Knows, Identifiers
  <2>4. Begin(s, q1) \/ Begin(s, q2)
    BY <2>1
  <2> HIDE DEF q1, q2
  <2> QED
    BY <1>1, <2>2, <2>3, <2>4
<1>5. ASSUME NEW i \in Invites, StartAccept(s, i) PROVE Ok'
  <2> DEFINE b == invites[i].barber
             q == [Idle EXCEPT !.op = "accept", !.at = "claim", !.invite = i, !.barber = b]
  <2>1. invites[i].state # "none" /\ b \in Barbers
    BY <1>5 DEF StartAccept, Ok, Stored
  <2>2. Begin(s, q)
    BY <1>5 DEF StartAccept
  <2>3. q \in Request /\ q.held = {} /\ Knows(q, invites)
    BY <2>1 DEF Idle, Request, Knows
  <2> HIDE DEF q
  <2> QED
    BY <1>1, <2>2, <2>3
<1>6. ASSUME NEW a \in Admins, CreateAdmin(s, a) PROVE Ok'
  <2>1. db' \in Tables /\ db'.barbers = db.barbers
    BY <1>6, CreateWrites DEF Ok
  <2>2. UNCHANGED <<invites, req, backfill, reverted>>
    BY <1>6 DEF CreateAdmin
  <2> QED
    BY <2>1, <2>2 DEF Ok, TypeOK, RequestsOK, LocksExclude, AllKnow, Stored, OnlyAStaleEditKeepsAccess
<1> QED
  BY <1>2, <1>3, <1>4, <1>5, <1>6 DEF Start

\* Statements that wait for locks and change no table.
LEMMA TakesAreOk ==
  ASSUME CutoverAssumption, Ok, NEW s \in Clients,
         NEW step \in {"revoke", "replace", "row", "password"}, Take(s, step),
         \/ At(s, "advisory") /\ step \in {"replace", "row"}
         \/ At(s, "row") /\ step = "revoke"
         \/ At(s, "claim") /\ step = "password" /\ invites[req[s].invite].state = "open"
  PROVE  Ok'
<1> DEFINE q == [req[s] EXCEPT !.held = @ \cup Wanted(s), !.at = step]
<1>1. req[s] \in Request /\ Knows(req[s], invites)
  BY Knowing DEF Ok
<1>2. Wanted(s) \subseteq Lock
  <2>1. req[s].barber \in Barbers
    BY <1>1 DEF Knows, At
  <2>2. EmailKeys(s) \subseteq Lock
    BY <1>1, <2>1 DEF EmailKeys, Lock, Request, Ok, TypeOK, Tables, Barber
  <2>3. CASE At(s, "advisory")
    BY <2>1, <2>3 DEF Wanted, At, Lock
  <2>4. CASE At(s, "row")
    BY <2>1, <2>2, <2>4 DEF Wanted, At, Lock
  <2>5. CASE At(s, "claim")
    BY <1>1, <2>5 DEF Wanted, At, Lock, Knows
  <2> QED
    BY <2>3, <2>4, <2>5
<1>3. q.at = step /\ q.barber = req[s].barber /\ q.invite = req[s].invite
      /\ q.held = req[s].held \cup Wanted(s)
  BY <1>1 DEF Request
<1>4. step = "password" => <<"invite", req[s].invite>> \in Wanted(s)
  BY DEF Wanted, At
<1>5. Knows(q, invites)
  <2> HIDE DEF q
  <2> QED
    BY <1>1, <1>3, <1>4 DEF Knows, At
<1>6. RequestsOK'
  BY <1>2, <1>5, TakeKeeps DEF Ok
<1> QED
  BY <1>6, OnlyRequestsMove DEF Take

\* Requests that end and have changed no table.
LEMMA EndsAreOk ==
  ASSUME CutoverAssumption, Ok, NEW s \in Clients, End(s),
         UNCHANGED <<db, invites, backfill, reverted>>
  PROVE  Ok'
<1>1. RequestsOK'
  BY EndKeeps DEF Ok
<1> QED
  BY <1>1, OnlyRequestsMove

\* Who locks the invites of a barber has none that another one has claimed.
LEMMA ClaimedIsNotOpen ==
  ASSUME Ok, NEW s \in Clients, Granted(s), req[s].at \in {"replace", "revoke"},
         NEW t \in Clients \ {s}, At(t, "password")
  PROVE  /\ req[t].invite \in Invites /\ invites[req[t].invite].state = "open"
         /\ req[t].invite \notin OpenOf(req[s].barber)
<1>1. Wanted(s) = {"invite"} \X OpenOf(req[s].barber)
  BY DEF Wanted
<1>2. req[t].held \cap Wanted(s) = {}
  BY DEF Granted, Blockers
<1>3. /\ req[t].invite \in Invites /\ invites[req[t].invite].state = "open"
      /\ <<"invite", req[t].invite>> \in req[t].held
  BY Knowing DEF Ok, Knows, At
<1> QED
  BY <1>1, <1>2, <1>3

LEMMA UsedInvites ==
  ASSUME Ok, NEW b \in Barbers
  PROVE  /\ Used(b) \in [Invites -> Invite]
         /\ \A i \in Invites : /\ Used(b)[i].barber = invites[i].barber
                               /\ Used(b)[i].email = invites[i].email
                               /\ i \notin OpenOf(b) => Used(b)[i] = invites[i]
                               /\ i \in OpenOf(b) => Used(b)[i].state = "used"
  BY DEF Used, Ok, TypeOK, Invite

LEMMA ReplaceIsOk ==
  ASSUME CutoverAssumption, Ok, NEW s \in Clients, ReplaceInvite(s)
  PROVE  Ok'
<1> DEFINE b == req[s].barber
<1>1. b \in Barbers /\ Granted(s) /\ At(s, "replace") /\ UNCHANGED <<db, backfill, reverted>>
  BY Knowing DEF ReplaceInvite, At, Knows, Ok
<1>2. PICK i \in Invites :
        /\ invites[i].state = "none"
        /\ invites' = [Used(b) EXCEPT ![i] = [barber |-> b, state |-> "open",
                                              email |-> db.barbers[b].email]]
  BY DEF ReplaceInvite
<1> DEFINE new == [barber |-> b, state |-> "open", email |-> db.barbers[b].email]
<1>3. new \in Invite
  BY <1>1 DEF Ok, TypeOK, Tables, Barber, Invite
<1>4. /\ invites' \in [Invites -> Invite] /\ invites'[i] = new
      /\ \A j \in Invites \ {i} : invites'[j] = Used(b)[j]
  BY <1>1, <1>2, <1>3, UsedInvites
<1>5. \A j \in Invites : invites[j].state # "none" =>
        invites'[j].state # "none" /\ invites'[j].barber = invites[j].barber
  BY <1>1, <1>2, <1>4, UsedInvites
<1>6. \A t \in Clients \ {s} : At(t, "password") =>
        invites'[req[t].invite] = invites[req[t].invite]
  BY <1>1, <1>2, <1>4, UsedInvites, ClaimedIsNotOpen DEF At
<1>7. RequestsOK'
  BY <1>5, <1>6, EndKeeps DEF ReplaceInvite, Ok
<1>8. Stored'
  BY <1>1, <1>2, <1>4, UsedInvites DEF Stored, Ok, OpenOf
<1>9. OnlyAStaleEditKeepsAccess'
  <2>1. \A j \in Invites \ {i} : invites'[j].state = "open" => invites'[j] = invites[j]
    BY <1>1, <1>4, UsedInvites
  <2> QED
    BY <1>1, <1>4, <2>1 DEF OnlyAStaleEditKeepsAccess, Ok
<1> QED
  BY <1>1, <1>4, <1>7, <1>8, <1>9 DEF Ok, TypeOK

LEMMA RevokeIsOk ==
  ASSUME CutoverAssumption, Ok, NEW s \in Clients, RevokeAccess(s)
  PROVE  Ok'
<1> DEFINE b == req[s].barber
<1>1. /\ b \in Barbers /\ Granted(s) /\ At(s, "revoke") /\ invites' = Used(b) /\ End(s)
      /\ backfill' = backfill /\ reverted' = reverted \ {b}
  BY Knowing DEF RevokeAccess, At, Knows, Ok
<1>2. PICK row : Writes(b, row) /\ row.pw = 0 /\ row.email = req[s].email
  BY RevokeWrites DEF Ok
<1>3. /\ invites' \in [Invites -> Invite]
      /\ \A j \in Invites : invites'[j].barber = invites[j].barber
      /\ \A j \in Invites : invites[j].state # "none" => invites'[j].state # "none"
      /\ \A j \in Invites : invites'[j].state # "none" => invites[j].state # "none"
      /\ \A j \in Invites : invites'[j].state = "open" =>
           invites'[j] = invites[j] /\ invites[j].barber # b
  BY <1>1, UsedInvites DEF OpenOf
<1>4. \A t \in Clients \ {s} : At(t, "password") =>
        invites'[req[t].invite] = invites[req[t].invite]
  BY <1>1, UsedInvites, ClaimedIsNotOpen DEF At
<1>5. RequestsOK'
  BY <1>1, <1>3, <1>4, EndKeeps DEF Ok
<1>6. Stored'
  BY <1>3 DEF Stored, Ok
<1>7. OnlyAStaleEditKeepsAccess'
  <2> SUFFICES ASSUME NEW x \in Barbers \ reverted'
               PROVE  /\ \A j \in Invites : invites'[j].barber = x /\ invites'[j].state = "open"
                                            => invites'[j].email = db'.barbers[x].email
                      /\ db'.barbers[x].pw # 0 => db'.barbers[x].under = db'.barbers[x].email
    BY DEF OnlyAStaleEditKeepsAccess
  <2>1. db'.barbers[x] = IF x = b THEN row ELSE db.barbers[x]
    BY <1>2 DEF Writes, Ok, TypeOK, Tables
  <2>2. CASE x = b
    BY <1>2, <1>3, <2>1, <2>2
  <2>3. CASE x # b
    BY <1>1, <1>3, <2>1, <2>3 DEF Ok, OnlyAStaleEditKeepsAccess
  <2> QED
    BY <2>2, <2>3
<1> QED
  BY <1>1, <1>2, <1>3, <1>5, <1>6, <1>7 DEF Ok, TypeOK, Writes

LEMMA UpdateIsOk ==
  ASSUME CutoverAssumption, Ok, NEW s \in Clients, Update(s)
  PROVE  Ok'
<1> DEFINE b == req[s].barber
           e == req[s].email
<1>1. End(s) /\ UNCHANGED <<invites, backfill>>
  BY DEF Update
<1>2. CASE UNCHANGED <<db, reverted>>
  BY <1>1, <1>2, EndsAreOk
<1>3. CASE ~UNCHANGED <<db, reverted>>
  <2>1. PICK row :
          /\ Writes(b, row)
          /\ \/ row.pw = 0 /\ row.email = db.barbers[b].email /\ reverted' = reverted
             \/ /\ row = [db.barbers[b] EXCEPT !.email = e]
                /\ reverted' = IF db.barbers[b].email = e THEN reverted ELSE reverted \cup {b}
    BY <1>3, UpdateWrites DEF Ok
  <2>2. RequestsOK'
    BY <1>1, EndKeeps DEF Ok
  <2>3. b \in Barbers /\ db.barbers[b] \in Barber
    BY <2>1 DEF Writes, Ok, TypeOK, Tables
  <2>4. OnlyAStaleEditKeepsAccess'
    <3> SUFFICES ASSUME NEW x \in Barbers \ reverted'
                 PROVE  /\ \A j \in Invites : invites[j].barber = x /\ invites[j].state = "open"
                                              => invites[j].email = db'.barbers[x].email
                        /\ db'.barbers[x].pw # 0 => db'.barbers[x].under = db'.barbers[x].email
      BY <1>1 DEF OnlyAStaleEditKeepsAccess
    <3>1. db'.barbers[x] = IF x = b THEN row ELSE db.barbers[x]
      BY <2>1 DEF Writes, Ok, TypeOK, Tables
    <3>2. x \in Barbers \ reverted
      BY <2>1
    <3>3. CASE x # b
      BY <3>1, <3>2, <3>3 DEF Ok, OnlyAStaleEditKeepsAccess
    <3>4. CASE x = b /\ row.pw = 0 /\ row.email = db.barbers[b].email
      BY <3>1, <3>2, <3>4 DEF Ok, OnlyAStaleEditKeepsAccess
    <3>5. CASE /\ x = b /\ row = [db.barbers[b] EXCEPT !.email = e]
               /\ reverted' = IF db.barbers[b].email = e THEN reverted ELSE reverted \cup {b}
      <4>1. db.barbers[b].email = e
        BY <3>5
      <4>2. row = db.barbers[b]
        BY <2>3, <3>5, <4>1 DEF Barber
      <4> QED
        BY <3>1, <3>2, <3>5, <4>2 DEF Ok, OnlyAStaleEditKeepsAccess
    <3> QED
      BY <2>1, <3>3, <3>4, <3>5
  <2> QED
    BY <1>1, <2>1, <2>2, <2>3, <2>4 DEF Ok, TypeOK, Writes, Stored
<1> QED
  BY <1>2, <1>3

LEMMA SetPasswordIsOk ==
  ASSUME CutoverAssumption, Ok, NEW s \in Clients, SetPassword(s)
  PROVE  Ok'
<1> DEFINE b == req[s].barber
           i == req[s].invite
<1>1. /\ End(s) /\ At(s, "password") /\ UNCHANGED <<backfill, reverted>>
      /\ invites' = [invites EXCEPT ![i].state = "used"]
  BY DEF SetPassword
<1>2. /\ b \in Barbers /\ i \in Invites /\ <<"invite", i>> \in req[s].held
      /\ invites[i].state = "open" /\ invites[i].barber = b
  BY <1>1, Knowing DEF Ok, Knows, At
<1>3. PICK row : /\ Writes(b, row) /\ row.email = db.barbers[b].email
                 /\ row.under = invites[i].email
  BY SetPasswordWrites DEF Ok
<1>4. /\ invites' \in [Invites -> Invite]
      /\ \A j \in Invites \ {i} : invites'[j] = invites[j]
      /\ invites'[i].state = "used" /\ invites'[i].barber = b
  BY <1>1, <1>2 DEF Ok, TypeOK, Invite
<1>5. \A t \in Clients \ {s} : At(t, "password") => req[t].invite \in Invites \ {i}
  <2> SUFFICES ASSUME NEW t \in Clients \ {s}, At(t, "password")
               PROVE  req[t].invite \in Invites \ {i}
    OBVIOUS
  <2>1. req[t].invite \in Invites /\ <<"invite", req[t].invite>> \in req[t].held
    BY Knowing DEF Ok, Knows, At
  <2>2. req[s].held \cap req[t].held = {}
    BY DEF Ok, RequestsOK, LocksExclude
  <2> QED
    BY <1>2, <2>1, <2>2
<1>6. RequestsOK'
  BY <1>1, <1>2, <1>4, <1>5, EndKeeps DEF Ok
<1>7. Stored'
  BY <1>2, <1>4 DEF Stored, Ok
<1>8. OnlyAStaleEditKeepsAccess'
  <2> SUFFICES ASSUME NEW x \in Barbers \ reverted
               PROVE  /\ \A j \in Invites : invites'[j].barber = x /\ invites'[j].state = "open"
                                            => invites'[j].email = db'.barbers[x].email
                      /\ db'.barbers[x].pw # 0 => db'.barbers[x].under = db'.barbers[x].email
    BY <1>1 DEF OnlyAStaleEditKeepsAccess
  <2>1. db'.barbers[x] = IF x = b THEN row ELSE db.barbers[x]
    BY <1>3 DEF Writes, Ok, TypeOK, Tables
  <2>2. db'.barbers[x].email = db.barbers[x].email
    BY <1>3, <2>1
  <2>3. /\ \A j \in Invites : invites[j].barber = x /\ invites[j].state = "open"
                              => invites[j].email = db.barbers[x].email
        /\ db.barbers[x].pw # 0 => db.barbers[x].under = db.barbers[x].email
    BY DEF Ok, OnlyAStaleEditKeepsAccess
  <2> QED
    BY <1>2, <1>3, <1>4, <2>1, <2>2, <2>3
<1> QED
  BY <1>1, <1>3, <1>4, <1>6, <1>7, <1>8 DEF Ok, TypeOK, Writes

LEMMA ExpireIsOk ==
  ASSUME Ok, NEW i \in Invites, Expire(i)
  PROVE  Ok'
<1>1. /\ invites[i].state = "open" /\ \A s \in Clients : <<"invite", i>> \notin req[s].held
      /\ invites' = [invites EXCEPT ![i].state = "expired"]
      /\ UNCHANGED <<db, req, backfill, reverted>>
  BY DEF Expire
<1>2. /\ invites' \in [Invites -> Invite]
      /\ \A j \in Invites \ {i} : invites'[j] = invites[j]
      /\ invites'[i].state = "expired" /\ invites'[i].barber = invites[i].barber
  BY <1>1 DEF Ok, TypeOK, Invite
<1>3. \A s \in Clients : Knows(req[s], invites')
  BY <1>1, <1>2, Knowing DEF Ok, Knows
<1>4. RequestsOK'
  BY <1>1, <1>3 DEF Ok, RequestsOK, AllKnow, LocksExclude
<1>5. Stored'
  BY <1>1, <1>2 DEF Ok, Stored
<1>6. OnlyAStaleEditKeepsAccess'
  BY <1>1, <1>2 DEF Ok, OnlyAStaleEditKeepsAccess
<1> QED
  BY <1>1, <1>2, <1>4, <1>5, <1>6 DEF Ok, TypeOK

-----------------------------------------------------------------------------
(***************************************************************************)
(* The backfill.                                                           *)
(***************************************************************************)
\* A commit links the records of its case, whatever else their rows hold by now.
Links(T, c, u) ==
    /\ T \in Tables /\ Applies(T, c) /\ Serializable(T, c)
    /\ u = UserOf(T, c) /\ u \in Users
    /\ db'.users = Applied(T, c).users
    /\ db'.admins = [a \in Admins |-> IF a \in AdminsOf(c) THEN [db.admins[a] EXCEPT !.user = u]
                                      ELSE db.admins[a]]
    /\ db'.barbers = [b \in Barbers |-> IF b \in BarbersOf(c) THEN [db.barbers[b] EXCEPT !.user = u]
                                        ELSE db.barbers[b]]
    /\ db' \in Tables

LEMMA CommitLinks ==
  ASSUME CutoverAssumption, TypeOK, CommitCase
  PROVE  /\ UNCHANGED <<invites, req, reverted>>
         /\ backfill' \in Run /\ backfill'.at = "next"
         /\ UNCHANGED db \/ Links(backfill.seen, backfill.case, UserOf(backfill.seen, backfill.case))
<1> DEFINE T == backfill.seen
           c == backfill.case
           u == UserOf(T, c)
           new == Applied(T, c)
<1>1. UNCHANGED <<invites, req, reverted>> /\ EndCase /\ backfill.at = "case"
  BY DEF CommitCase, Stay
<1>2. backfill' \in Run /\ backfill'.at = "next"
  BY <1>1 DEF EndCase, TypeOK, Run
<1>3. CASE UNCHANGED db
  BY <1>1, <1>2, <1>3
<1>4. CASE ~UNCHANGED db
  <2>1. /\ c \in Cases(T) /\ IsSafe(T, c) /\ Outcome(T, c) = "applied" /\ Serializable(T, c)
        /\ Candidates(T, c) = {} => \E v \in Users : T.users[v].status = "none"
        /\ db' = [users |-> new.users,
                  admins |-> [a \in Admins |-> IF a \in AdminsOf(c)
                                THEN [db.admins[a] EXCEPT !.user = new.admins[a].user] ELSE db.admins[a]],
                  barbers |-> [b \in Barbers |-> IF b \in BarbersOf(c)
                                THEN [db.barbers[b] EXCEPT !.user = new.barbers[b].user] ELSE db.barbers[b]]]
    BY <1>4 DEF CommitCase
  <2>2. T \in Tables /\ db \in Tables
    BY <1>1 DEF TypeOK
  <2>3. Applies(T, c)
    BY <2>1 DEF Applies
  <2>4. u \in Users /\ new.users \in [Users -> User]
    BY <2>2, <2>3, UserOfACase, AppliedUsers
  <2>5. AdminsOf(c) \subseteq Admins /\ BarbersOf(c) \subseteq Barbers
    BY <2>1, CaseRecords
  <2>6. \A a \in AdminsOf(c) : new.admins[a].user = u
    <3>1. \A a \in AdminsOf(c) : new.admins[a] = [T.admins[a] EXCEPT !.user = u]
      BY <2>5 DEF Applied
    <3>2. \A a \in Admins : T.admins[a] \in Admin
      BY <2>2 DEF Tables
    <3> HIDE DEF new, T, c, u
    <3> QED
      BY <2>5, <3>1, <3>2 DEF Admin
  <2>7. \A b \in BarbersOf(c) : new.barbers[b].user = u
    <3>1. \A b \in BarbersOf(c) : new.barbers[b] = [T.barbers[b] EXCEPT !.user = u]
      BY <2>5 DEF Applied
    <3>2. \A b \in Barbers : T.barbers[b] \in Barber
      BY <2>2 DEF Tables
    <3> HIDE DEF new, T, c, u
    <3> QED
      BY <2>5, <3>1, <3>2 DEF Barber
  <2> DEFINE admins == [a \in Admins |-> IF a \in AdminsOf(c) THEN [db.admins[a] EXCEPT !.user = u]
                                         ELSE db.admins[a]]
             barbers == [b \in Barbers |-> IF b \in BarbersOf(c) THEN [db.barbers[b] EXCEPT !.user = u]
                                           ELSE db.barbers[b]]
  <2> HIDE DEF new, T, c, u
  <2>8. db'.admins = admins
    BY <2>1, <2>6
  <2>9. db'.barbers = barbers
    BY <2>1, <2>7
  <2>10. admins \in [Admins -> Admin]
    <3>1. \A a \in Admins : db.admins[a] \in Admin
      BY <2>2 DEF Tables
    <3>2. \A row \in Admin : [row EXCEPT !.user = u] \in Admin
      BY <2>4 DEF Admin
    <3> QED
      BY <3>1, <3>2
  <2>11. barbers \in [Barbers -> Barber]
    <3>1. \A b \in Barbers : db.barbers[b] \in Barber
      BY <2>2 DEF Tables
    <3>2. \A row \in Barber : [row EXCEPT !.user = u] \in Barber
      BY <2>4 DEF Barber
    <3> QED
      BY <3>1, <3>2
  <2>12. db' \in Tables /\ db'.users = new.users
    <3> HIDE DEF admins, barbers
    <3>1. db' = [users |-> new.users, admins |-> admins, barbers |-> barbers]
      BY <2>1, <2>8, <2>9
    <3> QED
      BY <2>4, <2>10, <2>11, <3>1 DEF Tables
  <2>13. Links(T, c, u)
    BY <2>1, <2>2, <2>3, <2>4, <2>8, <2>9, <2>12 DEF Links, new, u
  <2> QED
    BY <1>1, <1>2, <2>13 DEF T, c, u
<1> QED
  BY <1>3, <1>4

LEMMA CommitIsOk ==
  ASSUME CutoverAssumption, Ok, CommitCase
  PROVE  Ok'
<1> DEFINE T == backfill.seen
           c == backfill.case
           u == UserOf(T, c)
<1>1. /\ UNCHANGED <<invites, req, reverted>> /\ backfill' \in Run /\ backfill'.at = "next"
      /\ UNCHANGED db \/ Links(T, c, u)
  BY CommitLinks DEF Ok
<1> HIDE DEF T, c, u
<1>2. /\ db' \in Tables
      /\ \A b \in Barbers : LET row == db'.barbers[b] IN
           /\ row.email = db.barbers[b].email /\ row.pw = db.barbers[b].pw
           /\ row.under = db.barbers[b].under
  <2>1. CASE UNCHANGED db
    BY <2>1 DEF Ok, TypeOK
  <2>2. CASE Links(T, c, u)
    <3>1. db' \in Tables /\ \A b \in Barbers : db.barbers[b] \in Barber
      BY <2>2 DEF Links, Ok, TypeOK, Tables
    <3>2. \A b \in Barbers : db'.barbers[b] \in {db.barbers[b], [db.barbers[b] EXCEPT !.user = u]}
      BY <2>2 DEF Links
    <3> QED
      BY <3>1, <3>2 DEF Barber
  <2> QED
    BY <1>1, <2>1, <2>2
<1>3. RequestsOK' /\ Stored'
  BY <1>1 DEF Ok, RequestsOK, LocksExclude, AllKnow, Stored
<1>4. OnlyAStaleEditKeepsAccess'
  BY <1>1, <1>2 DEF Ok, OnlyAStaleEditKeepsAccess
<1> QED
  BY <1>1, <1>2, <1>3, <1>4 DEF Ok, TypeOK

LEMMA BackfillIsOk ==
  ASSUME CutoverAssumption, Ok, Backfill
  PROVE  Ok'
<1>1. ASSUME UNCHANGED <<db, invites, req, reverted>>, backfill' \in Run,
             backfill'.at = "case" => backfill'.seen \in Tables
      PROVE  Ok'
  BY <1>1 DEF Ok, TypeOK, RequestsOK, LocksExclude, AllKnow, Stored, OnlyAStaleEditKeepsAccess
<1>2. backfill \in Run /\ db \in Tables
  BY DEF Ok, TypeOK
<1>3. CASE StartBackfill
  <2>1. SafeCases(db) \subseteq SUBSET Row
    BY CaseRecords DEF SafeCases
  <2> QED
    BY <1>1, <1>3, <2>1 DEF StartBackfill, Stay, NoRun, Run
<1>4. CASE BeginCase
  <2>1. PICK c \in backfill.cases :
          backfill' = [backfill EXCEPT !.at = "case", !.case = c, !.cases = @ \ {c}, !.seen = db]
    BY <1>4 DEF BeginCase
  <2>2. c \in SUBSET Row /\ backfill.cases \ {c} \in SUBSET SUBSET Row
    BY <1>2 DEF Run
  <2>3. backfill' \in Run /\ backfill'.seen = db
    BY <1>2, <2>1, <2>2 DEF Run
  <2> QED
    BY <1>1, <1>2, <1>4, <2>3 DEF BeginCase, Stay
<1>5. CASE CommitCase
  BY <1>5, CommitIsOk
<1>6. CASE FailCase
  BY <1>1, <1>2, <1>6 DEF FailCase, EndCase, Stay, Run
<1>7. CASE EndBackfill
  BY <1>1, <1>7 DEF EndBackfill, NoRun, Stay, Run
<1> QED
  BY <1>3, <1>4, <1>5, <1>6, <1>7 DEF Backfill

LEMMA StatementsAreOk ==
  ASSUME CutoverAssumption, Ok, NEW s \in Clients, Statement(s) \/ Abort(s)
  PROVE  Ok'
<1>1. CASE LockAdvisory(s)
  <2>1. At(s, "advisory") /\ (Take(s, "replace") \/ Take(s, "row"))
    BY <1>1 DEF LockAdvisory
  <2> QED
    BY <2>1, TakesAreOk
<1>2. CASE LockRow(s)
  <2>1. CASE Take(s, "revoke")
    BY <1>2, <2>1, TakesAreOk DEF LockRow
  <2>2. CASE ~Take(s, "revoke")
    BY <1>2, <2>2, EndsAreOk DEF LockRow
  <2> QED
    BY <2>1, <2>2
<1>3. CASE ClaimInvite(s)
  <2>1. CASE invites[req[s].invite].state = "open"
    BY <1>3, <2>1, TakesAreOk DEF ClaimInvite
  <2>2. CASE invites[req[s].invite].state # "open"
    BY <1>3, <2>2, EndsAreOk DEF ClaimInvite
  <2> QED
    BY <2>1, <2>2
<1>4. CASE Abort(s)
  BY <1>4, EndsAreOk DEF Abort
<1> QED
  BY <1>1, <1>2, <1>3, <1>4, ReplaceIsOk, RevokeIsOk, UpdateIsOk, SetPasswordIsOk DEF Statement

LEMMA OkStep ==
  ASSUME CutoverAssumption, Ok, [Next]_vars
  PROVE  Ok'
<1>1. CASE UNCHANGED vars
  BY <1>1 DEF vars, Ok, TypeOK, RequestsOK, LocksExclude, AllKnow, Stored, OnlyAStaleEditKeepsAccess
<1>2. CASE Next
  BY <1>2, StartsAreOk, StatementsAreOk, ExpireIsOk, BackfillIsOk DEF Next
<1> QED
  BY <1>1, <1>2

LEMMA OkInit ==
  ASSUME CutoverAssumption, Init
  PROVE  Ok
<1>1. PICK start \in Installations : db = start.db /\ invites = start.invites
  BY DEF Init
<1>2. Installed(start)
  BY DEF CutoverAssumption
<1>3. db \in Tables /\ invites \in [Invites -> Invite]
  BY <1>1, <1>2 DEF Installed
<1>4. RequestsOK
  <2>1. Idle \in Request /\ Idle.held = {} /\ Idle.at = "idle"
    BY DEF Idle, Request
  <2>2. \A s \in Clients : req[s] = Idle
    BY DEF Init
  <2>3. req \in [Clients -> Request]
    BY <2>1 DEF Init
  <2> QED
    BY <2>1, <2>2, <2>3 DEF RequestsOK, LocksExclude, AllKnow, Knows
<1>5. Stored
  BY <1>1, <1>2 DEF Stored, Installed
<1>6. OnlyAStaleEditKeepsAccess
  BY <1>1, <1>2 DEF OnlyAStaleEditKeepsAccess, Installed
<1>7. backfill \in Run /\ backfill.at = "idle" /\ reverted = {}
  BY DEF Init, NoRun, Run
<1> QED
  BY <1>3, <1>4, <1>5, <1>6, <1>7 DEF Ok, TypeOK

\* Every invite that can be accepted, and every password in force, was issued for the email
\* the barber has, except for the barbers whose email an edit put back (storage.ts:908).
THEOREM StaleEditsAlone ==
  ASSUME CutoverAssumption
  PROVE  Spec => []OnlyAStaleEditKeepsAccess
<1>1. Init => Ok
  BY OkInit
<1>2. Ok /\ [Next]_vars => Ok'
  BY OkStep
<1>3. Ok => OnlyAStaleEditKeepsAccess
  BY DEF Ok
<1> QED
  BY <1>1, <1>2, <1>3, PTL DEF Spec

-----------------------------------------------------------------------------
(***************************************************************************)
(* Records and their users.                                                *)
(***************************************************************************)
\* No two users share an identifier, and a user logs in with a password.
UsersAreDistinct(T) == \A u, v \in Users : u # v => Keys(T, u) \cap Keys(T, v) = {}
UsersLogIn(T) ==
    \A u \in Users : \/ T.users[u] = Absent
                     \/ T.users[u].status = "active" /\ T.users[u].pw # 0

\* A linked administrator is the user as it was linked: nothing writes either row after.
AdminsAreUsers(T) ==
    \A a \in Admins : T.admins[a].user # None =>
        LET u == T.admins[a].user IN
        /\ Exists(T, a) /\ IsUser(T, u) /\ T.users[u].administrator
        /\ T.users[u].username = T.admins[a].username /\ T.users[u].pw = T.admins[a].pw

\* A linked barber may have lost the password, or have set a newer one.
BarbersAreUsers(T) ==
    \A b \in Barbers : T.barbers[b].user # None =>
        LET u == T.barbers[b].user IN
        /\ IsUser(T, u)
        /\ T.barbers[b].pw # 0 => T.users[u].pw <= T.barbers[b].pw

Linked(T) == UsersAreDistinct(T) /\ UsersLogIn(T) /\ AdminsAreUsers(T) /\ BarbersAreUsers(T)

\* What a transaction of the backfill has read and the requests do not change.
AsSeen == backfill.at = "case" =>
    LET T == backfill.seen IN
    /\ T.users = db.users
    /\ \A b \in Barbers : T.barbers[b].user = db.barbers[b].user
    /\ \A a \in Admins : Exists(T, a) => T.admins[a] = db.admins[a]

LEMMA WritesKeepLinks ==
  ASSUME CutoverAssumption, TypeOK, Linked(db), AsSeen, backfill' = backfill,
         NEW b, NEW row, Writes(b, row)
  PROVE  Linked(db') /\ AsSeen' /\ \A x \in Barbers : db'.barbers[x].user = db.barbers[x].user
<1>1. /\ db'.users = db.users /\ db'.admins = db.admins /\ b \in Barbers
      /\ row.user = db.barbers[b].user /\ row \in Barber
      /\ row.pw \in {db.barbers[b].pw, 0, NewPassword(db)}
      /\ \A x \in Barbers : db'.barbers[x] = IF x = b THEN row ELSE db.barbers[x]
  BY DEF Writes, TypeOK, Tables
<1>2. UsersAreDistinct(db') /\ UsersLogIn(db') /\ AdminsAreUsers(db')
  <2>1. UsersAreDistinct(db') /\ UsersLogIn(db')
    BY <1>1 DEF Linked, UsersAreDistinct, UsersLogIn, Keys
  <2>2. AdminsAreUsers(db')
    BY <1>1 DEF Linked, AdminsAreUsers, IsUser, Exists
  <2> QED
    BY <2>1, <2>2
<1>3. \A u \in Users : db.users[u].pw \in Nat /\ db.users[u].pw < NewPassword(db)
  BY <1>1, NewPasswordIsNew DEF TypeOK, Tables, User, Passwords
<1>4. ASSUME NEW x \in Barbers, db'.barbers[x].user # None
      PROVE  LET u == db'.barbers[x].user IN
             /\ IsUser(db', u)
             /\ db'.barbers[x].pw # 0 => db'.users[u].pw <= db'.barbers[x].pw
  <2>1. db'.barbers[x].user = db.barbers[x].user
    BY <1>1
  <2>2. /\ IsUser(db, db.barbers[x].user)
        /\ db.barbers[x].pw # 0 => db.users[db.barbers[x].user].pw <= db.barbers[x].pw
    BY <1>4, <2>1 DEF Linked, BarbersAreUsers
  <2>3. CASE x # b
    BY <1>1, <2>2, <2>3 DEF IsUser
  <2>4. CASE x = b
    <3>1. CASE row.pw = db.barbers[b].pw
      BY <1>1, <2>2, <2>4, <3>1 DEF IsUser
    <3>2. CASE row.pw = 0
      BY <1>1, <2>2, <2>4, <3>2 DEF IsUser
    <3>3. CASE row.pw = NewPassword(db)
      <4>1. db.barbers[x].user \in Users
        BY <2>2 DEF IsUser
      <4>2. db.users[db.barbers[x].user].pw <= row.pw
        <5>1. NewPassword(db) \in Nat
          BY <1>1, NewPasswordIsNew DEF TypeOK
        <5> QED
          BY <1>3, <3>3, <4>1, <5>1
      <4> QED
        BY <1>1, <2>2, <2>4, <4>2 DEF IsUser
    <3> QED
      BY <1>1, <3>1, <3>2, <3>3
  <2> QED
    BY <2>3, <2>4
<1>5. BarbersAreUsers(db')
  BY <1>4 DEF BarbersAreUsers
<1>6. \A x \in Barbers : db'.barbers[x].user = db.barbers[x].user
  BY <1>1
<1>7. AsSeen'
  BY <1>1, <1>6 DEF AsSeen
<1> QED
  BY <1>2, <1>5, <1>6, <1>7 DEF Linked

LEMMA CreatesKeepLinks ==
  ASSUME CutoverAssumption, TypeOK, Linked(db), AsSeen,
         NEW s \in Clients, NEW a \in Admins, CreateAdmin(s, a)
  PROVE  Linked(db') /\ AsSeen' /\ db'.barbers = db.barbers
<1>1. PICK row \in Admin :
        /\ ~Exists(db, a) /\ row.user = None
        /\ db'.admins = [db.admins EXCEPT ![a] = row]
        /\ db'.barbers = db.barbers /\ db'.users = db.users
  BY CreateWrites
<1>2. \A x \in Admins : db'.admins[x] = IF x = a THEN row ELSE db.admins[x]
  BY <1>1 DEF TypeOK, Tables
<1>3. UsersAreDistinct(db') /\ UsersLogIn(db') /\ BarbersAreUsers(db')
  BY <1>1 DEF Linked, UsersAreDistinct, UsersLogIn, BarbersAreUsers, Keys, IsUser
<1>4. AdminsAreUsers(db')
  BY <1>1, <1>2 DEF Linked, AdminsAreUsers, IsUser, Exists
<1>5. AsSeen'
  <2>1. backfill' = backfill
    BY DEF CreateAdmin
  <2> QED
    BY <1>1, <1>2, <2>1 DEF AsSeen, Exists
<1> QED
  BY <1>1, <1>3, <1>4, <1>5 DEF Linked

\* The user of a case is free, or is as the case says and stays so.
LEMMA UserOfLinks ==
  ASSUME CutoverAssumption, NEW T, NEW c, NEW u, Links(T, c, u), T.users = db.users, Linked(db)
  PROVE  LET id == Identity(T, c) IN
         /\ db'.users \in [Users -> User] /\ IsUser(db', u)
         /\ \A v \in Users \ {u} : db'.users[v] = db.users[v]
         /\ db'.users[u].status = "active" /\ db'.users[u].pw = id.pw
         /\ db'.users[u].email = id.email /\ db'.users[u].username = id.username
         /\ AdminsOf(c) # {} => db'.users[u].administrator
         /\ \/ /\ db.users[u] = Absent
               /\ \A v \in Users : Keys(db, v) \cap ({id.email, id.username} \ {None}) = {}
            \/ /\ IsUser(db, u)
               /\ \A f \in {"pw", "email", "username"} : db'.users[u][f] = db.users[u][f]
               /\ db.users[u].administrator => db'.users[u].administrator
<1> DEFINE id == Identity(T, c)
           keys == {id.email, id.username} \ {None}
<1>1. /\ T \in Tables /\ Applies(T, c) /\ u = UserOf(T, c) /\ u \in Users
      /\ db'.users = Applied(T, c).users
  BY DEF Links
<1>2. /\ db'.users \in [Users -> User]
      /\ \A v \in Users \ {u} : db'.users[v] = db.users[v]
      /\ db'.users[u].status = "active" /\ db'.users[u].pw = id.pw
      /\ db'.users[u].email = id.email /\ db'.users[u].username = id.username
      /\ (IsUser(T, u) /\ T.users[u].administrator) \/ AdminsOf(c) # {} => db'.users[u].administrator
  BY <1>1, AppliedUsers
<1>3. CASE Candidates(T, c) = {}
  <2>1. db.users[u] = Absent
    BY <1>1, <1>3, UserOfACase DEF Linked, UsersLogIn
  <2>2. ASSUME NEW v \in Users PROVE Keys(db, v) \cap keys = {}
    <3>1. CASE db.users[v].status = "none"
      <4>1. db.users[v] = Absent
        BY <3>1 DEF Linked, UsersLogIn
      <4> QED
        BY <4>1 DEF Keys, Absent
    <3>2. CASE db.users[v].status # "none"
      <4>1. {T.users[v].email, T.users[v].username} \cap keys = {}
        BY <1>3, <3>2 DEF Candidates
      <4> QED
        BY <4>1 DEF Keys
    <3> QED
      BY <3>1, <3>2
  <2> HIDE DEF id
  <2> QED
    BY <1>1, <1>2, <2>1, <2>2 DEF IsUser, id
<1>4. CASE Candidates(T, c) # {}
  <2>1. u \in Candidates(T, c) /\ IsCompatible(T, c, u)
    BY <1>1, <1>4, UserOfACase
  <2>2. IsUser(db, u) /\ IsUser(T, u)
    BY <2>1 DEF Candidates, IsUser
  <2>3. db.users[u].pw = id.pw /\ db.users[u].email = id.email /\ db.users[u].username = id.username
    BY <2>1 DEF IsCompatible
  <2> HIDE DEF id
  <2>4. \A f \in {"pw", "email", "username"} : db'.users[u][f] = db.users[u][f]
    BY <1>2, <2>3
  <2> QED
    BY <1>1, <1>2, <2>2, <2>4 DEF IsUser, id
<1> QED
  BY <1>3, <1>4

\* What a user was linked to before stays right.
LEMMA LinkedUsersStay ==
  ASSUME CutoverAssumption, NEW T, NEW c, NEW u, Links(T, c, u), T.users = db.users, Linked(db),
         NEW v, IsUser(db, v)
  PROVE  /\ IsUser(db', v)
         /\ \A f \in {"pw", "email", "username"} : db'.users[v][f] = db.users[v][f]
         /\ db.users[v].administrator => db'.users[v].administrator
<1>1. CASE v = u
  <2>1. db.users[u] # Absent
    BY <1>1 DEF IsUser, Absent
  <2> QED
    BY <1>1, <2>1, UserOfLinks
<1>2. CASE v # u
  BY <1>2, UserOfLinks DEF IsUser
<1> QED
  BY <1>1, <1>2

LEMMA UsersStayDistinct ==
  ASSUME CutoverAssumption, NEW T, NEW c, NEW u, Links(T, c, u), T.users = db.users, Linked(db)
  PROVE  UsersAreDistinct(db')
<1> DEFINE id == Identity(T, c)
           keys == {id.email, id.username} \ {None}
<1>1. \A v \in Users \ {u} : Keys(db', v) = Keys(db, v)
  BY UserOfLinks DEF Keys
<1>2. Keys(db', u) = keys
  BY UserOfLinks DEF Keys
<1>3. \A v \in Users \ {u} : Keys(db', u) \cap Keys(db, v) = {}
  <2>1. CASE db.users[u] = Absent
    <3>1. \A v \in Users : Keys(db, v) \cap keys = {}
      <4>1. ~IsUser(db, u)
        BY <2>1 DEF IsUser, Absent
      <4> QED
        BY <4>1, UserOfLinks
    <3> HIDE DEF keys
    <3> QED
      BY <1>2, <3>1
  <2>2. CASE db.users[u] # Absent
    <3>1. Keys(db', u) = Keys(db, u)
      BY <2>2, UserOfLinks DEF Keys
    <3> QED
      BY <3>1 DEF Linked, UsersAreDistinct, Links
  <2> QED
    BY <2>1, <2>2
<1>4. u \in Users
  BY DEF Links
<1> HIDE DEF keys, id
<1> SUFFICES ASSUME NEW v \in Users, NEW w \in Users, v # w
             PROVE  Keys(db', v) \cap Keys(db', w) = {}
  BY DEF UsersAreDistinct
<1>5. CASE v = u
  BY <1>1, <1>3, <1>5
<1>6. CASE w = u
  BY <1>1, <1>3, <1>6
<1>7. CASE v # u /\ w # u
  BY <1>1, <1>7 DEF Linked, UsersAreDistinct
<1> QED
  BY <1>5, <1>6, <1>7

\* A barber is linked with the password and the email that it has, although both were read
\* before: the row is locked as it was read.
LEMMA BarberAsItIs ==
  ASSUME CutoverAssumption, NEW T, NEW c, NEW u, Links(T, c, u), T.users = db.users, Linked(db),
         NEW b \in BarbersOf(c), T.barbers[b].user = None
  PROVE  /\ db.barbers[b] = T.barbers[b]
         /\ db'.users[u].pw = db.barbers[b].pw
         /\ db.barbers[b].email \in Keys(db', u)
<1>1. /\ T \in Tables /\ c \in Cases(T) /\ IsSafe(T, c) /\ Serializable(T, c)
      /\ HasLogin(T, c)
  BY UserOfACase DEF Links, Applies
<1>2. db.barbers[b] = T.barbers[b]
  BY <1>1 DEF Serializable, ToLink
<1>3. T.barbers[b].pw = Identity(T, c).pw /\ T.barbers[b].email = Identity(T, c).email
  BY <1>1, BarberIsKnown
<1>4. Identity(T, c).email # None
  BY <1>1, IdentityOfACase DEF CutoverAssumption
<1> QED
  BY <1>2, <1>3, <1>4, UserOfLinks DEF Keys

LEMMA LinksKeepLinks ==
  ASSUME CutoverAssumption, TypeOK, Linked(db), AsSeen, backfill.at = "case",
         NEW T, T = backfill.seen, NEW c, NEW u, Links(T, c, u)
  PROVE  Linked(db')
<1>1. /\ T \in Tables /\ c \in Cases(T) /\ IsSafe(T, c) /\ HasLogin(T, c)
      /\ u \in Users /\ u = UserOf(T, c)
  BY UserOfACase DEF Links, Applies
<1>2. /\ T.users = db.users
      /\ \A b \in Barbers : T.barbers[b].user = db.barbers[b].user
      /\ \A a \in Admins : Exists(T, a) => T.admins[a] = db.admins[a]
  BY DEF AsSeen
<1>3. UsersLogIn(db')
  <2>1. db'.users[u].status = "active" /\ db'.users[u].pw # 0
    BY <1>1, <1>2, UserOfLinks, IdentityOfACase
  <2> QED
    BY <1>2, <2>1, UserOfLinks DEF Linked, UsersLogIn
<1>4. AdminsAreUsers(db')
  <2> SUFFICES ASSUME NEW a \in Admins, db'.admins[a].user # None
               PROVE  LET v == db'.admins[a].user IN
                      /\ Exists(db', a) /\ IsUser(db', v) /\ db'.users[v].administrator
                      /\ db'.users[v].username = db'.admins[a].username
                      /\ db'.users[v].pw = db'.admins[a].pw
    BY DEF AdminsAreUsers
  <2>1. CASE a \in AdminsOf(c)
    <3>1. db.admins[a] \in Admin /\ db'.admins[a] = [db.admins[a] EXCEPT !.user = u]
      BY <2>1 DEF Links, TypeOK, Tables
    <3>2. /\ db'.admins[a].user = u /\ db'.admins[a].username = db.admins[a].username
          /\ db'.admins[a].pw = db.admins[a].pw
      BY <3>1 DEF Admin
    <3>3. Exists(T, a) /\ T.admins[a] = db.admins[a]
      BY <1>1, <1>2, <2>1, CaseRecords
    <3>4. T.admins[a].pw \in Hashes(T, c)
      BY <1>1, <2>1, SafeRecords DEF Hashes
    <3>5. /\ Identity(T, c).pw = db.admins[a].pw
          /\ Identity(T, c).username = db.admins[a].username
      BY <1>1, <2>1, <3>3, <3>4, IdentityOfACase
    <3> QED
      BY <1>2, <2>1, <3>2, <3>3, <3>5, UserOfLinks DEF Exists
  <2>2. CASE a \notin AdminsOf(c)
    <3>1. db'.admins[a] = db.admins[a]
      BY <2>2 DEF Links
    <3>2. LET v == db.admins[a].user IN
            /\ Exists(db, a) /\ IsUser(db, v) /\ db.users[v].administrator
            /\ db.users[v].username = db.admins[a].username
            /\ db.users[v].pw = db.admins[a].pw
      BY <3>1 DEF Linked, AdminsAreUsers
    <3> QED
      BY <1>2, <3>1, <3>2, LinkedUsersStay DEF Exists
  <2> QED
    BY <2>1, <2>2
<1>5. BarbersAreUsers(db')
  <2> SUFFICES ASSUME NEW b \in Barbers, db'.barbers[b].user # None
               PROVE  LET v == db'.barbers[b].user IN
                      /\ IsUser(db', v)
                      /\ db'.barbers[b].pw # 0 => db'.users[v].pw <= db'.barbers[b].pw
    BY DEF BarbersAreUsers
  <2>1. db.barbers[b] \in Barber
    BY DEF TypeOK, Tables
  <2>2. CASE b \in BarbersOf(c) /\ T.barbers[b].user = None
    <3>1. db'.barbers[b] = [db.barbers[b] EXCEPT !.user = u]
      BY <2>2 DEF Links
    <3>2. db'.barbers[b].user = u /\ db'.barbers[b].pw = db.barbers[b].pw
      BY <2>1, <3>1 DEF Barber
    <3>3. db'.users[u].pw = db.barbers[b].pw /\ db.barbers[b].pw \in Nat
      BY <1>2, <2>1, <2>2, BarberAsItIs DEF Barber
    <3> QED
      BY <1>2, <3>2, <3>3, UserOfLinks
  <2>3. CASE ~(b \in BarbersOf(c) /\ T.barbers[b].user = None)
    <3>1. db'.barbers[b].user = db.barbers[b].user /\ db'.barbers[b].pw = db.barbers[b].pw
      <4>1. CASE b \in BarbersOf(c)
        <5>1. db'.barbers[b] = [db.barbers[b] EXCEPT !.user = u]
          BY <4>1 DEF Links
        <5>2. db.barbers[b].user # None
          BY <1>2, <2>3, <4>1
        <5>3. IsUser(T, db.barbers[b].user)
          BY <1>2, <5>2 DEF Linked, BarbersAreUsers, IsUser
        <5>4. db.barbers[b].user \in LinkedUsers(T, c)
          BY <1>2, <4>1, <5>2 DEF LinkedUsers
        <5>5. db.barbers[b].user \in Candidates(T, c)
          BY <5>3, <5>4 DEF Candidates, IsUser
        <5>6. Candidates(T, c) = {u}
          BY <1>1, <5>5, UserOfACase DEF Links
        <5> QED
          BY <2>1, <5>1, <5>5, <5>6 DEF Barber
      <4>2. CASE b \notin BarbersOf(c)
        BY <4>2 DEF Links
      <4> QED
        BY <4>1, <4>2
    <3>2. LET v == db.barbers[b].user IN
            /\ IsUser(db, v)
            /\ db.barbers[b].pw # 0 => db.users[v].pw <= db.barbers[b].pw
      BY <3>1 DEF Linked, BarbersAreUsers
    <3> QED
      BY <1>2, <3>1, <3>2, LinkedUsersStay
  <2> QED
    BY <2>2, <2>3
<1> QED
  BY <1>2, <1>3, <1>4, <1>5, UsersStayDistinct DEF Linked

-----------------------------------------------------------------------------
(***************************************************************************)
(* What the backfill links, and what READY means.                          *)
(***************************************************************************)
Safe == Ok /\ Linked(db) /\ AsSeen

\* Barbers are linked as they are in this step.
LinksAsTheyAre ==
    \A b \in Barbers : db.barbers[b].user = None /\ db'.barbers[b].user # None =>
         LET row == db'.barbers[b] IN
         /\ db'.users[row.user].pw = row.pw
         /\ row.email \in Keys(db', row.user)

LEMMA RowsKeepLinks ==
  ASSUME CutoverAssumption, Safe, backfill' = backfill,
         db' = db \/ \E b, row : Writes(b, row)
  PROVE  Linked(db') /\ AsSeen' /\ LinksAsTheyAre
<1>1. CASE db' = db
  BY <1>1 DEF Safe, AsSeen, LinksAsTheyAre
<1>2. CASE \E b, row : Writes(b, row)
  <2>1. PICK b, row : Writes(b, row)
    BY <1>2
  <2>2. Linked(db') /\ AsSeen' /\ \A x \in Barbers : db'.barbers[x].user = db.barbers[x].user
    BY <2>1, WritesKeepLinks DEF Safe, Ok
  <2> QED
    BY <2>2 DEF LinksAsTheyAre
<1> QED
  BY <1>1, <1>2

LEMMA RequestsKeepLinks ==
  ASSUME CutoverAssumption, Safe, NEW s \in Clients, Start(s) \/ Statement(s) \/ Abort(s)
  PROVE  Linked(db') /\ AsSeen' /\ LinksAsTheyAre
<1>1. TypeOK /\ RequestsOK /\ Linked(db) /\ AsSeen
  BY DEF Safe, Ok
<1>2. CASE \E a \in Admins : CreateAdmin(s, a)
  <2>1. PICK a \in Admins : CreateAdmin(s, a)
    BY <1>2
  <2>2. Linked(db') /\ AsSeen' /\ db'.barbers = db.barbers
    BY <1>1, <2>1, CreatesKeepLinks, Zenon
  <2> QED
    BY <2>2 DEF LinksAsTheyAre
<1>3. CASE Start(s) /\ ~\E a \in Admins : CreateAdmin(s, a)
  BY <1>3, RowsKeepLinks DEF Start, StartInvite, StartEdit, StartReset, StartAccept, Begin
<1>4. CASE RevokeAccess(s)
  <2>1. backfill' = backfill
    BY <1>4 DEF RevokeAccess
  <2>2. \E b, row : Writes(b, row)
    BY <1>1, <1>4, RevokeWrites
  <2> QED
    BY <2>1, <2>2, RowsKeepLinks
<1>5. CASE Update(s)
  <2>1. backfill' = backfill
    BY <1>5 DEF Update
  <2>2. db' = db \/ \E b, row : Writes(b, row)
    BY <1>1, <1>5, UpdateWrites
  <2> QED
    BY <2>1, <2>2, RowsKeepLinks
<1>6. CASE SetPassword(s)
  <2>1. backfill' = backfill
    BY <1>6 DEF SetPassword
  <2>2. \E b, row : Writes(b, row)
    BY <1>1, <1>6, SetPasswordWrites
  <2> QED
    BY <2>1, <2>2, RowsKeepLinks
<1>7. CASE LockAdvisory(s) \/ ReplaceInvite(s) \/ LockRow(s) \/ ClaimInvite(s) \/ Abort(s)
  BY <1>7, RowsKeepLinks DEF LockAdvisory, ReplaceInvite, LockRow, ClaimInvite, Abort, Take
<1> QED
  BY <1>2, <1>3, <1>4, <1>5, <1>6, <1>7 DEF Statement

LEMMA CommitKeepsLinks ==
  ASSUME CutoverAssumption, Safe, CommitCase
  PROVE  Linked(db') /\ AsSeen' /\ LinksAsTheyAre
<1> DEFINE T == backfill.seen
           c == backfill.case
           u == UserOf(T, c)
<1>1. TypeOK /\ Linked(db) /\ AsSeen /\ backfill.at = "case"
  BY DEF Safe, Ok, CommitCase
<1>2. backfill'.at = "next" /\ (UNCHANGED db \/ Links(T, c, u))
  BY <1>1, CommitLinks
<1>3. AsSeen'
  BY <1>2 DEF AsSeen
<1>4. CASE UNCHANGED db
  BY <1>1, <1>3, <1>4 DEF LinksAsTheyAre
<1>5. CASE Links(T, c, u)
  <2>1. Linked(db')
    BY <1>1, <1>5, LinksKeepLinks
  <2> SUFFICES ASSUME NEW b \in Barbers, db.barbers[b].user = None, db'.barbers[b].user # None
               PROVE  LET row == db'.barbers[b] IN
                      db'.users[row.user].pw = row.pw /\ row.email \in Keys(db', row.user)
    BY <1>3, <2>1 DEF LinksAsTheyAre
  <2>2. T.users = db.users /\ T.barbers[b].user = None
    BY <1>1 DEF AsSeen
  <2> HIDE DEF T, c, u
  <2>3. b \in BarbersOf(c) /\ db'.barbers[b] = [db.barbers[b] EXCEPT !.user = u]
    BY <1>5 DEF Links
  <2>4. db.barbers[b] \in Barber
    BY <1>1 DEF TypeOK, Tables
  <2>5. LET row == db'.barbers[b] IN
        row.user = u /\ row.pw = db.barbers[b].pw /\ row.email = db.barbers[b].email
    BY <2>3, <2>4 DEF Barber
  <2>6. db'.users[u].pw = db.barbers[b].pw /\ db.barbers[b].email \in Keys(db', u)
    BY <1>1, <1>5, <2>2, <2>3, BarberAsItIs
  <2> QED
    BY <2>5, <2>6
<1> QED
  BY <1>2, <1>4, <1>5

LEMMA SafeStep ==
  ASSUME CutoverAssumption, Safe, [Next]_vars
  PROVE  Safe' /\ LinksAsTheyAre
<1>1. Ok'
  BY OkStep DEF Safe
<1>2. CASE UNCHANGED vars
  BY <1>2, RowsKeepLinks, <1>1 DEF vars, Safe
<1>3. CASE \E s \in Clients : Start(s) \/ Statement(s) \/ Abort(s)
  BY <1>1, <1>3, RequestsKeepLinks DEF Safe
<1>4. CASE \E i \in Invites : Expire(i)
  BY <1>1, <1>4, RowsKeepLinks DEF Expire, Safe
<1>5. CASE Backfill
  <2>1. CASE CommitCase
    BY <1>1, <2>1, CommitKeepsLinks DEF Safe
  <2>2. CASE BeginCase
    BY <1>1, <2>2 DEF BeginCase, Safe, AsSeen, LinksAsTheyAre, Ok, TypeOK, Run
  <2>3. CASE StartBackfill \/ FailCase \/ EndBackfill
    <3>1. db' = db /\ backfill'.at # "case"
      <4>1. CASE StartBackfill
        BY <4>1 DEF StartBackfill, NoRun
      <4>2. CASE FailCase
        BY <4>2 DEF FailCase, EndCase, Safe, Ok, TypeOK, Run
      <4>3. CASE EndBackfill
        BY <4>3 DEF EndBackfill, NoRun
      <4> QED
        BY <2>3, <4>1, <4>2, <4>3
    <3> QED
      BY <1>1, <3>1 DEF Safe, AsSeen, LinksAsTheyAre
  <2> QED
    BY <1>5, <2>1, <2>2, <2>3 DEF Backfill
<1> QED
  BY <1>2, <1>3, <1>4, <1>5 DEF Next

LEMMA SafeInit ==
  ASSUME CutoverAssumption, Init
  PROVE  Safe
<1>1. PICK start \in Installations : db = start.db
  BY DEF Init
<1>2. /\ \A u \in Users : db.users[u] = Absent
      /\ \A a \in Admins : db.admins[a].user = None
      /\ \A b \in Barbers : db.barbers[b].user = None
  BY <1>1 DEF CutoverAssumption, Installed
<1>3. Linked(db)
  <2>1. \A u \in Users : Keys(db, u) = {}
    BY <1>2 DEF Keys, Absent
  <2> QED
    BY <1>2, <2>1 DEF Linked, UsersAreDistinct, UsersLogIn, AdminsAreUsers, BarbersAreUsers
<1>4. AsSeen
  BY DEF Init, NoRun, AsSeen
<1> QED
  BY <1>3, <1>4, OkInit DEF Safe

\* The backfill gives each record a user of its own, and nothing it links comes apart after
\* (auth-legacy-backfill.ts): the inductive invariant of the theorems below.
THEOREM UsersStayLinked ==
  ASSUME CutoverAssumption
  PROVE  Spec => []Safe
<1>1. Init => Safe
  BY SafeInit
<1>2. Safe /\ [Next]_vars => Safe'
  BY SafeStep
<1> QED
  BY <1>1, <1>2, PTL DEF Spec

\* With the links and the users as they are, and what the readiness check asks of both.
LEMMA ReadyMeansLogins ==
  ASSUME CutoverAssumption, Safe, Ready(db)
  PROVE  /\ \A a \in Admins : Exists(db, a) =>
              /\ SameLogin(db.admins[a].username, db.admins[a])
              /\ db.users[db.admins[a].user].administrator
         /\ \A b \in Barbers : LET row == db.barbers[b] IN
              row.visible /\ row.email # None /\ row.pw # 0 =>
                /\ SameLogin(row.email, row)
                /\ db.users[row.user].administrator \/ db.users[row.user].places # {}
<1>1. db \in Tables /\ Linked(db)
  BY DEF Safe, Ok, TypeOK
<1>2. LoginsAreLinked(db) /\ LinksMatch(db) /\ UsersAreCoherent(db)
  BY DEF Ready
<1>3. ASSUME NEW u, IsUser(db, u)
      PROVE  /\ u \in Users /\ db.users[u].status = "active" /\ db.users[u].pw \in Nat \ {0}
             /\ \A x \in Keys(db, u) : {v \in Users : x \in Keys(db, v)} = {u}
  <2>1. u \in Users /\ db.users[u] # Absent /\ db.users[u] \in User
    BY <1>1, <1>3 DEF IsUser, Absent, Tables
  <2>2. db.users[u].status = "active" /\ db.users[u].pw \in Nat \ {0}
    BY <1>1, <2>1 DEF Linked, UsersLogIn, User
  <2>3. \A v \in Users \ {u} : Keys(db, u) \cap Keys(db, v) = {}
    BY <1>1, <2>1 DEF Linked, UsersAreDistinct
  <2> QED
    BY <2>1, <2>2, <2>3
<1>4. ASSUME NEW a \in Admins, Exists(db, a)
      PROVE  /\ SameLogin(db.admins[a].username, db.admins[a])
             /\ db.users[db.admins[a].user].administrator
  <2> DEFINE row == db.admins[a]
             u == row.user
  <2>1. u # None
    BY <1>2, <1>4 DEF LoginsAreLinked
  <2>2. /\ IsUser(db, u) /\ db.users[u].administrator
        /\ db.users[u].username = row.username /\ db.users[u].pw = row.pw
    BY <1>1, <2>1 DEF Linked, AdminsAreUsers
  <2>3. row.username \in Keys(db, u)
    BY <1>4, <2>2 DEF Keys, Exists
  <2>4. /\ u \in Users /\ db.users[u].status = "active" /\ db.users[u].pw \in Nat \ {0}
        /\ {v \in Users : row.username \in Keys(db, v)} = {u}
    BY <1>3, <2>2, <2>3
  <2>5. db.users[u].pw \in 1..row.pw
    <3>1. row.pw \in Nat /\ 1 <= row.pw
      BY <2>2, <2>4
    <3>2. row.pw \in 1..row.pw
      BY <3>1
    <3> QED
      BY <2>2, <3>2
  <2> QED
    BY <2>1, <2>2, <2>4, <2>5 DEF SameLogin
<1>5. ASSUME NEW b \in Barbers, db.barbers[b].email # None, db.barbers[b].pw # 0
      PROVE  LET row == db.barbers[b] IN
             /\ SameLogin(row.email, row)
             /\ db.users[row.user].administrator \/ db.users[row.user].places # {}
  <2> DEFINE row == db.barbers[b]
             u == row.user
  <2>1. u # None
    BY <1>2, <1>5 DEF LoginsAreLinked
  <2>2. IsUser(db, u) /\ db.users[u].pw <= row.pw
    BY <1>1, <1>5, <2>1 DEF Linked, BarbersAreUsers
  <2>3. row.email \in Keys(db, u)
    BY <1>2, <1>5, <2>1 DEF LinksMatch
  <2>4. /\ u \in Users /\ db.users[u].status = "active" /\ db.users[u].pw \in Nat \ {0}
        /\ {v \in Users : row.email \in Keys(db, v)} = {u}
    BY <1>3, <2>2, <2>3
  <2>5. row.pw \in Nat
    BY <1>1 DEF Tables, Barber
  <2>6. db.users[u].pw \in 1..row.pw
    BY <2>2, <2>4, <2>5
  <2>7. u \in ActiveUsers(db)
    BY <2>4 DEF ActiveUsers
  <2>8. db.users[u].administrator \/ db.users[u].places # {}
    BY <1>2, <2>7 DEF UsersAreCoherent
  <2> QED
    BY <2>1, <2>4, <2>6, <2>8 DEF SameLogin
<1> QED
  BY <1>4, <1>5

\* READY means that every login survives the change of mode: with its identifier, with the
\* password it has or an older one, and with the rights of its role
\* (auth-cutover-check.ts).  The check compares identifiers, statuses and rights; that the
\* user has the record's password is what the backfill guarantees.
THEOREM ReadyMeansReady ==
  ASSUME CutoverAssumption
  PROVE  Spec => []ReadyKeepsLogins
<1>1. Safe => ReadyKeepsLogins
  BY ReadyMeansLogins DEF ReadyKeepsLogins
<1> QED
  BY <1>1, UsersStayLinked, PTL

\* The backfill links a barber to a user with the password and the email that the barber
\* has at that moment (auth-legacy-backfill.ts), whatever requests change in between.
THEOREM TheBackfillLinksWhatIs ==
  ASSUME CutoverAssumption
  PROVE  Spec => LinkedAsTheyAre
<1>1. Safe /\ [Next]_vars =>
        [\A b \in Barbers : db.barbers[b].user = None /\ db'.barbers[b].user # None =>
           LET row == db'.barbers[b] IN
           /\ db'.users[row.user].pw = row.pw
           /\ row.email \in Keys(db', row.user)]_vars
  BY SafeStep DEF LinksAsTheyAre
<1> QED
  BY <1>1, UsersStayLinked, PTL DEF Spec, LinkedAsTheyAre

-----------------------------------------------------------------------------
(***************************************************************************)
(* One case at a time.                                                     *)
(***************************************************************************)
\* Every link leads to a user.
LinksLead(T) ==
    /\ \A a \in Admins : T.admins[a].user # None => IsUser(T, T.admins[a].user)
    /\ \A b \in Barbers : T.barbers[b].user # None => IsUser(T, T.barbers[b].user)

\* What shares an identifier with a member of a component is a member.
LEMMA ComponentIsClosed ==
  ASSUME NEW T, NEW r \in Records(T), NEW x \in Component(T, r), NEW y \in Records(T),
         IdentifiersOf(T, y) \cap IdentifiersOf(T, x) # {}
  PROVE  y \in Component(T, r)
<1> DEFINE near == [other \in Records(T) |->
                      {z \in Records(T) : IdentifiersOf(T, z) \cap IdentifiersOf(T, other) # {}}]
           closed == {S \in SUBSET Records(T) : \A other \in S : near[other] \subseteq S}
<1>1. Component(T, r) = {other \in Records(T) : \A S \in closed : r \in S => other \in S}
  BY DEF Component
<1>2. y \in near[x]
  BY <1>1
<1>3. \A S \in closed : x \in S => y \in S
  BY <1>2
<1> HIDE DEF closed, near
<1> QED
  BY <1>1, <1>3

\* The least set of its kind: a closed set that holds the record holds its component.
LEMMA ComponentIsLeast ==
  ASSUME NEW T, NEW r \in Records(T), NEW S, S \subseteq Records(T), r \in S,
         \A x \in S : \A y \in Records(T) : IdentifiersOf(T, y) \cap IdentifiersOf(T, x) # {} => y \in S
  PROVE  Component(T, r) \subseteq S
<1> DEFINE near == [other \in Records(T) |->
                      {z \in Records(T) : IdentifiersOf(T, z) \cap IdentifiersOf(T, other) # {}}]
           closed == {Q \in SUBSET Records(T) : \A other \in Q : near[other] \subseteq Q}
<1>1. Component(T, r) = {other \in Records(T) : \A Q \in closed : r \in Q => other \in Q}
  BY DEF Component
<1>2. S \in closed
  OBVIOUS
<1> HIDE DEF closed, near
<1> QED
  BY <1>1, <1>2

LEMMA InItsComponent ==
  ASSUME NEW T, NEW r \in Records(T)
  PROVE  r \in Component(T, r) /\ Component(T, r) \subseteq Records(T)
  BY DEF Component

\* A record has one component: that of each of its members.
LEMMA OneComponent ==
  ASSUME NEW T, NEW r \in Records(T), NEW x \in Component(T, r)
  PROVE  Component(T, x) = Component(T, r)
<1> DEFINE R == Component(T, r)
           X == Component(T, x)
<1>1. x \in Records(T) /\ r \in R /\ x \in X /\ R \subseteq Records(T) /\ X \subseteq Records(T)
  BY InItsComponent
<1>2. \A z \in R : \A y \in Records(T) : IdentifiersOf(T, y) \cap IdentifiersOf(T, z) # {} => y \in R
  BY ComponentIsClosed
<1>3. \A z \in X : \A y \in Records(T) : IdentifiersOf(T, y) \cap IdentifiersOf(T, z) # {} => y \in X
  BY <1>1, ComponentIsClosed
<1> HIDE DEF R, X
<1>4. X \subseteq R
  <2>1. x \in R
    BY DEF R
  <2> QED
    BY <1>1, <1>2, <2>1, ComponentIsLeast DEF X
<1>5. r \in X
  <2> SUFFICES ASSUME r \notin X PROVE FALSE
    OBVIOUS
  <2> DEFINE S == R \ X
  <2>1. S \subseteq Records(T) /\ r \in S
    BY <1>1
  <2>2. \A z \in S : \A y \in Records(T) : IdentifiersOf(T, y) \cap IdentifiersOf(T, z) # {} => y \in S
    <3> TAKE z \in S
    <3> TAKE y \in Records(T)
    <3> HAVE IdentifiersOf(T, y) \cap IdentifiersOf(T, z) # {}
    <3>1. y \in R
      BY <1>2
    <3>2. y \notin X
      <4>1. IdentifiersOf(T, z) \cap IdentifiersOf(T, y) # {} /\ z \in Records(T)
        BY <1>1
      <4> QED
        BY <1>3, <4>1
    <3> QED
      BY <3>1, <3>2
  <2> HIDE DEF S
  <2>3. R \subseteq S
    BY <2>1, <2>2, ComponentIsLeast DEF R
  <2>4. x \in R
    BY DEF R
  <2> QED
    BY <1>1, <2>3, <2>4 DEF S
<1>6. R \subseteq X
  BY <1>1, <1>3, <1>5, ComponentIsLeast DEF R
<1> QED
  BY <1>4, <1>6 DEF R, X

\* Two cases share no record and no identifier.
LEMMA CasesShareNothing ==
  ASSUME NEW T, NEW c \in Cases(T), NEW d \in Cases(T), c # d
  PROVE  /\ c \cap d = {}
         /\ \A x \in c, y \in d : IdentifiersOf(T, x) \cap IdentifiersOf(T, y) = {}
<1>1. \A x \in c : c = Component(T, x) /\ x \in Records(T)
  BY OneComponent, InItsComponent DEF Cases
<1>2. \A y \in d : d = Component(T, y) /\ y \in Records(T)
  BY OneComponent, InItsComponent DEF Cases
<1>3. c \cap d = {}
  BY <1>1, <1>2
<1>4. ASSUME NEW x \in c, NEW y \in d, IdentifiersOf(T, x) \cap IdentifiersOf(T, y) # {}
      PROVE  FALSE
  <2>1. x \in Component(T, y)
    BY <1>1, <1>2, <1>4, InItsComponent, ComponentIsClosed
  <2> QED
    BY <1>2, <1>3, <2>1
<1> QED
  BY <1>3, <1>4

\* The email and the username of the identity are those of records of the case.
LEMMA IdentityIsOfTheCase ==
  ASSUME CutoverAssumption, NEW T \in Tables, NEW c \in Cases(T), IsSafe(T, c), HasLogin(T, c)
  PROVE  \A key \in {Identity(T, c).email, Identity(T, c).username} \ {None} :
           \E r \in c : key \in IdentifiersOf(T, r)
<1> DEFINE id == Identity(T, c)
           administrators == {T.admins[a] : a \in AdminsOf(c)}
           own == {row.email : row \in administrators} \cap Emails
           shared == {row.email : row \in {T.barbers[b] : b \in BarbersOf(c)}} \cap Emails
<1>1. id.email \in Identifiers /\ None \notin Identifiers
  BY IdentityOfACase DEF CutoverAssumption
<1>2. \A a \in AdminsOf(c) : /\ <<"admin", a>> \in c /\ id.username = T.admins[a].username
                             /\ IdentifiersOf(T, <<"admin", a>>) =
                                  {T.admins[a].username, T.admins[a].email} \ {None}
  <2>1. \A a \in AdminsOf(c) : <<"admin", a>> \in c
    BY InCase
  <2>2. \A a \in AdminsOf(c) : id.username = T.admins[a].username
    BY IdentityOfACase
  <2>3. \A a : IdentifiersOf(T, <<"admin", a>>) = {T.admins[a].username, T.admins[a].email} \ {None}
    BY DEF IdentifiersOf
  <2> HIDE DEF id
  <2> QED
    BY <2>1, <2>2, <2>3
<1>3. id.username # None => \E r \in c : id.username \in IdentifiersOf(T, r)
  <2> SUFFICES ASSUME id.username # None PROVE \E r \in c : id.username \in IdentifiersOf(T, r)
    OBVIOUS
  <2>1. AdminsOf(c) # {}
    BY DEF Identity
  <2> QED
    BY <1>2, <2>1
<1>4. \E r \in c : id.email \in IdentifiersOf(T, r)
  <2>1. CASE BarbersOf(c) # {}
    <3>1. PICK b \in BarbersOf(c) : TRUE
      BY <2>1
    <3>2. <<"barber", b>> \in c /\ IdentifiersOf(T, <<"barber", b>>) = {T.barbers[b].email} \ {None}
      BY InCase DEF IdentifiersOf
    <3>3. T.barbers[b].email = id.email
      BY BarberIsKnown
    <3> QED
      BY <1>1, <3>2, <3>3
  <2>2. CASE BarbersOf(c) = {}
    <3>1. \A S : S # {} => The(S) \in S
      BY DEF The
    <3>2. id.email = IF own # {} THEN The(own) ELSE IF shared # {} THEN The(shared)
                     ELSE The(administrators).username
      BY DEF Identity
    <3>3. shared = {}
      BY <2>2
    <3>4. administrators # {}
      BY <2>2 DEF HasLogin, Hashes
    <3> HIDE DEF id, shared
    <3>5. CASE own # {}
      <4>1. The(own) \in own
        BY <3>1, <3>5
      <4>2. \E a \in AdminsOf(c) : The(own) = T.admins[a].email
        BY <4>1
      <4> HIDE DEF own
      <4> QED
        BY <1>1, <1>2, <3>2, <3>5, <4>2
    <3>6. CASE own = {}
      <4>1. \E a \in AdminsOf(c) : The(administrators) = T.admins[a]
        BY <3>1, <3>4
      <4> HIDE DEF own, administrators
      <4>2. \E a \in AdminsOf(c) : id.email = T.admins[a].username
        BY <3>2, <3>3, <3>6, <4>1
      <4> QED
        BY <1>1, <1>2, <4>2
    <3> QED
      BY <3>5, <3>6
  <2> QED
    BY <2>1, <2>2
<1> HIDE DEF id
<1> QED
  BY <1>3, <1>4 DEF id

\* The cases are a matter of identifiers.
LEMMA SameCases ==
  ASSUME NEW T, NEW N,
         \A a \in Admins : N.admins[a].username = T.admins[a].username
                           /\ N.admins[a].email = T.admins[a].email,
         \A b \in Barbers : N.barbers[b].email = T.barbers[b].email
  PROVE  /\ Cases(N) = Cases(T)
         /\ \A r \in Records(T) : IdentifiersOf(N, r) = IdentifiersOf(T, r)
<1>1. Records(N) = Records(T)
  BY DEF Records, Exists
<1>2. \A r \in Records(T) : IdentifiersOf(N, r) = IdentifiersOf(T, r)
  <2> TAKE r \in Records(T)
  <2>1. r \in ({"admin"} \X Admins) \cup ({"barber"} \X Barbers)
    BY DEF Records
  <2>2. CASE r \in {"admin"} \X Admins
    BY <2>2 DEF IdentifiersOf
  <2>3. CASE r \in {"barber"} \X Barbers
    BY <2>3 DEF IdentifiersOf
  <2> QED
    BY <2>1, <2>2, <2>3
<1> DEFINE near(X) == [other \in Records(X) |->
                         {z \in Records(X) : IdentifiersOf(X, z) \cap IdentifiersOf(X, other) # {}}]
           closed(X) == {S \in SUBSET Records(X) : \A other \in S : near(X)[other] \subseteq S}
<1>3. near(N) = near(T)
  BY <1>1, <1>2
<1>4. closed(N) = closed(T)
  BY <1>1, <1>3
<1>5. \A r : /\ Component(N, r) = {other \in Records(N) : \A S \in closed(N) : r \in S => other \in S}
             /\ Component(T, r) = {other \in Records(T) : \A S \in closed(T) : r \in S => other \in S}
  BY DEF Component
<1> HIDE DEF near, closed
<1>6. \A r : Component(N, r) = Component(T, r)
  BY <1>1, <1>4, <1>5
<1>7. Cases(N) = Cases(T)
  BY <1>1, <1>6 DEF Cases
<1> QED
  BY <1>2, <1>7

\* An apply links the records of its case to the user, and writes no other record.
LEMMA AppliedRecords ==
  ASSUME CutoverAssumption, NEW T \in Tables, NEW d, Applies(T, d)
  PROVE  LET u == UserOf(T, d)  new == Applied(T, d) IN
         /\ new \in Tables
         /\ \A a \in Admins : /\ a \in AdminsOf(d) => new.admins[a] = [T.admins[a] EXCEPT !.user = u]
                              /\ a \notin AdminsOf(d) => new.admins[a] = T.admins[a]
         /\ \A b \in Barbers : /\ b \in BarbersOf(d) => new.barbers[b] = [T.barbers[b] EXCEPT !.user = u]
                               /\ b \notin BarbersOf(d) => new.barbers[b] = T.barbers[b]
<1> DEFINE u == UserOf(T, d)
           new == Applied(T, d)
<1>1. u \in Users /\ new.users \in [Users -> User]
  BY UserOfACase, AppliedUsers
<1>2. /\ new.admins = [a \in Admins |-> IF a \in AdminsOf(d) THEN [T.admins[a] EXCEPT !.user = u]
                                        ELSE T.admins[a]]
      /\ new.barbers = [b \in Barbers |-> IF b \in BarbersOf(d) THEN [T.barbers[b] EXCEPT !.user = u]
                                          ELSE T.barbers[b]]
      /\ new = [admins |-> new.admins, barbers |-> new.barbers, users |-> new.users]
  BY DEF Applied
<1> HIDE DEF u, new
<1>3. T.admins \in [Admins -> Admin] /\ T.barbers \in [Barbers -> Barber]
  BY DEF Tables
<1>4. new.admins \in [Admins -> Admin]
  <2>1. \A a \in Admins : [T.admins[a] EXCEPT !.user = u] \in Admin
    BY <1>1, <1>3 DEF Admin
  <2> QED
    BY <1>2, <1>3, <2>1
<1>5. new.barbers \in [Barbers -> Barber]
  <2>1. \A b \in Barbers : [T.barbers[b] EXCEPT !.user = u] \in Barber
    BY <1>1, <1>3 DEF Barber
  <2> QED
    BY <1>2, <1>3, <2>1
<1>6. new \in Tables
  BY <1>1, <1>2, <1>4, <1>5 DEF Tables
<1> QED
  BY <1>2, <1>6 DEF u, new

LEMMA AppliedFields ==
  ASSUME CutoverAssumption, NEW T \in Tables, NEW d, Applies(T, d)
  PROVE  LET u == UserOf(T, d)  new == Applied(T, d) IN
         /\ \A a \in Admins :
              /\ new.admins[a].username = T.admins[a].username
              /\ new.admins[a].email = T.admins[a].email
              /\ new.admins[a].pw = T.admins[a].pw
              /\ new.admins[a].user = IF a \in AdminsOf(d) THEN u ELSE T.admins[a].user
         /\ \A b \in Barbers :
              /\ new.barbers[b].email = T.barbers[b].email
              /\ new.barbers[b].pw = T.barbers[b].pw
              /\ new.barbers[b].places = T.barbers[b].places
              /\ new.barbers[b].user = IF b \in BarbersOf(d) THEN u ELSE T.barbers[b].user
<1> DEFINE u == UserOf(T, d)
           new == Applied(T, d)
<1>1. /\ \A a \in Admins : /\ a \in AdminsOf(d) => new.admins[a] = [T.admins[a] EXCEPT !.user = u]
                           /\ a \notin AdminsOf(d) => new.admins[a] = T.admins[a]
      /\ \A b \in Barbers : /\ b \in BarbersOf(d) => new.barbers[b] = [T.barbers[b] EXCEPT !.user = u]
                            /\ b \notin BarbersOf(d) => new.barbers[b] = T.barbers[b]
  BY AppliedRecords
<1>2. T.admins \in [Admins -> Admin] /\ T.barbers \in [Barbers -> Barber]
  BY DEF Tables
<1> HIDE DEF u, new
<1>3. \A a \in Admins :
        /\ new.admins[a].username = T.admins[a].username
        /\ new.admins[a].email = T.admins[a].email
        /\ new.admins[a].pw = T.admins[a].pw
        /\ new.admins[a].user = IF a \in AdminsOf(d) THEN u ELSE T.admins[a].user
  <2> TAKE a \in Admins
  <2>1. T.admins[a] \in Admin
    BY <1>2
  <2>2. CASE a \in AdminsOf(d)
    <3>1. new.admins[a] = [T.admins[a] EXCEPT !.user = u]
      BY <1>1, <2>2
    <3> QED
      BY <2>1, <2>2, <3>1 DEF Admin
  <2>3. CASE a \notin AdminsOf(d)
    <3>1. new.admins[a] = T.admins[a]
      BY <1>1, <2>3
    <3> QED
      BY <2>3, <3>1
  <2> QED
    BY <2>2, <2>3
<1>4. \A b \in Barbers :
        /\ new.barbers[b].email = T.barbers[b].email
        /\ new.barbers[b].pw = T.barbers[b].pw
        /\ new.barbers[b].places = T.barbers[b].places
        /\ new.barbers[b].user = IF b \in BarbersOf(d) THEN u ELSE T.barbers[b].user
  <2> TAKE b \in Barbers
  <2>1. T.barbers[b] \in Barber
    BY <1>2
  <2>2. CASE b \in BarbersOf(d)
    <3>1. new.barbers[b] = [T.barbers[b] EXCEPT !.user = u]
      BY <1>1, <2>2
    <3> QED
      BY <2>1, <2>2, <3>1 DEF Barber
  <2>3. CASE b \notin BarbersOf(d)
    <3>1. new.barbers[b] = T.barbers[b]
      BY <1>1, <2>3
    <3> QED
      BY <2>3, <3>1
  <2> QED
    BY <2>2, <2>3
<1> QED
  BY <1>3, <1>4 DEF u, new

\* So it leaves the cases as they are, and the links lead to users.
LEMMA AppliedCases ==
  ASSUME CutoverAssumption, NEW T \in Tables, NEW d, Applies(T, d)
  PROVE  /\ Cases(Applied(T, d)) = Cases(T)
         /\ \A r \in Records(T) : IdentifiersOf(Applied(T, d), r) = IdentifiersOf(T, r)
<1> DEFINE new == Applied(T, d)
<1>1. /\ \A a \in Admins : new.admins[a].username = T.admins[a].username
                           /\ new.admins[a].email = T.admins[a].email
      /\ \A b \in Barbers : new.barbers[b].email = T.barbers[b].email
  BY AppliedFields
<1> HIDE DEF new
<1> QED
  BY <1>1, SameCases DEF new

LEMMA AppliedLinksLead ==
  ASSUME CutoverAssumption, NEW T \in Tables, NEW d, Applies(T, d), LinksLead(T)
  PROVE  LinksLead(Applied(T, d))
<1> DEFINE u == UserOf(T, d)
           new == Applied(T, d)
<1>1. u \in Users /\ new.users[u].status = "active" /\ \A v \in Users \ {u} : new.users[v] = T.users[v]
  BY UserOfACase, AppliedUsers
<1>2. /\ \A a \in Admins : new.admins[a].user = IF a \in AdminsOf(d) THEN u ELSE T.admins[a].user
      /\ \A b \in Barbers : new.barbers[b].user = IF b \in BarbersOf(d) THEN u ELSE T.barbers[b].user
  BY AppliedFields
<1> HIDE DEF u, new
<1>3. \A v : v = u \/ IsUser(T, v) => IsUser(new, v)
  BY <1>1 DEF IsUser
<1> QED
  BY <1>2, <1>3 DEF LinksLead, new

\* Applying a case that has its user changes nothing just if the records are linked to it
\* and it has the rights.
NothingToDo(T, c) ==
    LET u == UserOf(T, c) IN
    /\ \A a \in AdminsOf(c) : T.admins[a].user = u
    /\ \A b \in BarbersOf(c) : T.barbers[b].user = u
    /\ IF AdminsOf(c) # {} THEN T.users[u].administrator
       ELSE UNION {T.barbers[b].places : b \in BarbersOf(c)} \subseteq T.users[u].places

LEMMA UnchangedIsNothingToDo ==
  ASSUME NEW T \in Tables, NEW c \in Cases(T), Candidates(T, c) # {}
  PROVE  Applied(T, c) = T <=> NothingToDo(T, c)
<1> DEFINE u == UserOf(T, c)
           new == Applied(T, c)
           places == UNION {T.barbers[b].places : b \in BarbersOf(c)}
           line == IF AdminsOf(c) # {} THEN [T.users[u] EXCEPT !.administrator = TRUE]
                   ELSE [T.users[u] EXCEPT !.places = @ \cup places]
<1>1. AdminsOf(c) \subseteq Admins /\ BarbersOf(c) \subseteq Barbers
  BY CaseRecords
<1>2. u \in Users
  BY DEF UserOf, The, Candidates
<1>3. /\ T = [admins |-> T.admins, barbers |-> T.barbers, users |-> T.users]
      /\ T.admins \in [Admins -> Admin] /\ T.barbers \in [Barbers -> Barber] /\ T.users \in [Users -> User]
  BY DEF Tables
<1>4. new = [admins |-> [a \in Admins |-> IF a \in AdminsOf(c) THEN [T.admins[a] EXCEPT !.user = u]
                                          ELSE T.admins[a]],
             barbers |-> [b \in Barbers |-> IF b \in BarbersOf(c) THEN [T.barbers[b] EXCEPT !.user = u]
                                            ELSE T.barbers[b]],
             users |-> [T.users EXCEPT ![u] = line]]
  BY DEF Applied
<1> HIDE DEF u, new, line, places
<1>5. new.admins = T.admins <=> \A a \in AdminsOf(c) : T.admins[a].user = u
  <2>1. \A a \in Admins : [T.admins[a] EXCEPT !.user = u] = T.admins[a] <=> T.admins[a].user = u
    BY <1>3 DEF Admin
  <2> QED
    BY <1>1, <1>3, <1>4, <2>1
<1>6. new.barbers = T.barbers <=> \A b \in BarbersOf(c) : T.barbers[b].user = u
  <2>1. \A b \in Barbers : [T.barbers[b] EXCEPT !.user = u] = T.barbers[b] <=> T.barbers[b].user = u
    BY <1>3 DEF Barber
  <2> QED
    BY <1>1, <1>3, <1>4, <2>1
<1>7. new.users = T.users <=> line = T.users[u]
  BY <1>2, <1>3, <1>4
<1>8. line = T.users[u] <=> IF AdminsOf(c) # {} THEN T.users[u].administrator
                            ELSE places \subseteq T.users[u].places
  <2>1. T.users[u] \in User
    BY <1>2, <1>3
  <2>2. CASE AdminsOf(c) # {}
    BY <2>1, <2>2 DEF line, User
  <2>3. CASE AdminsOf(c) = {}
    BY <2>1, <2>3 DEF line, User
  <2> QED
    BY <2>2, <2>3
<1>9. new = T <=> new.admins = T.admins /\ new.barbers = T.barbers /\ new.users = T.users
  BY <1>3, <1>4
<1> QED
  BY <1>5, <1>6, <1>7, <1>8, <1>9 DEF NothingToDo, u, new, places

\* A case that gets a user is changed.
LEMMA AFreshUserIsAChange ==
  ASSUME CutoverAssumption, NEW T \in Tables, NEW c, Candidates(T, c) = {},
         \E u \in Users : T.users[u].status = "none"
  PROVE  Applied(T, c) # T
<1> DEFINE free == {v \in Users : T.users[v].status = "none"}
           u == UserOf(T, c)
           row == [Absent EXCEPT !.username = Identity(T, c).username, !.pw = Identity(T, c).pw,
                                 !.email = Identity(T, c).email, !.status = "active"]
           line == IF AdminsOf(c) # {} THEN [row EXCEPT !.administrator = TRUE]
                   ELSE [row EXCEPT !.places = @ \cup UNION {T.barbers[b].places : b \in BarbersOf(c)}]
<1>1. free # {} /\ free \subseteq Nat
  BY DEF CutoverAssumption
<1>2. \E x \in free : \A y \in free : x <= y
  BY <1>1, LeastNatural
<1>3. u \in free
  BY <1>2 DEF UserOf, FreeUser, Min
<1>4. Applied(T, c).users = [T.users EXCEPT ![u] = line]
  BY DEF Applied
<1>5. line.status = "active"
  <2>1. row.status = "active" /\ "status" \in DOMAIN row
    BY DEF Absent
  <2> HIDE DEF row
  <2> QED
    BY <2>1
<1> HIDE DEF u, line
<1>6. T.users \in [Users -> User]
  BY DEF Tables
<1> QED
  BY <1>3, <1>4, <1>5, <1>6

\* A case whose records are the same is as safe, with the same login and the same identity.
LEMMA SameRowsSameCase ==
  ASSUME NEW T, NEW N, NEW c \in Cases(T),
         \A r \in Records(T) : IdentifiersOf(N, r) = IdentifiersOf(T, r),
         \A a \in AdminsOf(c) : N.admins[a] = T.admins[a],
         \A b \in BarbersOf(c) : N.barbers[b] = T.barbers[b]
  PROVE  /\ IsSafe(N, c) <=> IsSafe(T, c)
         /\ HasLogin(N, c) <=> HasLogin(T, c)
         /\ HasPlace(N, c) <=> HasPlace(T, c)
         /\ Identity(N, c) = Identity(T, c)
         /\ LinkedUsers(N, c) = LinkedUsers(T, c)
<1>1. Hashes(N, c) = Hashes(T, c)
  BY DEF Hashes
<1>2. LinkedUsers(N, c) = LinkedUsers(T, c)
  BY DEF LinkedUsers
<1>3. UNION {IdentifiersOf(N, r) : r \in c} = UNION {IdentifiersOf(T, r) : r \in c}
  <2>1. c \subseteq Records(T)
    BY CaseRecords
  <2>2. {IdentifiersOf(N, r) : r \in c} = {IdentifiersOf(T, r) : r \in c}
    BY <2>1
  <2> QED
    BY <2>2
<1>4. IsBlocker(N, c) <=> IsBlocker(T, c)
  BY <1>2 DEF IsBlocker
<1>5. NeedsReview(N, c) <=> NeedsReview(T, c)
  BY <1>1, <1>3 DEF NeedsReview
<1>6. Identity(N, c) = Identity(T, c)
  <2>1. {N.admins[a] : a \in AdminsOf(c)} = {T.admins[a] : a \in AdminsOf(c)}
    OBVIOUS
  <2>2. {N.barbers[b] : b \in BarbersOf(c)} = {T.barbers[b] : b \in BarbersOf(c)}
    OBVIOUS
  <2> QED
    BY <1>1, <2>1, <2>2 DEF Identity
<1>7. HasPlace(N, c) <=> HasPlace(T, c)
  BY DEF HasPlace
<1> QED
  BY <1>1, <1>2, <1>4, <1>5, <1>6, <1>7 DEF IsSafe, HasLogin

\* Another case is not touched.
LEMMA OtherCaseIsTheSame ==
  ASSUME CutoverAssumption, NEW T \in Tables, NEW d, Applies(T, d), NEW c \in Cases(T), c # d
  PROVE  LET new == Applied(T, d) IN
         /\ \A a \in AdminsOf(c) : new.admins[a] = T.admins[a]
         /\ \A b \in BarbersOf(c) : new.barbers[b] = T.barbers[b]
         /\ c \in Cases(new)
         /\ IsSafe(new, c) <=> IsSafe(T, c)
         /\ HasLogin(new, c) <=> HasLogin(T, c)
         /\ HasPlace(new, c) <=> HasPlace(T, c)
         /\ Identity(new, c) = Identity(T, c)
         /\ LinkedUsers(new, c) = LinkedUsers(T, c)
<1> DEFINE new == Applied(T, d)
<1>1. d \in Cases(T) /\ c \cap d = {}
  BY CasesShareNothing DEF Applies
<1>2. AdminsOf(c) \cap AdminsOf(d) = {} /\ BarbersOf(c) \cap BarbersOf(d) = {}
  BY <1>1, InCase
<1>3. AdminsOf(c) \subseteq Admins /\ BarbersOf(c) \subseteq Barbers
  BY CaseRecords
<1>4. /\ \A a \in Admins : a \notin AdminsOf(d) => new.admins[a] = T.admins[a]
      /\ \A b \in Barbers : b \notin BarbersOf(d) => new.barbers[b] = T.barbers[b]
  <2> DEFINE row(b) == [T.barbers[b] EXCEPT !.user = UserOf(T, d)]
             line(a) == [T.admins[a] EXCEPT !.user = UserOf(T, d)]
  <2>1. /\ \A a \in Admins : /\ a \in AdminsOf(d) => new.admins[a] = line(a)
                             /\ a \notin AdminsOf(d) => new.admins[a] = T.admins[a]
        /\ \A b \in Barbers : /\ b \in BarbersOf(d) => new.barbers[b] = row(b)
                              /\ b \notin BarbersOf(d) => new.barbers[b] = T.barbers[b]
    BY AppliedRecords
  <2> HIDE DEF row, line, new
  <2> QED
    BY <2>1
<1>5. /\ Cases(new) = Cases(T)
      /\ \A r \in Records(T) : IdentifiersOf(new, r) = IdentifiersOf(T, r)
  BY AppliedCases
<1> HIDE DEF new
<1>6. /\ \A a \in AdminsOf(c) : new.admins[a] = T.admins[a]
      /\ \A b \in BarbersOf(c) : new.barbers[b] = T.barbers[b]
  BY <1>2, <1>3, <1>4
<1>7. /\ IsSafe(new, c) <=> IsSafe(T, c)
      /\ HasLogin(new, c) <=> HasLogin(T, c)
      /\ HasPlace(new, c) <=> HasPlace(T, c)
      /\ Identity(new, c) = Identity(T, c)
      /\ LinkedUsers(new, c) = LinkedUsers(T, c)
  BY <1>5, <1>6, SameRowsSameCase
<1> QED
  BY <1>5, <1>6, <1>7 DEF new

\* The keys of two logins are apart.
KeysOf(T, c) == {Identity(T, c).email, Identity(T, c).username} \ {None}

LEMMA LoginsAreApart ==
  ASSUME CutoverAssumption, NEW T \in Tables, NEW c \in Cases(T), NEW d \in Cases(T), c # d,
         IsSafe(T, c), HasLogin(T, c), IsSafe(T, d), HasLogin(T, d)
  PROVE  KeysOf(T, c) \cap KeysOf(T, d) = {} /\ Identity(T, c).email # Identity(T, d).email
<1>1. \A key \in KeysOf(T, c) : \E r \in c : key \in IdentifiersOf(T, r)
  BY IdentityIsOfTheCase DEF KeysOf
<1>2. \A key \in KeysOf(T, d) : \E r \in d : key \in IdentifiersOf(T, r)
  BY IdentityIsOfTheCase DEF KeysOf
<1>3. \A x \in c, y \in d : IdentifiersOf(T, x) \cap IdentifiersOf(T, y) = {}
  BY CasesShareNothing
<1>4. KeysOf(T, c) \cap KeysOf(T, d) = {}
  BY <1>1, <1>2, <1>3
<1>5. Identity(T, c).email \in KeysOf(T, c) /\ Identity(T, d).email \in KeysOf(T, d)
  BY IdentityOfACase DEF KeysOf, CutoverAssumption
<1> QED
  BY <1>4, <1>5

\* Whom a case may get is not changed by the user that another case gets.
LEMMA SameCandidates ==
  ASSUME CutoverAssumption, NEW T \in Tables, LinksLead(T), NEW d, Applies(T, d),
         NEW c \in Cases(T), IsSafe(T, c), HasLogin(T, c), c # d
  PROVE  Candidates(Applied(T, d), c) = Candidates(T, c)
<1> DEFINE u == UserOf(T, d)
           new == Applied(T, d)
           id == Identity(T, d)
           Claims(X, v) == \/ v \in LinkedUsers(T, c)
                           \/ {X.users[v].email, X.users[v].username} \cap KeysOf(T, c) # {}
<1>1. /\ d \in Cases(T) /\ IsSafe(T, d) /\ HasLogin(T, d) /\ u \in Users
      /\ Candidates(T, d) # {} => IsCompatible(T, d, u)
      /\ Candidates(T, d) = {} => T.users[u].status = "none"
  BY UserOfACase DEF Applies
<1>2. /\ \A v \in Users \ {u} : new.users[v] = T.users[v]
      /\ new.users[u].status = "active"
      /\ new.users[u].email = id.email /\ new.users[u].username = id.username
  BY AppliedUsers
<1>3. Identity(new, c) = Identity(T, c) /\ LinkedUsers(new, c) = LinkedUsers(T, c)
  BY OtherCaseIsTheSame
<1>4. /\ Candidates(T, c) = {v \in Users : T.users[v].status # "none" /\ Claims(T, v)}
      /\ Candidates(new, c) = {v \in Users : new.users[v].status # "none" /\ Claims(new, v)}
  BY <1>3 DEF Candidates, KeysOf
<1>5. KeysOf(T, c) \cap KeysOf(T, d) = {}
  BY <1>1, LoginsAreApart
<1>6. CASE Candidates(T, d) # {}
  <2>1. T.users[u].email = id.email /\ T.users[u].username = id.username /\ T.users[u].status = "active"
    BY <1>1, <1>6 DEF IsCompatible
  <2> HIDE DEF u, new, id
  <2>2. \A v \in Users : /\ new.users[v].status # "none" <=> T.users[v].status # "none"
                         /\ new.users[v].email = T.users[v].email
                         /\ new.users[v].username = T.users[v].username
    BY <1>2, <2>1
  <2> QED
    BY <1>4, <2>2 DEF new
<1>7. CASE Candidates(T, d) = {}
  <2>1. T.users[u].status = "none"
    BY <1>1, <1>7
  <2>2. u \notin LinkedUsers(T, c)
    <3>1. AdminsOf(c) \subseteq Admins /\ BarbersOf(c) \subseteq Barbers
      BY CaseRecords
    <3>2. \A v \in LinkedUsers(T, c) : IsUser(T, v)
      BY <3>1 DEF LinkedUsers, LinksLead
    <3> QED
      BY <2>1, <3>2 DEF IsUser
  <2>3. {new.users[u].email, new.users[u].username} \subseteq KeysOf(T, d) \cup {None}
    BY <1>2 DEF KeysOf
  <2>4. None \notin KeysOf(T, c)
    BY DEF KeysOf
  <2> HIDE DEF u, new, id
  <2>5. ~Claims(new, u)
    BY <1>5, <2>2, <2>3, <2>4
  <2>6. \A v \in Users : new.users[v].status # "none" /\ Claims(new, v)
                         <=> T.users[v].status # "none" /\ Claims(T, v)
    BY <1>2, <2>1, <2>5
  <2> HIDE DEF Claims
  <2> QED
    BY <1>4, <2>6 DEF new
<1> QED
  BY <1>6, <1>7

\* There is an id for the user of c when u has been taken.
StillFree(T, c, u) ==
    HasLogin(T, c) /\ Candidates(T, c) = {} => \E v \in Users \ {u} : T.users[v].status = "none"

\* Whoever is refused the user, or has another one, is as before.
LEMMA OutcomeStays ==
  ASSUME CutoverAssumption, NEW T \in Tables, LinksLead(T), NEW d, Applies(T, d),
         NEW c \in Cases(T), IsSafe(T, c), c # d, StillFree(T, c, UserOf(T, d))
  PROVE  Outcome(Applied(T, d), c) = Outcome(T, c)
<1> DEFINE u == UserOf(T, d)
           new == Applied(T, d)
           C == Candidates(T, c)
<1>1. /\ d \in Cases(T) /\ IsSafe(T, d) /\ HasLogin(T, d) /\ u \in Users
      /\ Candidates(T, d) # {} => IsCompatible(T, d, u)
      /\ Candidates(T, d) = {} => T.users[u].status = "none"
  BY UserOfACase DEF Applies
<1>2. /\ \A v \in Users \ {u} : new.users[v] = T.users[v]
      /\ new.users[u].email = Identity(T, d).email
  BY AppliedUsers
<1>3. /\ \A a \in AdminsOf(c) : new.admins[a] = T.admins[a]
      /\ \A b \in BarbersOf(c) : new.barbers[b] = T.barbers[b]
      /\ HasLogin(new, c) <=> HasLogin(T, c)
      /\ HasPlace(new, c) <=> HasPlace(T, c)
      /\ Identity(new, c) = Identity(T, c)
      /\ LinkedUsers(new, c) = LinkedUsers(T, c)
      /\ c \in Cases(new)
  BY OtherCaseIsTheSame
<1>4. new \in Tables
  BY AppliedRecords
<1>5. CASE ~HasLogin(T, c)
  BY <1>3, <1>5 DEF Outcome
<1>6. CASE HasLogin(T, c)
  <2>1. Candidates(new, c) = C
    BY <1>6, SameCandidates
  <2>2. CASE u \in C
    <3>1. T.users[u].status # "none"
      BY <2>2 DEF Candidates
    <3>2. T.users[u].email = Identity(T, d).email
      BY <1>1, <3>1 DEF IsCompatible
    <3>3. Identity(T, c).email # Identity(T, d).email
      BY <1>1, <1>6, LoginsAreApart
    <3>4. ~IsCompatible(T, c, u) /\ ~IsCompatible(new, c, u)
      BY <1>2, <1>3, <3>2, <3>3 DEF IsCompatible
    <3>5. ~Succeeds(T, c) /\ ~Succeeds(new, c)
      BY <2>1, <2>2, <3>4 DEF Succeeds
    <3> QED
      BY <1>3, <1>6, <3>5 DEF Outcome
  <2>3. CASE u \notin C
    <3>1. \A v \in C : v \in Users \ {u} /\ new.users[v] = T.users[v]
      BY <1>2, <2>3 DEF Candidates
    <3>2. \A v \in C : IsCompatible(new, c, v) <=> IsCompatible(T, c, v)
      BY <1>3, <3>1 DEF IsCompatible
    <3>3. Succeeds(new, c) <=> Succeeds(T, c)
      BY <1>3, <2>1, <3>2 DEF Succeeds
    <3>4. Applied(new, c) = new <=> Applied(T, c) = T
      <4>1. CASE C = {}
        <5>1. PICK v \in Users \ {u} : T.users[v].status = "none"
          BY <1>6, <4>1 DEF StillFree
        <5>2. new.users[v].status = "none"
          BY <1>2, <5>1
        <5>3. Applied(T, c) # T
          BY <4>1, <5>1, AFreshUserIsAChange
        <5>4. Applied(new, c) # new
          BY <1>4, <2>1, <4>1, <5>2, AFreshUserIsAChange
        <5> QED
          BY <5>3, <5>4
      <4>2. CASE C # {}
        <5> DEFINE w == UserOf(T, c)
        <5>1. w \in C /\ UserOf(new, c) = w
          BY <2>1, <4>2 DEF UserOf, The
        <5>2. new.users[w] = T.users[w]
          BY <3>1, <5>1
        <5>3. {new.barbers[b].places : b \in BarbersOf(c)} = {T.barbers[b].places : b \in BarbersOf(c)}
          BY <1>3
        <5>4. NothingToDo(new, c) <=> NothingToDo(T, c)
          <6> DEFINE P == {new.barbers[b].places : b \in BarbersOf(c)}
                     Q == {T.barbers[b].places : b \in BarbersOf(c)}
          <6> HIDE DEF w, new
          <6>1. NothingToDo(new, c) <=>
                  /\ \A a \in AdminsOf(c) : new.admins[a].user = w
                  /\ \A b \in BarbersOf(c) : new.barbers[b].user = w
                  /\ IF AdminsOf(c) # {} THEN new.users[w].administrator
                     ELSE UNION P \subseteq new.users[w].places
            BY <5>1 DEF NothingToDo
          <6>2. NothingToDo(T, c) <=>
                  /\ \A a \in AdminsOf(c) : T.admins[a].user = w
                  /\ \A b \in BarbersOf(c) : T.barbers[b].user = w
                  /\ IF AdminsOf(c) # {} THEN T.users[w].administrator
                     ELSE UNION Q \subseteq T.users[w].places
            BY DEF NothingToDo, w
          <6>3. P = Q
            BY <5>3
          <6> HIDE DEF P, Q
          <6> QED
            BY <1>3, <5>2, <6>1, <6>2, <6>3
        <5>5. Applied(T, c) = T <=> NothingToDo(T, c)
          BY <4>2, UnchangedIsNothingToDo
        <5>6. Applied(new, c) = new <=> NothingToDo(new, c)
          BY <1>3, <1>4, <2>1, <4>2, UnchangedIsNothingToDo
        <5> QED
          BY <5>4, <5>5, <5>6
      <4> QED
        BY <4>1, <4>2
    <3> QED
      BY <1>3, <1>6, <3>3, <3>4 DEF Outcome
  <2> QED
    BY <2>2, <2>3
<1> QED
  BY <1>5, <1>6

\* A case that was applied has its user, which nobody else is, and nothing is left to do.
LEMMA AppliedIdentity ==
  ASSUME CutoverAssumption, NEW T \in Tables, NEW d, Applies(T, d)
  PROVE  LET new == Applied(T, d) IN
         /\ d \in Cases(new) /\ IsSafe(new, d) /\ HasLogin(new, d)
         /\ LinkedUsers(new, d) = {UserOf(T, d)}
         /\ Identity(new, d).pw = Identity(T, d).pw
         /\ Identity(new, d).email = Identity(T, d).email
         /\ Identity(new, d).username = Identity(T, d).username
<1> DEFINE u == UserOf(T, d)
           new == Applied(T, d)
           Own(X) == {row.email : row \in {X.admins[a] : a \in AdminsOf(d)}} \cap Emails
           Shared(X) == {row.email : row \in {X.barbers[b] : b \in BarbersOf(d)}} \cap Emails
           Sure(X) == The({X.admins[a] : a \in AdminsOf(d)}).username
<1>1. d \in Cases(T) /\ IsSafe(T, d) /\ HasLogin(T, d) /\ u \in Users
  BY UserOfACase DEF Applies
<1>2. AdminsOf(d) \subseteq Admins /\ BarbersOf(d) \subseteq Barbers /\ d \subseteq Records(T)
  BY <1>1, CaseRecords
<1>3. new \in Tables
  BY AppliedRecords
<1>4. d \in Cases(new) /\ \A r \in d : IdentifiersOf(new, r) = IdentifiersOf(T, r)
  BY <1>1, <1>2, AppliedCases
<1>5. /\ \A a \in AdminsOf(d) : /\ new.admins[a].username = T.admins[a].username
                                /\ new.admins[a].email = T.admins[a].email
                                /\ new.admins[a].pw = T.admins[a].pw
                                /\ new.admins[a].user = u
      /\ \A b \in BarbersOf(d) : /\ new.barbers[b].email = T.barbers[b].email
                                 /\ new.barbers[b].pw = T.barbers[b].pw
                                 /\ new.barbers[b].user = u
  BY <1>2, AppliedFields
<1> HIDE DEF u, new
<1>6. Hashes(new, d) = Hashes(T, d)
  BY <1>5 DEF Hashes
<1>7. HasLogin(new, d)
  BY <1>1, <1>6 DEF HasLogin
<1>8. LinkedUsers(new, d) = {u}
  <2>1. AdminsOf(d) # {} \/ BarbersOf(d) # {}
    BY <1>1 DEF HasLogin, Hashes
  <2>2. u # None
    BY <1>1 DEF CutoverAssumption
  <2> QED
    BY <1>5, <2>1, <2>2 DEF LinkedUsers
<1>9. IsSafe(new, d)
  <2>1. Cardinality({u}) = 1
    BY FS_Singleton
  <2>2. ~IsBlocker(new, d)
    BY <1>1, <1>5, <1>8, <2>1 DEF IsSafe, IsBlocker
  <2>3. {IdentifiersOf(new, r) : r \in d} = {IdentifiersOf(T, r) : r \in d}
    BY <1>4
  <2>4. UNION {IdentifiersOf(new, r) : r \in d} = UNION {IdentifiersOf(T, r) : r \in d}
    BY <2>3
  <2>5. ~NeedsReview(new, d)
    <3>1. ~NeedsReview(T, d)
      BY <1>1 DEF IsSafe
    <3> QED
      BY <1>5, <1>6, <2>4, <3>1 DEF NeedsReview
  <2> QED
    BY <2>2, <2>5 DEF IsSafe
<1>10. Identity(new, d).pw = Identity(T, d).pw
  BY <1>6 DEF Identity
<1>11. Identity(new, d).username = Identity(T, d).username
  <2>1. CASE AdminsOf(d) = {}
    BY <2>1 DEF Identity
  <2>2. CASE AdminsOf(d) # {}
    <3>1. PICK a \in AdminsOf(d) : TRUE
      BY <2>2
    <3>2. Identity(T, d).username = T.admins[a].username
      BY <1>1, IdentityOfACase
    <3>3. Identity(new, d).username = new.admins[a].username
      BY <1>3, <1>4, <1>7, <1>9, IdentityOfACase
    <3> QED
      BY <1>5, <3>2, <3>3
  <2> QED
    BY <2>1, <2>2
<1>12. Identity(new, d).email = Identity(T, d).email
  <2>1. CASE BarbersOf(d) # {}
    <3>1. PICK b \in BarbersOf(d) : TRUE
      BY <2>1
    <3>2. Identity(T, d).email = T.barbers[b].email
      BY <1>1, BarberIsKnown
    <3>3. Identity(new, d).email = new.barbers[b].email
      BY <1>3, <1>4, <1>7, <1>9, BarberIsKnown
    <3> QED
      BY <1>5, <3>2, <3>3
  <2>2. CASE BarbersOf(d) = {}
    <3>1. AdminsOf(d) # {}
      BY <1>1, <2>2 DEF HasLogin, Hashes
    <3>2. \A X : /\ Identity(X, d).email = IF Own(X) # {} THEN The(Own(X))
                                           ELSE IF Shared(X) # {} THEN The(Shared(X)) ELSE Sure(X)
                 /\ Identity(X, d).username = Sure(X)
      BY <3>1 DEF Identity
    <3>3. Own(new) = Own(T)
      BY <1>5
    <3>4. Shared(new) = {} /\ Shared(T) = {}
      BY <2>2
    <3> HIDE DEF Own, Shared, Sure
    <3> QED
      BY <1>11, <3>2, <3>3, <3>4
  <2> QED
    BY <2>1, <2>2
<1> QED
  BY <1>4, <1>7, <1>8, <1>9, <1>10, <1>11, <1>12 DEF u, new

LEMMA AppliedPlaces ==
  ASSUME CutoverAssumption, NEW T \in Tables, NEW d, Applies(T, d), AdminsOf(d) = {}
  PROVE  UNION {T.barbers[b].places : b \in BarbersOf(d)}
           \subseteq Applied(T, d).users[UserOf(T, d)].places
<1> DEFINE u == UserOf(T, d)
           places == UNION {T.barbers[b].places : b \in BarbersOf(d)}
           row == IF Candidates(T, d) = {}
                  THEN [Absent EXCEPT !.username = Identity(T, d).username, !.pw = Identity(T, d).pw,
                                      !.email = Identity(T, d).email, !.status = "active"]
                  ELSE T.users[u]
           line == [row EXCEPT !.places = @ \cup places]
<1>1. u \in Users /\ T.users \in [Users -> User]
  BY UserOfACase DEF Tables
<1>2. Applied(T, d).users = [T.users EXCEPT ![u] = line]
  BY DEF Applied
<1>3. "places" \in DOMAIN row
  <2>1. CASE Candidates(T, d) = {}
    BY <2>1 DEF Absent
  <2>2. CASE Candidates(T, d) # {}
    BY <1>1, <2>2 DEF User
  <2> QED
    BY <2>1, <2>2
<1> HIDE DEF row, places, u
<1>4. places \subseteq line.places
  BY <1>3
<1> QED
  BY <1>1, <1>2, <1>4 DEF u, places

LEMMA ASecondApplyIsNone ==
  ASSUME CutoverAssumption, NEW T \in Tables, NEW d, Applies(T, d)
  PROVE  Outcome(Applied(T, d), d) = "unchanged"
<1> DEFINE u == UserOf(T, d)
           new == Applied(T, d)
           id == Identity(T, d)
<1>1. /\ HasLogin(T, d) /\ Succeeds(T, d) /\ u \in Users
      /\ Candidates(T, d) # {} => Candidates(T, d) = {u}
  BY UserOfACase DEF Applies, Outcome
<1>2. /\ new.users \in [Users -> User] /\ \A v \in Users \ {u} : new.users[v] = T.users[v]
      /\ new.users[u].status = "active" /\ new.users[u].pw = id.pw
      /\ new.users[u].email = id.email /\ new.users[u].username = id.username
      /\ AdminsOf(d) # {} => new.users[u].administrator
  BY AppliedUsers
<1>3. /\ d \in Cases(new) /\ IsSafe(new, d) /\ HasLogin(new, d)
      /\ LinkedUsers(new, d) = {u}
      /\ Identity(new, d).pw = id.pw /\ Identity(new, d).email = id.email
      /\ Identity(new, d).username = id.username
  BY AppliedIdentity
<1>4. new \in Tables
  BY AppliedRecords
<1>5. AdminsOf(d) \subseteq Admins /\ BarbersOf(d) \subseteq Barbers
  BY CaseRecords DEF Applies
<1>6. /\ \A a \in AdminsOf(d) : new.admins[a].user = u
      /\ \A b \in BarbersOf(d) : new.barbers[b].user = u /\ new.barbers[b].places = T.barbers[b].places
  BY <1>5, AppliedFields
<1>7. Candidates(new, d) = {u}
  <2>1. u \in Candidates(new, d)
    BY <1>1, <1>2, <1>3 DEF Candidates
  <2>2. ASSUME NEW v \in Candidates(new, d), v # u PROVE FALSE
    <3>1. v \in Users /\ new.users[v] = T.users[v]
      BY <1>2, <2>2 DEF Candidates
    <3>2. v \in Candidates(T, d)
      BY <1>3, <2>2, <3>1 DEF Candidates
    <3> QED
      BY <1>1, <2>2, <3>2
  <2> QED
    BY <2>1, <2>2
<1>8. Succeeds(new, d)
  <2>1. Cardinality({u}) = 1
    BY FS_Singleton
  <2>2. IsCompatible(new, d, u)
    BY <1>2, <1>3 DEF IsCompatible
  <2>3. HasPlace(new, d)
    BY <1>1, <1>6 DEF Succeeds, HasPlace
  <2> QED
    BY <1>7, <2>1, <2>2, <2>3 DEF Succeeds
<1>9. Applied(new, d) = new
  <2>1. UserOf(new, d) = u
    BY <1>7 DEF UserOf, The
  <2>2. {new.barbers[b].places : b \in BarbersOf(d)} = {T.barbers[b].places : b \in BarbersOf(d)}
    BY <1>6
  <2>3. AdminsOf(d) = {} =>
          UNION {new.barbers[b].places : b \in BarbersOf(d)} \subseteq new.users[u].places
    BY <2>2, AppliedPlaces
  <2>4. NothingToDo(new, d)
    BY <1>2, <1>6, <2>1, <2>3 DEF NothingToDo
  <2> QED
    BY <1>3, <1>4, <1>7, <2>4, UnchangedIsNothingToDo
<1> QED
  BY <1>3, <1>8, <1>9 DEF Outcome

LEMMA SameSafeCases ==
  ASSUME CutoverAssumption, NEW T \in Tables, NEW d, Applies(T, d)
  PROVE  SafeCases(Applied(T, d)) = SafeCases(T)
<1> DEFINE new == Applied(T, d)
<1>1. Cases(new) = Cases(T)
  BY AppliedCases
<1>2. IsSafe(T, d) /\ IsSafe(new, d)
  BY AppliedIdentity DEF Applies
<1>3. \A c \in Cases(T) : c # d => (IsSafe(new, c) <=> IsSafe(T, c))
  BY OtherCaseIsTheSame
<1> HIDE DEF new
<1> QED
  BY <1>1, <1>2, <1>3 DEF SafeCases, new

\* The safe cases that need a new user, and the ids there are for them.
Newcomers(T) == {c \in SafeCases(T) : HasLogin(T, c) /\ Candidates(T, c) = {}}
FreeIds(T) == {u \in Users : T.users[u].status = "none"}
EnoughIds(T) == Cardinality(Newcomers(T)) <= Cardinality(FreeIds(T))

LEMMA FinitelyMany ==
  ASSUME CutoverAssumption, NEW T
  PROVE  IsFiniteSet(SafeCases(T)) /\ IsFiniteSet(Newcomers(T)) /\ IsFiniteSet(FreeIds(T))
<1> DEFINE A == {"admin"} \X Admins
           B == {"barber"} \X Barbers
           f == [r \in Records(T) |-> Component(T, r)]
<1>1. IsFiniteSet({"admin"}) /\ IsFiniteSet({"barber"})
  BY FS_Singleton
<1>2. IsFiniteSet(Admins) /\ IsFiniteSet(Barbers) /\ IsFiniteSet(Users)
  BY DEF CutoverAssumption
<1>3. IsFiniteSet(A)
  BY <1>1, <1>2, FS_Product
<1>4. IsFiniteSet(B)
  BY <1>1, <1>2, FS_Product
<1>5. Records(T) \subseteq A \cup B
  BY DEF Records
<1> HIDE DEF A, B
<1>6. IsFiniteSet(Records(T))
  BY <1>3, <1>4, <1>5, FS_Union, FS_Subset
<1>7. IsFiniteSet({f[r] : r \in Records(T)})
  <2>1. DOMAIN f = Records(T)
    OBVIOUS
  <2> HIDE DEF f
  <2> QED
    BY <1>6, <2>1, FiniteColumn
<1>8. Cases(T) = {f[r] : r \in Records(T)}
  BY DEF Cases
<1> HIDE DEF f
<1>9. SafeCases(T) \subseteq Cases(T) /\ Newcomers(T) \subseteq Cases(T) /\ FreeIds(T) \subseteq Users
  BY DEF SafeCases, Newcomers, FreeIds
<1> QED
  BY <1>2, <1>7, <1>8, <1>9, FS_Subset

\* One step of the loop over the safe cases.
LEMMA OneCaseAtATime ==
  ASSUME CutoverAssumption, NEW T \in Tables, LinksLead(T), EnoughIds(T), NEW d \in SafeCases(T)
  PROVE  LET new == After(T, d) IN
         /\ new \in Tables /\ LinksLead(new) /\ EnoughIds(new)
         /\ SafeCases(new) = SafeCases(T)
         /\ Outcome(new, d) = IF Outcome(T, d) = "applied" THEN "unchanged" ELSE Outcome(T, d)
         /\ \A c \in SafeCases(T) \ {d} : Outcome(new, c) = Outcome(T, c)
<1>1. CASE Outcome(T, d) # "applied"
  BY <1>1 DEF After
<1>2. CASE Outcome(T, d) = "applied"
  <2> DEFINE u == UserOf(T, d)
             new == Applied(T, d)
             need == Newcomers(T)
             free == FreeIds(T)
  <2>1. After(T, d) = new
    BY <1>2 DEF After
  <2>2. \A c \in SafeCases(T) : c \in Cases(T) /\ IsSafe(T, c)
    BY DEF SafeCases
  <2>3. IsFiniteSet(need) /\ IsFiniteSet(free)
    BY FinitelyMany
  <2>4. Cardinality(need) \in Nat /\ Cardinality(free) \in Nat /\ Cardinality(need) <= Cardinality(free)
    BY <2>3, FS_CardinalityType DEF EnoughIds
  <2>5. HasLogin(T, d)
    BY <1>2 DEF Outcome
  <2>6. \A c \in need : free # {}
    <3> SUFFICES ASSUME NEW c \in need, free = {} PROVE FALSE
      OBVIOUS
    <3>1. Cardinality(free) = 0
      BY FS_EmptySet
    <3> HIDE DEF need, free
    <3>2. Cardinality(need) = 0
      BY <2>4, <3>1
    <3> QED
      BY <2>3, <3>2, FS_EmptySet
  <2>7. Candidates(T, d) = {} <=> d \in need
    BY <2>5 DEF Newcomers
  <2>8. Applies(T, d)
    BY <1>2, <2>2, <2>6, <2>7 DEF Applies, FreeIds
  <2>9. u \in Users /\ (d \in need <=> u \in free)
    <3>1. /\ u \in Users
          /\ Candidates(T, d) # {} => IsCompatible(T, d, u)
          /\ Candidates(T, d) = {} => T.users[u].status = "none"
      BY <2>8, UserOfACase
    <3>2. Candidates(T, d) # {} => T.users[u].status = "active"
      BY <3>1 DEF IsCompatible
    <3> QED
      BY <2>7, <3>1, <3>2 DEF FreeIds
  <2>10. /\ Cardinality(need \ {d}) = IF d \in need THEN Cardinality(need) - 1 ELSE Cardinality(need)
         /\ Cardinality(free \ {u}) = IF u \in free THEN Cardinality(free) - 1 ELSE Cardinality(free)
         /\ IsFiniteSet(need \ {d}) /\ IsFiniteSet(free \ {u})
    <3> HIDE DEF need, free
    <3> QED
      BY <2>3, FS_RemoveElement
  <2>11. Cardinality(need \ {d}) <= Cardinality(free \ {u})
    <3> HIDE DEF need, free, u
    <3> QED
      BY <2>4, <2>9, <2>10
  <2>12. \A c \in SafeCases(T) \ {d} : StillFree(T, c, u)
    <3> SUFFICES ASSUME NEW c \in SafeCases(T) \ {d}, HasLogin(T, c), Candidates(T, c) = {},
                        free \ {u} = {}
                 PROVE  FALSE
      BY DEF StillFree, FreeIds
    <3>1. c \in need \ {d}
      BY DEF Newcomers
    <3> HIDE DEF need, free, u
    <3>2. Cardinality(free \ {u}) = 0
      BY FS_EmptySet
    <3>3. Cardinality(need \ {d}) \in Nat
      BY <2>10, FS_CardinalityType
    <3>4. Cardinality(need \ {d}) = 0
      BY <2>11, <3>2, <3>3
    <3> QED
      BY <2>10, <3>1, <3>4, FS_EmptySet
  <2>13. SafeCases(new) = SafeCases(T)
    BY <2>8, SameSafeCases
  <2>14. \A c \in SafeCases(T) \ {d} : Outcome(new, c) = Outcome(T, c)
    BY <2>2, <2>8, <2>12, OutcomeStays
  <2>15. EnoughIds(new)
    <3>1. FreeIds(new) = free \ {u}
      <4>1. /\ \A v \in Users \ {u} : new.users[v] = T.users[v]
            /\ new.users[u].status = "active"
        BY <2>8, AppliedUsers
      <4> HIDE DEF new, u
      <4> QED
        BY <4>1 DEF FreeIds
    <3>2. d \notin Newcomers(new)
      <4>1. LinkedUsers(new, d) = {u} /\ new.users[u].status = "active"
        BY <2>8, AppliedIdentity, AppliedUsers
      <4>2. u \in Candidates(new, d)
        BY <2>9, <4>1 DEF Candidates
      <4> QED
        BY <4>2 DEF Newcomers
    <3>3. ASSUME NEW c \in SafeCases(T) \ {d}
          PROVE  c \in Newcomers(new) <=> c \in need
      <4>1. HasLogin(new, c) <=> HasLogin(T, c)
        BY <2>2, <2>8, OtherCaseIsTheSame
      <4>2. HasLogin(T, c) => Candidates(new, c) = Candidates(T, c)
        BY <2>2, <2>8, SameCandidates
      <4> QED
        BY <2>13, <4>1, <4>2 DEF Newcomers
    <3>4. Newcomers(new) \subseteq SafeCases(T) /\ need \subseteq SafeCases(T)
      BY <2>13 DEF Newcomers
    <3> HIDE DEF new, need
    <3>5. Newcomers(new) = need \ {d}
      BY <3>2, <3>3, <3>4
    <3> QED
      BY <2>11, <3>1, <3>5 DEF EnoughIds
  <2>16. new \in Tables
    BY <2>8, AppliedRecords
  <2>17. LinksLead(new)
    BY <2>8, AppliedLinksLead
  <2>18. Outcome(new, d) = "unchanged"
    BY <2>8, ASecondApplyIsNone
  <2> QED
    BY <1>2, <2>1, <2>13, <2>14, <2>15, <2>16, <2>17, <2>18
<1> QED
  BY <1>1, <1>2

-----------------------------------------------------------------------------
(***************************************************************************)
(* All the cases, in the order in which the fold takes them.               *)
(***************************************************************************)
\* The function that the fold of `AfterAll` is the last value of.
IsFold(T, S, f) ==
    f = [s \in SUBSET S |-> IF s = {} THEN T ELSE After(f[s \ {The(s)}], The(s))]

\* There is one for every finite set: of the sizes up to which there is none, one is least.
LEMMA FoldExists ==
  ASSUME NEW T, NEW S, IsFiniteSet(S)
  PROVE  \E f : IsFold(T, S, f)
<1> DEFINE Small(n) == {s \in SUBSET S : Cardinality(s) <= n}
           Step(f, s) == IF s = {} THEN T ELSE After(f[s \ {The(s)}], The(s))
           Part(n, f) == f = [s \in Small(n) |-> Step(f, s)]
           Bad == {n \in Nat : ~\E f : Part(n, f)}
<1>1. \A s \in SUBSET S : IsFiniteSet(s) /\ Cardinality(s) \in Nat /\ Cardinality(s) <= Cardinality(S)
  BY FS_Subset, FS_CardinalityType
<1>2. \A s \in SUBSET S : s # {} =>
        /\ The(s) \in s /\ s \ {The(s)} \in SUBSET S
        /\ Cardinality(s \ {The(s)}) = Cardinality(s) - 1
  BY <1>1, FS_RemoveElement DEF The
<1>3. Bad = {}
  <2> SUFFICES ASSUME Bad # {} PROVE FALSE
    OBVIOUS
  <2>1. PICK n \in Bad : \A m \in Bad : n <= m
    <3>1. Bad \subseteq Nat
      OBVIOUS
    <3> HIDE DEF Bad
    <3> QED
      BY <3>1, LeastNatural
  <2>2. n \in Nat /\ ~\E f : Part(n, f)
    BY <2>1
  <2>3. CASE n = 0
    <3> DEFINE g == [s \in Small(n) |-> T]
    <3>1. \A s \in Small(n) : s = {}
      <4> TAKE s \in Small(n)
      <4>1. IsFiniteSet(s) /\ Cardinality(s) \in Nat /\ Cardinality(s) <= n
        BY <1>1
      <4>2. Cardinality(s) = 0
        BY <2>3, <4>1
      <4> QED
        BY <4>1, <4>2, FS_EmptySet
    <3>2. \A s \in Small(n) : Step(g, s) = T
      BY <3>1
    <3>3. Part(n, g)
      <4> HIDE DEF Step, Small
      <4> QED
        BY <3>2
    <3> QED
      BY <2>2, <3>3
  <2>4. CASE n # 0
    <3>1. n - 1 \in Nat /\ ~(n <= n - 1)
      BY <2>2, <2>4
    <3>2. n - 1 \notin Bad
      BY <2>1, <3>1
    <3>3. PICK f : Part(n - 1, f)
      BY <3>1, <3>2
    <3> DEFINE g == [s \in Small(n) |-> Step(f, s)]
    <3>4. \A s \in Small(n - 1) : s \in Small(n) /\ f[s] = g[s]
      <4> TAKE s \in Small(n - 1)
      <4>1. s \in Small(n)
        BY <1>1, <2>2, <3>1
      <4>2. f[s] = Step(f, s)
        BY <3>3
      <4> HIDE DEF Step, Small
      <4> QED
        BY <4>1, <4>2
    <3>5. \A s \in Small(n) : Step(f, s) = Step(g, s)
      <4> TAKE s \in Small(n)
      <4>1. s # {} => s \ {The(s)} \in Small(n - 1)
        BY <1>1, <1>2, <2>2
      <4>2. s # {} => f[s \ {The(s)}] = g[s \ {The(s)}]
        BY <3>4, <4>1
      <4> HIDE DEF g, Small
      <4> QED
        BY <4>2
    <3>6. Part(n, g)
      <4>1. g = [s \in Small(n) |-> Step(f, s)]
        OBVIOUS
      <4> HIDE DEF g, Step, Small
      <4> QED
        BY <3>5, <4>1
    <3> QED
      BY <2>2, <3>6
  <2> QED
    BY <2>3, <2>4
<1>4. Cardinality(S) \in Nat
  BY FS_CardinalityType
<1>5. PICK f : Part(Cardinality(S), f)
  BY <1>3, <1>4
<1>6. Small(Cardinality(S)) = SUBSET S
  BY <1>1
<1>7. f = [s \in SUBSET S |-> Step(f, s)]
  <2> HIDE DEF Step, Small
  <2> QED
    BY <1>5, <1>6
<1> QED
  BY <1>7 DEF IsFold

LEMMA AfterAllIsAFold ==
  ASSUME NEW T, NEW S, IsFiniteSet(S)
  PROVE  \E f : IsFold(T, S, f) /\ AfterAll(T, S) = f[S]
<1>1. PICK f : IsFold(T, S, f)
  BY FoldExists
<1> QED
  BY <1>1 DEF AfterAll, FoldSet, MapThenFoldSet, IsFold, The

\* N is T after the cases S: what a dry run said of each has come true.
Followed(T, S, N) ==
    /\ N \in Tables /\ LinksLead(N) /\ EnoughIds(N)
    /\ SafeCases(N) = SafeCases(T)
    /\ \A c \in SafeCases(T) :
         Outcome(N, c) = IF c \in S /\ Outcome(T, c) = "applied" THEN "unchanged" ELSE Outcome(T, c)

LEMMA OneMoreCase ==
  ASSUME CutoverAssumption, NEW T, NEW S \in SUBSET SafeCases(T), NEW d \in S, NEW N,
         Followed(T, S \ {d}, N)
  PROVE  Followed(T, S, After(N, d))
<1> DEFINE new == After(N, d)
<1>1. /\ N \in Tables /\ LinksLead(N) /\ EnoughIds(N) /\ SafeCases(N) = SafeCases(T)
      /\ d \in SafeCases(N) /\ Outcome(N, d) = Outcome(T, d)
  BY DEF Followed
<1>2. /\ new \in Tables /\ LinksLead(new) /\ EnoughIds(new)
      /\ SafeCases(new) = SafeCases(N)
      /\ Outcome(new, d) = IF Outcome(N, d) = "applied" THEN "unchanged" ELSE Outcome(N, d)
      /\ \A c \in SafeCases(N) \ {d} : Outcome(new, c) = Outcome(N, c)
  BY <1>1, OneCaseAtATime
<1> HIDE DEF new
<1>3. ASSUME NEW c \in SafeCases(T)
      PROVE  Outcome(new, c) = IF c \in S /\ Outcome(T, c) = "applied" THEN "unchanged"
                               ELSE Outcome(T, c)
  <2>1. CASE c = d
    BY <1>1, <1>2, <2>1
  <2>2. CASE c # d
    <3>1. Outcome(new, c) = Outcome(N, c)
      BY <1>1, <1>2, <2>2
    <3> QED
      BY <2>2, <3>1 DEF Followed
  <2> QED
    BY <2>1, <2>2
<1> QED
  BY <1>1, <1>2, <1>3 DEF Followed, new

\* Of the sets of cases for which the fold did something else, one has the fewest cases.
LEMMA AfterAllFollows ==
  ASSUME CutoverAssumption, NEW T \in Tables, LinksLead(T), EnoughIds(T),
         NEW S \in SUBSET SafeCases(T)
  PROVE  Followed(T, S, AfterAll(T, S))
<1>1. IsFiniteSet(S)
  BY FinitelyMany, FS_Subset
<1>2. PICK f : IsFold(T, S, f) /\ AfterAll(T, S) = f[S]
  BY <1>1, AfterAllIsAFold
<1>3. \A s \in SUBSET S : /\ s = {} => f[s] = T
                          /\ s # {} => f[s] = After(f[s \ {The(s)}], The(s))
  BY <1>2 DEF IsFold
<1> DEFINE Bad == {s \in SUBSET S : ~Followed(T, s, f[s])}
           Sizes == {Cardinality(s) : s \in Bad}
<1>4. Bad = {}
  <2> SUFFICES ASSUME Bad # {} PROVE FALSE
    OBVIOUS
  <2>1. \A s \in SUBSET S : IsFiniteSet(s) /\ Cardinality(s) \in Nat
    BY <1>1, FS_Subset, FS_CardinalityType
  <2>2. PICK s \in Bad : \A t \in Bad : Cardinality(s) <= Cardinality(t)
    <3>1. Sizes \subseteq Nat /\ Sizes # {}
      BY <2>1
    <3>2. PICK n \in Sizes : \A m \in Sizes : n <= m
      <4> HIDE DEF Sizes
      <4> QED
        BY <3>1, LeastNatural
    <3> HIDE DEF Bad
    <3> QED
      BY <3>2
  <2>3. s \in SUBSET S /\ s \in SUBSET SafeCases(T) /\ ~Followed(T, s, f[s])
    BY <2>2
  <2>4. CASE s = {}
    <3>1. f[s] = T
      BY <1>3, <2>3, <2>4
    <3> QED
      BY <2>3, <2>4, <3>1 DEF Followed
  <2>5. CASE s # {}
    <3> DEFINE d == The(s)
               t == s \ {d}
    <3>1. d \in s /\ t \in SUBSET S /\ f[s] = After(f[t], d)
      BY <1>3, <2>3, <2>5 DEF The
    <3>2. Cardinality(t) = Cardinality(s) - 1
      BY <2>1, <2>3, <3>1, FS_RemoveElement
    <3>3. ~(Cardinality(s) <= Cardinality(t))
      BY <2>1, <2>3, <3>2
    <3> HIDE DEF d
    <3>4. Followed(T, t, f[t])
      BY <2>2, <3>1, <3>3
    <3> QED
      BY <2>3, <3>1, <3>4, OneMoreCase
  <2> QED
    BY <2>4, <2>5
<1>5. Followed(T, S, f[S])
  BY <1>4
<1> QED
  BY <1>2, <1>5

\* A dry run says what an apply does (auth-legacy-backfill.ts), as long as there are ids for
\* the new users: no safe case is in the way of another, because the user that one gets has
\* none of the identifiers of the other.  The tables need not be at rest.
THEOREM TheDryRunIsRight ==
  ASSUME CutoverAssumption
  PROVE  Spec => [](EnoughIds(db) => ApplyDoesWhatTheDryRunSaid)
<1>1. ASSUME Safe, EnoughIds(db) PROVE ApplyDoesWhatTheDryRunSaid
  <2> DEFINE cases == SafeCases(db)
  <2>1. db \in Tables /\ LinksLead(db)
    BY <1>1 DEF Safe, Ok, TypeOK, Linked, AdminsAreUsers, BarbersAreUsers, LinksLead
  <2>2. \A S \in SUBSET cases : Followed(db, S, AfterAll(db, S))
    BY <1>1, <2>1, AfterAllFollows
  <2> HIDE DEF cases
  <2>3. ASSUME NEW c \in cases
        PROVE  Outcome(AfterAll(db, cases \ {c}), c) = Outcome(db, c)
    <3>1. Followed(db, cases \ {c}, AfterAll(db, cases \ {c}))
      BY <2>2
    <3> QED
      BY <3>1 DEF Followed, cases
  <2>4. ASSUME NEW c \in cases, Outcome(db, c) = "applied"
        PROVE  c \in SafeCases(AfterAll(db, cases)) /\ Outcome(AfterAll(db, cases), c) = "unchanged"
    <3>1. Followed(db, cases, AfterAll(db, cases))
      BY <2>2
    <3> QED
      BY <2>4, <3>1 DEF Followed, cases
  <2> QED
    BY <2>3, <2>4 DEF ApplyDoesWhatTheDryRunSaid, cases
<1> QED
  BY <1>1, UsersStayLinked, PTL

=============================================================================
