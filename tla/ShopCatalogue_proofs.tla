------------------------ MODULE ShopCatalogue_proofs ------------------------
(***************************************************************************)
(* The lists of an installation stay in order, and who books online gets   *)
(* what was on sale, for every installation, every number of sessions and  *)
(* of requests and whatever they change meanwhile.                         *)
(***************************************************************************)
EXTENDS ShopCatalogue, FiniteSetTheorems, WellFoundedInduction, TLAPS

-----------------------------------------------------------------------------
IsASequence(s) == s \in Seq(Range(s))

\* Every session has a request, of some kind.
Shape ==
    /\ DOMAIN req = Sessions /\ \A r \in Sessions : "at" \in DOMAIN req[r]
    /\ IsASequence(services) /\ IsASequence(visits)

-----------------------------------------------------------------------------
(* The lists *)

HoldsLock(q) == "lock" \in DOMAIN q

PlacesOK ==
    /\ places \in Seq(Nat) /\ IsInjective(places) /\ Len(places) <= MaxLocations
    /\ \A l \in DOMAIN places : places[l] < Len(places)
    /\ ~multi => Len(places) = 1

\* The positions of the categories that exist are distinct and below the number ever created.
CategoriesOK ==
    /\ categories \in Seq(Nat \cup {None})
    /\ \A c \in Existing : categories[c] < Len(categories)
    /\ \A c, d \in Existing : categories[c] = categories[d] => c = d

\* What a request that holds a lock relies on.
Listing(q) ==
    /\ HoldsLock(q) <=> q.at \in {"location", "category", "reorder"}
    /\ q.at = "location" =>
        /\ multi /\ q.lock = "locations"
        /\ q.position = Len(places) /\ Len(places) < MaxLocations
    /\ q.at = "category" =>
        /\ q.lock = "categories" /\ q.position \in Nat /\ q.position <= Len(categories)
        /\ \A c \in Existing : categories[c] < q.position
    /\ q.at = "reorder" =>
        /\ q.lock = "categories"
        /\ Existing \subseteq DOMAIN q.order
        /\ \A c \in DOMAIN q.order : q.order[c] \in Nat /\ q.order[c] < Len(categories)
        /\ IsInjective(q.order)

OneHolder ==
    \A r, o \in Sessions : HoldsLock(req[r]) /\ HoldsLock(req[o]) /\ req[r].lock = req[o].lock => r = o

ListsInv == PlacesOK /\ CategoriesOK /\ OneHolder /\ \A r \in Sessions : Listing(req[r])

-----------------------------------------------------------------------------
(* What is on sale *)

\* What was in force, of a service at a location, when it was booked.
OnSale(s, l, price) ==
    IF multi THEN <<s, l, price, TRUE>> \in charged
    ELSE /\ \E p \in {t[3] : t \in charged} : <<s, l, p, TRUE>> \in charged
         /\ \E active \in BOOLEAN : <<s, l, price, active>> \in charged

OffersOK ==
    \A k \in DOMAIN offers :
        /\ Exists(k[1])
        /\ {"active", "price"} \subseteq DOMAIN offers[k] /\ offers[k].active \in BOOLEAN
        /\ <<k[1], k[2], ResolvedPrice(services[k[1]], offers[k]), offers[k].active>> \in charged

\* What a request that changes an offer carries.
Trading(q) ==
    q.at \in {"update", "upsert"} =>
        /\ q.service \in DOMAIN services /\ q.location \in Locations
        /\ "active" \in DOMAIN q.change => q.change.active \in BOOLEAN
        /\ ~multi => "price" \notin DOMAIN q.change
        /\ q.at = "update" => (multi => q.price = None)
        /\ q.at = "update" /\ Exists(q.service) => Offered(q.service, q.location)

\* What a booking has read, before all is read.
Reading(q) ==
    LET s == q.service
        l == q.location
        key == <<s, l>>
    IN q.at = "terms" =>
        /\ DOMAIN q = {"at", "barber", "service", "location", "price", "offer"}
        /\ s \in DOMAIN services /\ l \in Locations
        /\ multi =>
            /\ q.price # None /\ Exists(s) => q.price = services[s]
            /\ q.offer # None /\ Exists(s) => <<s, l, ResolvedPrice(services[s], q.offer), TRUE>> \in charged
        /\ ~multi =>
            /\ q.offer # None => \E p \in {t[3] : t \in charged} : <<s, l, p, TRUE>> \in charged
            /\ q.offer # None /\ Exists(s) => Offered(s, l) /\ offers[key].price = q.offer.price
            /\ q.price # None /\ Exists(s) /\ Offered(s, l) =>
                 \E active \in BOOLEAN : <<s, l, ResolvedPrice(q.price, offers[key]), active>> \in charged
            /\ q.price # None /\ Exists(s) /\ ~Offered(s, l) => q.price = services[s]
        /\ q.price # None /\ q.offer # None => OnSale(s, l, ResolvedPrice(q.price, q.offer))

\* What it knows afterwards.
Booking(q) ==
    /\ q.at = "team" =>
        /\ OnSale(q.service, q.location, q.price)
        /\ \A b \in q.able : <<b, q.service, q.location>> \in chosen
    /\ q.at = "book" =>
        /\ OnSale(q.service, q.location, q.price)
        /\ <<q.barber, q.service, q.location>> \in chosen

\* Whoever is about to be selected was asked for.
Selecting(q) ==
    q.at \in {"select", "selected"} =>
        \A s \in q.selected : <<q.barber, s, q.location>> \in chosen

VisitsOK ==
    \A v \in DOMAIN visits :
        /\ {"barber", "service", "booked", "location", "price"} \subseteq DOMAIN visits[v]
        /\ <<visits[v].barber, visits[v].booked, visits[v].location>> \in chosen
        /\ OnSale(visits[v].booked, visits[v].location, visits[v].price)

SaleInv ==
    /\ OffersOK /\ VisitsOK /\ skills \subseteq chosen
    /\ \A r \in Sessions :
        Trading(req[r]) /\ Reading(req[r]) /\ Booking(req[r]) /\ Selecting(req[r])

-----------------------------------------------------------------------------
(* Sequences and the greatest of a set *)

LEMMA AppendIsASequence ==
  ASSUME NEW s, IsASequence(s), NEW v
  PROVE  /\ IsASequence(Append(s, v)) /\ Len(s) \in Nat /\ Len(Append(s, v)) = Len(s) + 1
         /\ DOMAIN s = 1..Len(s) /\ DOMAIN Append(s, v) = DOMAIN s \cup {Len(s) + 1}
         /\ Append(s, v)[Len(s) + 1] = v /\ \A i \in DOMAIN s : Append(s, v)[i] = s[i]
<1> DEFINE T == Range(s) \cup {v}
<1>1. s \in Seq(T) /\ v \in T
  BY DEF IsASequence
<1> HIDE DEF T
<1>2. /\ Append(s, v) \in Seq(T) /\ Len(s) \in Nat /\ Len(Append(s, v)) = Len(s) + 1
      /\ DOMAIN s = 1..Len(s) /\ DOMAIN Append(s, v) = 1..(Len(s) + 1)
      /\ Append(s, v)[Len(s) + 1] = v /\ \A i \in DOMAIN s : Append(s, v)[i] = s[i]
  BY <1>1
<1>3. DOMAIN Append(s, v) = DOMAIN s \cup {Len(s) + 1}
  BY <1>2
<1>4. \A i \in 1..Len(Append(s, v)) : Append(s, v)[i] \in Range(Append(s, v))
  BY <1>2 DEF Range
<1>5. Append(s, v) \in Seq(Range(Append(s, v)))
  BY <1>2, <1>4
<1> QED
  BY <1>2, <1>3, <1>5 DEF IsASequence

LEMMA ChangeIsASequence ==
  ASSUME NEW s, IsASequence(s), NEW f, f = [i \in DOMAIN s |-> f[i]]
  PROVE  IsASequence(f)
<1>1. s \in Seq(Range(s)) /\ Len(s) \in Nat /\ DOMAIN s = 1..Len(s)
  BY DEF IsASequence
<1>2. \A i \in DOMAIN s : f[i] \in Range(f)
  BY DEF Range
<1>3. [i \in 1..Len(s) |-> f[i]] \in Seq(Range(f))
  BY <1>1, <1>2
<1> QED
  BY <1>1, <1>3 DEF IsASequence

LEMMA LeastNatural ==
  ASSUME NEW T, T \subseteq Nat, T # {}
  PROVE  \E x \in T : \A y \in T : x <= y
<1> DEFINE R == OpToRel(<, Nat)
<1>1. IsWellFoundedOn(R, Nat)
  BY NatLessThanWellFounded
<1>2. \A x, y \in Nat : y < x => <<y, x>> \in R
  BY DEF OpToRel
<1> HIDE DEF R
<1>3. PICK x \in T : \A y \in T : ~(<<y, x>> \in R)
  BY <1>1, WFMin
<1>4. ASSUME NEW y \in T PROVE x <= y
  <2>1. x \in Nat /\ y \in Nat
    OBVIOUS
  <2>2. ~(y < x)
    BY <1>2, <1>3, <2>1
  <2> QED
    BY <2>1, <2>2
<1> QED
  BY <1>4

\* The greatest of a finite set of integers, which FiniteSetsExt chooses, exists.
LEMMA MaxIsGreatest ==
  ASSUME NEW S, S \subseteq Int, S # {}, NEW b \in Int, \A x \in S : x <= b
  PROVE  Max(S) \in S /\ \A y \in S : y <= Max(S)
<1> DEFINE T == {b - x : x \in S}
<1>1. T \subseteq Nat /\ T # {}
  OBVIOUS
<1>2. PICK t \in T : \A y \in T : t <= y
  BY <1>1, LeastNatural
<1>3. PICK x \in S : t = b - x
  OBVIOUS
<1>4. \A y \in S : x >= y
  <2> TAKE y \in S
  <2>1. b - y \in T
    OBVIOUS
  <2>2. b - x <= b - y /\ x \in Int /\ y \in Int
    BY <1>2, <1>3, <2>1
  <2> QED
    BY <2>2
<1>5. \E z \in S : \A y \in S : z >= y
  BY <1>4
<1>6. Max(S) \in S /\ \A y \in S : Max(S) >= y
  BY <1>5 DEF Max
<1> QED
  BY <1>6

IInv == Shape /\ ListsInv /\ SaleInv

-----------------------------------------------------------------------------
(* Steps on the lists *)

\* Categories may be deleted, not moved.
Fewer ==
    /\ Len(categories') = Len(categories)
    /\ Existing' \subseteq Existing /\ \A c \in Existing' : categories'[c] = categories[c]

\* What a request relies on stays so while the list it locked is not changed.
LEMMA ListingStays ==
  ASSUME NEW q, Listing(q), multi' = multi,
         q.at = "location" => places' = places,
         q.at \in {"category", "reorder"} => Fewer
  PROVE  Listing(q)'
<1>1. HoldsLock(q)' <=> HoldsLock(q)
  BY DEF HoldsLock
<1>2. CASE q.at = "location"
  BY <1>1, <1>2 DEF Listing
<1>3. CASE q.at = "category"
  BY <1>1, <1>3 DEF Listing, Fewer
<1>4. CASE q.at = "reorder"
  BY <1>1, <1>4 DEF Listing, Fewer
<1>5. CASE q.at \notin {"location", "category", "reorder"}
  BY <1>1, <1>5 DEF Listing
<1> QED
  BY <1>2, <1>3, <1>4, <1>5

\* A step of one session on the lists, or on something else.
LEMMA ListsStep ==
  ASSUME Shape, ListsInv, NEW r \in Sessions, NEW x, req' = [req EXCEPT ![r] = x],
         multi' = multi, PlacesOK', CategoriesOK',
         HoldsLock(x) => Free(x.lock), Listing(x)',
         places' = places \/ req[r].at = "location",
         Fewer \/ req[r].at \in {"category", "reorder"}
  PROVE  ListsInv'
<1>1. DOMAIN req = Sessions /\ req'[r] = x /\ \A o \in Sessions \ {r} : req'[o] = req[o]
  BY DEF Shape
<1>2. OneHolder'
  <2> SUFFICES ASSUME NEW o \in Sessions, NEW p \in Sessions, HoldsLock(req'[o]), HoldsLock(req'[p]),
                      req'[o].lock = req'[p].lock
               PROVE  o = p
    BY DEF OneHolder, HoldsLock
  <2>1. ASSUME NEW s \in Sessions \ {r}, HoldsLock(req'[s]) PROVE req'[s].lock # x.lock \/ ~HoldsLock(x)
    BY <1>1, <2>1 DEF Free, HoldsLock
  <2> QED
    BY <1>1, <2>1 DEF ListsInv, OneHolder
<1>3. ASSUME NEW o \in Sessions \ {r}, NEW q, q = req[o] PROVE Listing(q)'
  <2>1. Listing(q) /\ Listing(req[r])
    BY <1>3 DEF ListsInv
  <2>2. q.at = "location" => places' = places
    BY <2>1, <1>3 DEF Listing, ListsInv, OneHolder
  <2>3. q.at \in {"category", "reorder"} => Fewer
    BY <2>1, <1>3 DEF Listing, ListsInv, OneHolder
  <2> QED
    BY <2>1, <2>2, <2>3, ListingStays
<1>4. ASSUME NEW o \in Sessions PROVE Listing(req[o])'
  <2>1. PICK q : q = req'[o]
    OBVIOUS
  <2>2. Listing(q)'
    BY <1>1, <1>3, <2>1
  <2> QED
    BY <2>1, <2>2 DEF Listing, HoldsLock
<1> QED
  BY <1>2, <1>4 DEF ListsInv

LEMMA UpTo ==
  ASSUME NEW n \in Nat
  PROVE  IsFiniteSet(1..n) /\ Cardinality(1..n) = n
<1>1. 1 \in Int /\ n \in Int
  OBVIOUS
<1>2. IsFiniteSet(1..n) /\ Cardinality(1..n) = IF 1 > n THEN 0 ELSE n - 1 + 1
  BY <1>1, FS_Interval
<1> QED
  BY <1>2

LEMMA Counting ==
  ASSUME ListsInv
  PROVE  /\ Len(places) \in Nat /\ Locations = 1..Len(places) /\ Cardinality(Locations) = Len(places)
         /\ Len(categories) \in Nat /\ DOMAIN categories = 1..Len(categories)
         /\ \A c \in Existing : c \in 1..Len(categories) /\ categories[c] \in Nat
         /\ Cardinality(Existing) \in Nat /\ Cardinality(Existing) <= Len(categories)
<1>1. Len(places) \in Nat /\ Locations = 1..Len(places)
  BY DEF ListsInv, PlacesOK, Locations
<1>2. Len(categories) \in Nat /\ DOMAIN categories = 1..Len(categories)
  BY DEF ListsInv, CategoriesOK
<1>3. Cardinality(1..Len(places)) = Len(places)
  BY <1>1, UpTo
<1>4. IsFiniteSet(1..Len(categories)) /\ Cardinality(1..Len(categories)) = Len(categories)
  BY <1>2, UpTo
<1>5. Existing \subseteq 1..Len(categories)
  BY <1>2 DEF Existing
<1>6. IsFiniteSet(Existing) /\ Cardinality(Existing) <= Len(categories)
  BY <1>4, <1>5, FS_Subset
<1>7. \A c \in Existing : categories[c] \in Nat
  BY <1>2, <1>5 DEF Existing, ListsInv, CategoriesOK
<1> QED
  BY <1>1, <1>2, <1>3, <1>5, <1>6, <1>7, FS_CardinalityType

LEMMA CreateLocationStep ==
  ASSUME Shape, ListsInv, NEW r \in Sessions, CreateLocation(r)
  PROVE  ListsInv'
<1>1. PICK x : x = [at |-> "location", lock |-> "locations", position |-> Cardinality(Locations)]
  OBVIOUS
<1>2. /\ req' = [req EXCEPT ![r] = x] /\ UNCHANGED <<multi, places, categories>>
      /\ Free("locations") /\ multi /\ Cardinality(Locations) < MaxLocations
  BY <1>1 DEF CreateLocation, Begin, lists
<1>3. x.at = "location" /\ x.lock = "locations" /\ x.position = Len(places) /\ HoldsLock(x)
  BY <1>1, Counting DEF HoldsLock
<1>4. Listing(x)'
  BY <1>2, <1>3, Counting DEF Listing, HoldsLock
<1>5. PlacesOK' /\ CategoriesOK' /\ Fewer
  BY <1>2 DEF ListsInv, PlacesOK, CategoriesOK, Fewer, Existing
<1> QED
  BY <1>2, <1>3, <1>4, <1>5, ListsStep

LEMMA IdleListing == ~HoldsLock(Idle) /\ Idle.at = "idle" /\ Listing(Idle)'
  BY DEF Idle, HoldsLock, Listing

LEMMA InsertLocationStep ==
  ASSUME Shape, ListsInv, NEW r \in Sessions, InsertLocation(r)
  PROVE  ListsInv'
<1>1. /\ req' = [req EXCEPT ![r] = Idle] /\ UNCHANGED <<multi, categories>>
      /\ req[r].at = "location" /\ places' = Append(places, req[r].position)
  BY DEF InsertLocation, Finish, Continue
<1>2. multi /\ req[r].position = Len(places) /\ Len(places) < MaxLocations
  BY <1>1 DEF ListsInv, Listing
<1>3. /\ places' \in Seq(Nat) /\ Len(places') = Len(places) + 1 /\ Len(places) \in Nat
      /\ DOMAIN places' = 1..Len(places) + 1 /\ DOMAIN places = 1..Len(places)
      /\ places'[Len(places) + 1] = Len(places)
      /\ \A l \in DOMAIN places : places'[l] = places[l]
  BY <1>1, <1>2 DEF ListsInv, PlacesOK
<1>4. \A l \in DOMAIN places : places[l] \in Nat /\ places[l] < Len(places)
  BY DEF ListsInv, PlacesOK
<1>5. \A l \in DOMAIN places' : places'[l] < Len(places')
  BY <1>3, <1>4
<1>6. IsInjective(places')
  <2>1. IsInjective(places)
    BY DEF ListsInv, PlacesOK
  <2> SUFFICES ASSUME NEW a \in DOMAIN places', NEW b \in DOMAIN places', places'[a] = places'[b]
               PROVE  a = b
    BY DEF IsInjective
  <2>2. CASE a \in DOMAIN places /\ b \in DOMAIN places
    BY <1>3, <2>1, <2>2 DEF IsInjective
  <2>3. CASE a \notin DOMAIN places \/ b \notin DOMAIN places
    BY <1>3, <1>4, <2>3
  <2> QED
    BY <2>2, <2>3
<1>7. PlacesOK'
  BY <1>1, <1>2, <1>3, <1>5, <1>6, InstallationAssumption DEF PlacesOK
<1>8. CategoriesOK' /\ Fewer
  BY <1>1 DEF ListsInv, CategoriesOK, Fewer, Existing
<1> QED
  BY <1>1, <1>7, <1>8, IdleListing, ListsStep

LEMMA CreateCategoryStep ==
  ASSUME Shape, ListsInv, NEW r \in Sessions, CreateServiceCategory(r)
  PROVE  ListsInv'
<1> DEFINE S == {categories[c] : c \in Existing} \cup {-1}
<1>1. PICK x : x = [at |-> "category", lock |-> "categories", position |-> Max(S) + 1]
  OBVIOUS
<1>2. /\ req' = [req EXCEPT ![r] = x] /\ UNCHANGED <<multi, places, categories>>
      /\ Free("categories")
  BY <1>1 DEF CreateServiceCategory, Begin, lists
<1>3. S \subseteq Int /\ S # {} /\ -1 \in S /\ Len(categories) \in Nat
  BY Counting
<1>4. \A p \in S : p <= Len(categories) - 1
  BY Counting DEF ListsInv, CategoriesOK
<1>5. Max(S) \in S /\ \A p \in S : p <= Max(S)
  <2> HIDE DEF S
  <2>1. Len(categories) - 1 \in Int
    BY <1>3
  <2> QED
    BY <1>3, <1>4, <2>1, MaxIsGreatest
<1>6. \A c \in Existing : categories[c] \in S /\ categories[c] \in Int
  BY Counting
<1>7. /\ Max(S) + 1 \in Nat /\ Max(S) + 1 <= Len(categories)
      /\ \A c \in Existing : categories[c] < Max(S) + 1
  <2> HIDE DEF S
  <2>1. PICK m : m = Max(S)
    OBVIOUS
  <2>2. m \in Int /\ -1 <= m /\ m <= Len(categories) - 1
    BY <1>3, <1>4, <1>5, <2>1
  <2>3. \A c \in Existing : categories[c] <= m
    BY <1>5, <1>6, <2>1
  <2>4. m + 1 \in Nat /\ m + 1 <= Len(categories)
    BY <1>3, <2>2
  <2>5. \A c \in Existing : categories[c] < m + 1
    BY <1>6, <2>2, <2>3
  <2> QED
    BY <2>1, <2>4, <2>5
<1> HIDE DEF S
<1>8. x.at = "category" /\ x.lock = "categories" /\ x.position = Max(S) + 1 /\ HoldsLock(x)
  BY <1>1 DEF HoldsLock
<1>9. Existing' = Existing
  BY <1>2 DEF Existing
<1>10. Listing(x)'
  BY <1>2, <1>7, <1>8, <1>9 DEF Listing, HoldsLock
<1>11. PlacesOK' /\ CategoriesOK' /\ Fewer
  BY <1>2, <1>9 DEF ListsInv, PlacesOK, CategoriesOK, Fewer
<1> QED
  BY <1>2, <1>8, <1>10, <1>11, ListsStep

LEMMA InsertCategoryStep ==
  ASSUME Shape, ListsInv, NEW r \in Sessions, InsertServiceCategory(r)
  PROVE  ListsInv'
<1>1. /\ req' = [req EXCEPT ![r] = Idle] /\ UNCHANGED <<multi, places>>
      /\ req[r].at = "category" /\ categories' = Append(categories, req[r].position)
  BY DEF InsertServiceCategory, Finish, Continue
<1>2. PICK p : p = req[r].position
  OBVIOUS
<1>3. p \in Nat /\ p <= Len(categories) /\ \A c \in Existing : categories[c] < p
  BY <1>1, <1>2 DEF ListsInv, Listing
<1>4. categories \in Seq(Nat \cup {None}) /\ categories' = Append(categories, p) /\ p # None
  BY <1>1, <1>2, <1>3, InstallationAssumption DEF ListsInv, CategoriesOK
<1>5. /\ categories' \in Seq(Nat \cup {None}) /\ Len(categories') = Len(categories) + 1
      /\ Len(categories) \in Nat
      /\ DOMAIN categories' = 1..Len(categories) + 1 /\ DOMAIN categories = 1..Len(categories)
      /\ categories'[Len(categories) + 1] = p
      /\ \A c \in DOMAIN categories : categories'[c] = categories[c]
  BY <1>3, <1>4
<1>6. Existing' = Existing \cup {Len(categories) + 1}
  BY <1>4, <1>5 DEF Existing
<1>7. \A c \in Existing : /\ categories[c] \in Nat /\ categories'[c] = categories[c]
                          /\ categories[c] < Len(categories)
  BY <1>5, Counting DEF ListsInv, CategoriesOK
<1>8. CategoriesOK'
  <2>1. \A c \in Existing' : categories'[c] < Len(categories')
    BY <1>3, <1>5, <1>6, <1>7
  <2>2. \A c, d \in Existing : categories[c] = categories[d] => c = d
    BY DEF ListsInv, CategoriesOK
  <2>3. \A c \in Existing : categories'[c] # p
    BY <1>3, <1>7
  <2>4. \A c, d \in Existing' : categories'[c] = categories'[d] => c = d
    BY <1>5, <1>6, <1>7, <2>2, <2>3
  <2> QED
    BY <1>5, <2>1, <2>4 DEF CategoriesOK
<1>9. PlacesOK'
  BY <1>1 DEF ListsInv, PlacesOK
<1> QED
  BY <1>1, <1>8, <1>9, IdleListing, ListsStep

LEMMA ReorderStep ==
  ASSUME Shape, ListsInv, NEW r \in Sessions, NEW listed,
         NEW order \in Bijection(listed, 0..(Cardinality(listed) - 1)),
         ReorderServiceCategories(r, listed, order)
  PROVE  ListsInv'
<1>1. PICK x : x = [at |-> "reorder", lock |-> "categories", order |-> order]
  OBVIOUS
<1>2. /\ req' = [req EXCEPT ![r] = x] /\ UNCHANGED <<multi, places, categories>>
      /\ Free("categories") /\ listed = Existing
  BY <1>1 DEF ReorderServiceCategories, IsCurrentList, Begin, lists
<1>3. order \in [Existing -> 0..(Cardinality(Existing) - 1)] /\ IsInjective(order)
  BY <1>2 DEF Bijection, Injection
<1>4. /\ DOMAIN order = Existing
      /\ \A c \in DOMAIN order : order[c] \in Nat /\ order[c] < Len(categories)
  BY <1>3, Counting
<1>5. x.at = "reorder" /\ x.lock = "categories" /\ x.order = order /\ HoldsLock(x)
  BY <1>1 DEF HoldsLock
<1>6. Existing' = Existing
  BY <1>2 DEF Existing
<1>7. Listing(x)'
  BY <1>2, <1>3, <1>4, <1>5, <1>6 DEF Listing, HoldsLock
<1>8. PlacesOK' /\ CategoriesOK' /\ Fewer
  BY <1>2, <1>6 DEF ListsInv, PlacesOK, CategoriesOK, Fewer
<1> QED
  BY <1>2, <1>5, <1>7, <1>8, ListsStep

LEMMA UpdatePositionsStep ==
  ASSUME Shape, ListsInv, NEW r \in Sessions, UpdatePositions(r)
  PROVE  ListsInv'
<1>1. PICK order : order = req[r].order
  OBVIOUS
<1>2. /\ req' = [req EXCEPT ![r] = Idle] /\ UNCHANGED <<multi, places>>
      /\ req[r].at = "reorder"
      /\ categories' = [c \in DOMAIN categories |->
                          IF c \in Existing \cap DOMAIN order THEN order[c] ELSE categories[c]]
  BY <1>1 DEF UpdatePositions, Finish, Continue
<1>3. /\ Existing \subseteq DOMAIN order /\ IsInjective(order)
      /\ \A c \in DOMAIN order : order[c] \in Nat /\ order[c] < Len(categories)
  BY <1>1, <1>2 DEF ListsInv, Listing
<1>4. /\ categories' \in Seq(Nat \cup {None}) /\ Len(categories') = Len(categories)
      /\ DOMAIN categories' = DOMAIN categories
  <2>1. categories \in Seq(Nat \cup {None}) /\ DOMAIN categories = 1..Len(categories) /\ Len(categories) \in Nat
    BY DEF ListsInv, CategoriesOK
  <2>2. \A c \in DOMAIN categories : categories'[c] \in Nat \cup {None}
    BY <1>2, <1>3, <2>1
  <2>3. categories' = [c \in 1..Len(categories) |-> categories'[c]]
    BY <1>2, <2>1
  <2> QED
    BY <2>1, <2>2, <2>3
<1>5. /\ \A c \in Existing : categories'[c] = order[c]
      /\ \A c \in DOMAIN categories \ Existing : categories'[c] = categories[c]
  BY <1>2, <1>3 DEF Existing
<1>6. Existing' = Existing
  BY <1>3, <1>4, <1>5, InstallationAssumption DEF Existing
<1>7. CategoriesOK'
  BY <1>3, <1>4, <1>5, <1>6 DEF CategoriesOK, IsInjective
<1>8. PlacesOK'
  BY <1>2 DEF ListsInv, PlacesOK
<1> QED
  BY <1>2, <1>7, <1>8, IdleListing, ListsStep

LEMMA DeleteCategoryStep ==
  ASSUME Shape, ListsInv, NEW r \in Sessions, NEW c \in DOMAIN categories, DeleteServiceCategory(r, c)
  PROVE  ListsInv'
<1>1. /\ req' = [req EXCEPT ![r] = Idle] /\ UNCHANGED <<multi, places>>
      /\ categories' = [categories EXCEPT ![c] = None]
  BY DEF DeleteServiceCategory, Begin
<1>2. categories \in Seq(Nat \cup {None})
  BY DEF ListsInv, CategoriesOK
<1>3. /\ categories' \in Seq(Nat \cup {None}) /\ Len(categories') = Len(categories)
      /\ DOMAIN categories' = DOMAIN categories
      /\ categories'[c] = None /\ \A d \in DOMAIN categories \ {c} : categories'[d] = categories[d]
  BY <1>1, <1>2
<1>4. Fewer
  BY <1>3 DEF Existing, Fewer
<1>5. CategoriesOK'
  BY <1>3, <1>4 DEF CategoriesOK, ListsInv, Fewer
<1>6. PlacesOK'
  BY <1>1 DEF ListsInv, PlacesOK
<1> QED
  BY <1>1, <1>4, <1>5, <1>6, IdleListing, ListsStep

-----------------------------------------------------------------------------
(* Steps on what is sold *)

\* What every step keeps of the services and offers, and of their history.
TradeStep ==
    /\ multi' = multi /\ charged \subseteq charged' /\ chosen \subseteq chosen'
    /\ DOMAIN services \subseteq DOMAIN services' /\ Locations \subseteq Locations'
    /\ \A s \in DOMAIN services : Exists(s)' => Exists(s)
    /\ \A k \in DOMAIN offers : Exists(k[1])' => k \in DOMAIN offers'
    /\ multi => \A s \in DOMAIN services : Exists(s)' => services'[s] = services[s]
    /\ ~multi => \A k \in DOMAIN offers \cap DOMAIN offers' : offers'[k].price = offers[k].price
    /\ ~multi => \A s \in DOMAIN services, l \in Locations :
                    Exists(s)' /\ ~Offered(s, l) =>
                        /\ services'[s] = services[s]
                        /\ Offered(s, l)' => offers'[<<s, l>>].price = None

LEMMA OnSaleStays ==
  ASSUME TradeStep, NEW s, NEW l, NEW price, OnSale(s, l, price)
  PROVE  OnSale(s, l, price)'
<1>1. multi' = multi /\ charged \subseteq charged'
  BY DEF TradeStep
<1>2. \A p : p \in {t[3] : t \in charged} => p \in {t[3] : t \in charged'}
  BY <1>1
<1>3. CASE multi
  BY <1>1, <1>3 DEF OnSale
<1>4. CASE ~multi
  BY <1>1, <1>2, <1>4 DEF OnSale
<1> QED
  BY <1>3, <1>4

LEMMA VisitsStay ==
  ASSUME VisitsOK, TradeStep, visits' = visits
  PROVE  VisitsOK'
<1> SUFFICES ASSUME NEW v \in DOMAIN visits
             PROVE  /\ {"barber", "service", "booked", "location", "price"} \subseteq DOMAIN visits[v]
                    /\ <<visits[v].barber, visits[v].booked, visits[v].location>> \in chosen'
                    /\ OnSale(visits[v].booked, visits[v].location, visits[v].price)'
  BY DEF VisitsOK
<1>1. PICK b : b = visits[v]
  OBVIOUS
<1>2. PICK s, l, p : s = b.booked /\ l = b.location /\ p = b.price
  OBVIOUS
<1>3. OnSale(s, l, p) /\ <<b.barber, s, l>> \in chosen
  BY <1>1, <1>2 DEF VisitsOK
<1>4. OnSale(s, l, p)' /\ <<b.barber, s, l>> \in chosen'
  BY <1>3, OnSaleStays DEF TradeStep
<1>5. {"barber", "service", "booked", "location", "price"} \subseteq DOMAIN visits[v]
  BY DEF VisitsOK
<1>6. OnSale(visits[v].booked, visits[v].location, visits[v].price)'
  BY <1>1, <1>2, <1>4 DEF OnSale
<1> QED
  BY <1>1, <1>2, <1>4, <1>5, <1>6

LEMMA TradingStays ==
  ASSUME NEW q, Trading(q), TradeStep
  PROVE  Trading(q)'
<1> SUFFICES ASSUME q.at \in {"update", "upsert"}
             PROVE  /\ q.service \in DOMAIN services' /\ q.location \in Locations'
                    /\ "active" \in DOMAIN q.change => q.change.active \in BOOLEAN
                    /\ ~multi' => "price" \notin DOMAIN q.change
                    /\ q.at = "update" => (multi' => q.price = None)
                    /\ q.at = "update" /\ Exists(q.service)' => Offered(q.service, q.location)'
  BY DEF Trading
<1>1. PICK s, l : s = q.service /\ l = q.location
  OBVIOUS
<1>2. ASSUME q.at = "update", Exists(s)' PROVE Offered(s, l)'
  <2>1. Exists(s)
    BY <1>1, <1>2 DEF Trading, TradeStep
  <2>2. <<s, l>> \in DOMAIN offers /\ <<s, l>>[1] = s
    BY <1>1, <1>2, <2>1 DEF Trading, Offered
  <2> QED
    BY <1>2, <2>2 DEF TradeStep, Offered
<1>3. q.at = "update" /\ Exists(q.service)' => Offered(q.service, q.location)'
  BY <1>1, <1>2 DEF Exists, Offered
<1> QED
  BY <1>3 DEF Trading, TradeStep

LEMMA OtherRequestsStay ==
  ASSUME NEW q, TradeStep
  PROVE  (Booking(q) => Booking(q)') /\ (Selecting(q) => Selecting(q)')
<1>1. chosen \subseteq chosen'
  BY DEF TradeStep
<1>2. PICK s, l, p : s = q.service /\ l = q.location /\ p = q.price
  OBVIOUS
<1>3. OnSale(s, l, p) => OnSale(s, l, p)'
  BY OnSaleStays
<1>4. OnSale(q.service, q.location, q.price) => OnSale(q.service, q.location, q.price)'
  BY <1>2, <1>3 DEF OnSale
<1>5. Booking(q) => Booking(q)'
  BY <1>1, <1>4 DEF Booking
<1>6. Selecting(q) => Selecting(q)'
  BY <1>1 DEF Selecting
<1> QED
  BY <1>5, <1>6

LEMMA ReadingStays ==
  ASSUME NEW q, Reading(q), TradeStep, OffersOK'
  PROVE  Reading(q)'
<1> SUFFICES ASSUME q.at = "terms" PROVE Reading(q)'
  BY DEF Reading
<1>1. PICK s, l : s = q.service /\ l = q.location
  OBVIOUS
<1>2. /\ DOMAIN q = {"at", "barber", "service", "location", "price", "offer"}
      /\ s \in DOMAIN services /\ l \in Locations
  BY <1>1 DEF Reading
<1>3. s \in DOMAIN services' /\ l \in Locations' /\ multi' = multi /\ (Exists(s)' => Exists(s))
  BY <1>2 DEF TradeStep
<1>4. ASSUME multi
      PROVE  /\ q.price # None /\ Exists(s)' => q.price = services'[s]
             /\ q.offer # None /\ Exists(s)' => <<s, l, ResolvedPrice(services'[s], q.offer), TRUE>> \in charged'
  <2>1. Exists(s)' => services'[s] = services[s]
    BY <1>2, <1>4 DEF TradeStep
  <2>2. /\ q.price # None /\ Exists(s) => q.price = services[s]
        /\ q.offer # None /\ Exists(s) => <<s, l, ResolvedPrice(services[s], q.offer), TRUE>> \in charged
    BY <1>1, <1>4 DEF Reading
  <2>3. charged \subseteq charged'
    BY DEF TradeStep
  <2> QED
    BY <1>3, <2>1, <2>2, <2>3
<1>5. ASSUME ~multi, q.offer # None
      PROVE  /\ \E p \in {t[3] : t \in charged'} : <<s, l, p, TRUE>> \in charged'
             /\ Exists(s)' => Offered(s, l)' /\ offers'[<<s, l>>].price = q.offer.price
  <2>1. PICK p \in {t[3] : t \in charged} : <<s, l, p, TRUE>> \in charged
    BY <1>1, <1>5 DEF Reading
  <2>2. charged \subseteq charged'
    BY DEF TradeStep
  <2>3. ASSUME Exists(s)'
        PROVE  Offered(s, l)' /\ offers'[<<s, l>>].price = q.offer.price
    <3>1. <<s, l>> \in DOMAIN offers /\ offers[<<s, l>>].price = q.offer.price
      BY <1>1, <1>3, <1>5, <2>3 DEF Reading, Offered
    <3>2. <<s, l>>[1] = s
      OBVIOUS
    <3>3. <<s, l>> \in DOMAIN offers'
      BY <2>3, <3>1, <3>2 DEF TradeStep
    <3> QED
      BY <1>5, <3>1, <3>3 DEF TradeStep, Offered
  <2> QED
    BY <2>1, <2>2, <2>3
<1>6. ASSUME ~multi, q.price # None, Exists(s)'
      PROVE  /\ Offered(s, l)' => \E active \in BOOLEAN :
                    <<s, l, ResolvedPrice(q.price, offers'[<<s, l>>]), active>> \in charged'
             /\ ~Offered(s, l)' => q.price = services'[s]
  <2>1. charged \subseteq charged' /\ Exists(s)
    BY <1>3, <1>6 DEF TradeStep
  <2>2. CASE Offered(s, l)
    <3>1. PICK active \in BOOLEAN : <<s, l, ResolvedPrice(q.price, offers[<<s, l>>]), active>> \in charged
      BY <1>1, <1>6, <2>1, <2>2 DEF Reading
    <3>2. <<s, l>> \in DOMAIN offers /\ <<s, l>>[1] = s
      BY <2>2 DEF Offered
    <3>3. <<s, l>> \in DOMAIN offers'
      BY <1>6, <3>2 DEF TradeStep
    <3>4. offers'[<<s, l>>].price = offers[<<s, l>>].price
      BY <1>6, <3>2, <3>3 DEF TradeStep
    <3>5. ResolvedPrice(q.price, offers'[<<s, l>>]) = ResolvedPrice(q.price, offers[<<s, l>>])
      BY <3>4 DEF ResolvedPrice
    <3> QED
      BY <2>1, <3>1, <3>3, <3>5 DEF Offered
  <2>3. CASE ~Offered(s, l)
    <3>1. q.price = services[s]
      BY <1>1, <1>6, <2>1, <2>3 DEF Reading
    <3>2. /\ services'[s] = services[s]
          /\ Offered(s, l)' => offers'[<<s, l>>].price = None
      BY <1>2, <1>6, <2>3 DEF TradeStep
    <3>3. ASSUME Offered(s, l)'
          PROVE  \E active \in BOOLEAN : <<s, l, ResolvedPrice(q.price, offers'[<<s, l>>]), active>> \in charged'
      <4>1. PICK k : k = <<s, l>>
        OBVIOUS
      <4>2. k \in DOMAIN offers' /\ k[1] = s /\ k[2] = l
        BY <3>3, <4>1 DEF Offered
      <4>3. /\ offers'[k].active \in BOOLEAN
            /\ <<s, l, ResolvedPrice(services'[s], offers'[k]), offers'[k].active>> \in charged'
        BY <4>2 DEF OffersOK, ResolvedPrice
      <4> QED
        BY <3>1, <3>2, <4>1, <4>3
    <3> QED
      BY <3>1, <3>2, <3>3
  <2> QED
    BY <2>2, <2>3
<1>7. ASSUME q.price # None, q.offer # None
      PROVE  OnSale(s, l, ResolvedPrice(q.price, q.offer))'
  <2>1. PICK p : p = ResolvedPrice(q.price, q.offer)
    OBVIOUS
  <2>2. OnSale(s, l, p)
    BY <1>1, <1>7, <2>1 DEF Reading
  <2>3. OnSale(s, l, p)'
    BY <2>2, OnSaleStays
  <2> QED
    BY <2>1, <2>3 DEF OnSale, ResolvedPrice
<1> QED
  BY <1>1, <1>2, <1>3, <1>4, <1>5, <1>6, <1>7 DEF Reading, Exists, Offered, OnSale, ResolvedPrice

\* What a step by one session owes the requests of the others and its own.
LEMMA SaleStep ==
  ASSUME Shape, SaleInv, NEW r \in Sessions, NEW x, req' = [req EXCEPT ![r] = x],
         TradeStep, OffersOK', VisitsOK', skills' \subseteq chosen',
         Trading(x)', Reading(x)', Booking(x)', Selecting(x)'
  PROVE  SaleInv'
<1>1. DOMAIN req = Sessions /\ req'[r] = x /\ \A o \in Sessions \ {r} : req'[o] = req[o]
  BY DEF Shape
<1>2. ASSUME NEW o \in Sessions
      PROVE  /\ Trading(req[o])' /\ Reading(req[o])' /\ Booking(req[o])' /\ Selecting(req[o])'
  <2>1. PICK q : q = req'[o]
    OBVIOUS
  <2>2. CASE o = r
    <3>1. q = x
      BY <1>1, <2>1, <2>2
    <3>2. Trading(q)' /\ Reading(q)' /\ Booking(q)' /\ Selecting(q)'
      BY <3>1
    <3>4. Trading(req[o])'
      BY <2>1, <3>2 DEF Trading
    <3>5. Reading(req[o])'
      BY <2>1, <3>2 DEF Reading
    <3>6. Booking(req[o])'
      BY <2>1, <3>2 DEF Booking
    <3>7. Selecting(req[o])'
      BY <2>1, <3>2 DEF Selecting
    <3> QED
      BY <3>4, <3>5, <3>6, <3>7
  <2>3. CASE o # r
    <3>1. q = req[o]
      BY <1>1, <2>1, <2>3
    <3>2. Trading(q) /\ Reading(q) /\ Booking(q) /\ Selecting(q)
      BY <3>1 DEF SaleInv
    <3>3. Trading(q)' /\ Reading(q)' /\ Booking(q)' /\ Selecting(q)'
      BY <3>2, TradingStays, ReadingStays, OtherRequestsStay
    <3>4. Trading(req[o])'
      BY <2>1, <3>3 DEF Trading
    <3>5. Reading(req[o])'
      BY <2>1, <3>3 DEF Reading
    <3>6. Booking(req[o])'
      BY <2>1, <3>3 DEF Booking
    <3>7. Selecting(req[o])'
      BY <2>1, <3>3 DEF Selecting
    <3> QED
      BY <3>4, <3>5, <3>6, <3>7
  <2> QED
    BY <2>2, <2>3
<1> QED
  BY <1>2 DEF SaleInv

\* A step on something else than the lists.
LEMMA Step ==
  ASSUME IInv, NEW r \in Sessions, NEW x, req' = [req EXCEPT ![r] = x],
         "at" \in DOMAIN x, x.at \notin {"location", "category", "reorder"}, ~HoldsLock(x),
         UNCHANGED <<multi, places, categories>>,
         IsASequence(services'), IsASequence(visits'),
         TradeStep, OffersOK', VisitsOK', skills' \subseteq chosen',
         Trading(x)', Reading(x)', Booking(x)', Selecting(x)'
  PROVE  IInv'
<1>1. Shape /\ ListsInv /\ SaleInv
  BY DEF IInv
<1>2. SaleInv'
  BY <1>1, SaleStep
<1>3. PlacesOK' /\ CategoriesOK' /\ Fewer
  BY <1>1 DEF ListsInv, PlacesOK, CategoriesOK, Fewer, Existing
<1>4. Listing(x)'
  BY DEF Listing, HoldsLock
<1>5. ListsInv'
  BY <1>1, <1>3, <1>4, ListsStep
<1>6. Shape'
  BY <1>1 DEF Shape, IsASequence
<1> QED
  BY <1>2, <1>5, <1>6 DEF IInv

\* A request that reads and carries nothing of what is sold.
LEMMA NothingToKeep ==
  ASSUME NEW x, x.at \notin {"update", "upsert", "terms", "team", "book", "select", "selected"}
  PROVE  Trading(x)' /\ Reading(x)' /\ Booking(x)' /\ Selecting(x)'
BY DEF Trading, Reading, Booking, Selecting

LEMMA IdleKeepsNothing ==
  /\ "at" \in DOMAIN Idle /\ Idle.at \notin {"location", "category", "reorder"} /\ ~HoldsLock(Idle)
  /\ Trading(Idle)' /\ Reading(Idle)' /\ Booking(Idle)' /\ Selecting(Idle)'
<1>1. Idle.at = "idle" /\ DOMAIN Idle = {"at"}
  BY DEF Idle
<1>2. ~HoldsLock(Idle)
  BY <1>1 DEF HoldsLock
<1>3. PICK x : x = Idle
  OBVIOUS
<1>4. x.at \notin {"update", "upsert", "terms", "team", "book", "select", "selected"}
  BY <1>1, <1>3
<1>5. Trading(x)' /\ Reading(x)' /\ Booking(x)' /\ Selecting(x)'
  BY <1>4, NothingToKeep
<1> QED
  BY <1>1, <1>2, <1>3, <1>5 DEF Idle, Trading, Reading, Booking, Selecting

\* A step that sells as before.
LEMMA SoldAsBefore ==
  ASSUME IInv, UNCHANGED <<multi, services, offers, charged>>, chosen \subseteq chosen',
         places' = places \/ Locations \subseteq Locations'
  PROVE  TradeStep /\ OffersOK' /\ IsASequence(services') /\ (visits' = visits => VisitsOK' /\ IsASequence(visits'))
<1>1. TradeStep
  BY DEF TradeStep, Locations, Exists, Offered
<1>2. OffersOK'
  BY DEF IInv, SaleInv, OffersOK, Exists, ResolvedPrice
<1>3. IsASequence(services')
  BY DEF IInv, Shape, IsASequence
<1>4. visits' = visits => VisitsOK' /\ IsASequence(visits')
  BY <1>1, VisitsStay DEF IInv, SaleInv, Shape, IsASequence
<1> QED
  BY <1>1, <1>2, <1>3, <1>4

\* A step on the lists leaves what is sold as it was.
LEMMA ListActions ==
  ASSUME IInv, NEW r \in Sessions, Lists(r)
  PROVE  IInv'
<1>1. Shape /\ ListsInv /\ SaleInv
  BY DEF IInv
<1>2. ListsInv'
  <2>1. CASE \E listed \in SUBSET DOMAIN categories :
               \E order \in Bijection(listed, 0..(Cardinality(listed) - 1)) :
                  ReorderServiceCategories(r, listed, order)
    BY <1>1, <2>1, ReorderStep
  <2>2. CASE \E c \in DOMAIN categories : DeleteServiceCategory(r, c)
    BY <1>1, <2>2, DeleteCategoryStep
  <2> QED
    BY <1>1, <2>1, <2>2, CreateLocationStep, InsertLocationStep, CreateCategoryStep,
       InsertCategoryStep, UpdatePositionsStep DEF Lists
<1>3. /\ UNCHANGED <<multi, trade, staff, visits>> /\ (places' = places \/ Locations \subseteq Locations')
      /\ \E x : /\ req' = [req EXCEPT ![r] = x] /\ "at" \in DOMAIN x
                /\ x.at \in {"idle", "location", "category", "reorder"}
  <2>1. CASE CreateLocation(r)
    <3>1. UNCHANGED <<multi, trade, staff, visits, places>>
      BY <2>1 DEF CreateLocation, Begin, lists
    <3>2. req' = [req EXCEPT ![r] = [at |-> "location", lock |-> "locations",
                                     position |-> Cardinality(Locations)]]
      BY <2>1 DEF CreateLocation, Begin
    <3> DEFINE y == [at |-> "location", lock |-> "locations", position |-> Cardinality(Locations)]
    <3>3. "at" \in DOMAIN y /\ y.at = "location" /\ req' = [req EXCEPT ![r] = y]
      BY <3>2
    <3> HIDE DEF y
    <3> QED
      BY <3>1, <3>3
  <2>2. CASE InsertLocation(r)
    <3>1. places' = Append(places, req[r].position) /\ places \in Seq(Nat) /\ req[r].position \in Nat
      BY <1>1, <2>2 DEF InsertLocation, ListsInv, PlacesOK, Listing
    <3>2. Locations \subseteq Locations'
      BY <3>1 DEF Locations
    <3>3. UNCHANGED <<multi, trade, staff, visits>>
      BY <2>2 DEF InsertLocation, Finish, Continue
    <3>4. req' = [req EXCEPT ![r] = Idle]
      BY <2>2 DEF InsertLocation, Finish, Continue
    <3> QED
      BY <3>2, <3>3, <3>4, IdleKeepsNothing, IdleListing
  <2>3. CASE CreateServiceCategory(r)
    <3>1. UNCHANGED <<multi, trade, staff, visits, places>>
      BY <2>3 DEF CreateServiceCategory, Begin, lists
    <3>2. req' = [req EXCEPT ![r] = [at |-> "category", lock |-> "categories",
                    position |-> Max({categories[c] : c \in Existing} \cup {-1}) + 1]]
      BY <2>3 DEF CreateServiceCategory, Begin
    <3> DEFINE y == [at |-> "category", lock |-> "categories",
                     position |-> Max({categories[c] : c \in Existing} \cup {-1}) + 1]
    <3>3. "at" \in DOMAIN y /\ y.at = "category" /\ req' = [req EXCEPT ![r] = y]
      BY <3>2
    <3> HIDE DEF y
    <3> QED
      BY <3>1, <3>3
  <2>4. CASE InsertServiceCategory(r) \/ UpdatePositions(r) \/ \E c \in DOMAIN categories : DeleteServiceCategory(r, c)
    <3>1. UNCHANGED <<multi, trade, staff, visits, places>>
      BY <2>4 DEF InsertServiceCategory, UpdatePositions, DeleteServiceCategory, Finish, Continue, Begin
    <3>2. req' = [req EXCEPT ![r] = Idle]
      BY <2>4 DEF InsertServiceCategory, UpdatePositions, DeleteServiceCategory, Finish, Continue, Begin
    <3> QED
      BY <3>1, <3>2, IdleKeepsNothing, IdleListing
  <2>5. ASSUME NEW listed, NEW order, ReorderServiceCategories(r, listed, order)
        PROVE  /\ UNCHANGED <<multi, trade, staff, visits, places>>
               /\ \E x : /\ req' = [req EXCEPT ![r] = x] /\ "at" \in DOMAIN x
                         /\ x.at \in {"idle", "location", "category", "reorder"}
    <3>1. UNCHANGED <<multi, trade, staff, visits, places>>
      BY <2>5 DEF ReorderServiceCategories, Begin, lists
    <3>2. req' = [req EXCEPT ![r] = [at |-> "reorder", lock |-> "categories", order |-> order]]
      BY <2>5 DEF ReorderServiceCategories, Begin
    <3> DEFINE y == [at |-> "reorder", lock |-> "categories", order |-> order]
    <3>3. "at" \in DOMAIN y /\ y.at = "reorder" /\ req' = [req EXCEPT ![r] = y]
      BY <3>2
    <3> HIDE DEF y
    <3> QED
      BY <3>1, <3>3
  <2> QED
    BY <2>1, <2>2, <2>3, <2>4, <2>5 DEF Lists
<1>4. PICK x : /\ req' = [req EXCEPT ![r] = x] /\ "at" \in DOMAIN x
               /\ x.at \in {"idle", "location", "category", "reorder"}
  BY <1>3
<1>5. Trading(x)' /\ Reading(x)' /\ Booking(x)' /\ Selecting(x)'
  BY <1>4, NothingToKeep
<1>6. UNCHANGED <<multi, services, offers, charged, skills, chosen, visits>>
  BY <1>3 DEF trade, staff
<1>7. TradeStep /\ OffersOK' /\ VisitsOK' /\ skills' \subseteq chosen'
  BY <1>1, <1>3, <1>6, SoldAsBefore DEF SaleInv
<1>8. SaleInv'
  BY <1>1, <1>4, <1>5, <1>7, SaleStep
<1>9. Shape'
  BY <1>1, <1>4, <1>6 DEF Shape, IsASequence
<1> QED
  BY <1>2, <1>8, <1>9 DEF IInv

LEMMA QuietStep ==
  ASSUME IInv, NEW r \in Sessions, NEW x, req' = [req EXCEPT ![r] = x],
         "at" \in DOMAIN x, x.at \notin {"location", "category", "reorder"}, ~HoldsLock(x),
         UNCHANGED <<multi, places, categories, services, offers, charged, visits>>,
         chosen \subseteq chosen', skills' \subseteq chosen',
         Trading(x)', Reading(x)', Booking(x)', Selecting(x)'
  PROVE  IInv'
<1>1. TradeStep /\ OffersOK' /\ IsASequence(services') /\ VisitsOK' /\ IsASequence(visits')
  BY SoldAsBefore
<1> QED
  BY <1>1, Step

-----------------------------------------------------------------------------
(* Who performs a service *)

LEMMA SelectionsAreChosen ==
  ASSUME NEW b, NEW selected, NEW l, Selection(b, selected, l) \subseteq chosen'
  PROVE  \A s \in selected : <<b, s, l>> \in chosen'
BY DEF Selection

LEMMA StaffActions ==
  ASSUME IInv, NEW r \in Sessions, Staff(r)
  PROVE  IInv'
<1>0. skills \subseteq chosen
  BY DEF IInv, SaleInv
<1>1. ASSUME NEW l, NEW selected, NEW b, NEW joins,
             req' = [req EXCEPT ![r] = [at |-> "select", joins |-> joins, barber |-> b,
                                        location |-> l, selected |-> selected]],
             UNCHANGED <<multi, places, categories, services, offers, charged, visits, skills>>,
             chosen' = chosen \cup Selection(b, selected, l)
      PROVE  IInv'
  <2>1. PICK x : x = [at |-> "select", joins |-> joins, barber |-> b, location |-> l, selected |-> selected]
    OBVIOUS
  <2>2. /\ "at" \in DOMAIN x /\ x.at = "select" /\ ~HoldsLock(x)
        /\ x.barber = b /\ x.location = l /\ x.selected = selected
    BY <2>1 DEF HoldsLock
  <2>3. \A s \in selected : <<b, s, l>> \in chosen'
    BY <1>1, SelectionsAreChosen
  <2>4. Trading(x)' /\ Reading(x)' /\ Booking(x)' /\ Selecting(x)'
    BY <2>2, <2>3 DEF Trading, Reading, Booking, Selecting
  <2>5. req' = [req EXCEPT ![r] = x] /\ chosen \subseteq chosen' /\ skills' \subseteq chosen'
    BY <1>0, <1>1, <2>1
  <2> QED
    BY <1>1, <2>2, <2>4, <2>5, QuietStep
<1>2. ASSUME NEW x, req' = [req EXCEPT ![r] = x], DOMAIN x \in {{"at"}, {"at", "barber", "location"}},
             x.at \in {"idle", "return"},
             UNCHANGED <<multi, places, categories, services, offers, charged, visits, chosen>>,
             skills' \subseteq chosen'
      PROVE  IInv'
  <2>1. Trading(x)' /\ Reading(x)' /\ Booking(x)' /\ Selecting(x)'
    BY <1>2, NothingToKeep
  <2>2. "at" \in DOMAIN x /\ ~HoldsLock(x)
    BY <1>2 DEF HoldsLock
  <2> QED
    BY <1>2, <2>1, <2>2, QuietStep
<1>3. CASE \E l \in Locations, selected \in SUBSET DOMAIN services : HireBarber(r, l, selected)
  <2>1. PICK l \in Locations, selected \in SUBSET DOMAIN services : HireBarber(r, l, selected)
    BY <1>3
  <2>2. PICK b : b = barbers + 1
    OBVIOUS
  <2>3. /\ req' = [req EXCEPT ![r] = [at |-> "select", joins |-> TRUE, barber |-> b,
                                      location |-> l, selected |-> selected]]
        /\ chosen' = chosen \cup Selection(b, selected, l)
    BY <2>1, <2>2 DEF HireBarber, Begin
  <2>4. UNCHANGED <<multi, places, categories, services, offers, charged, visits, skills>>
    BY <2>1 DEF HireBarber, Begin, lists, trade
  <2> QED
    BY <1>1, <2>3, <2>4
<1>4. CASE \E l \in Locations, selected \in SUBSET DOMAIN services, b \in 1..barbers :
              RequestServices(r, b, l, selected)
  <2>1. PICK l \in Locations, selected \in SUBSET DOMAIN services, b \in 1..barbers :
           RequestServices(r, b, l, selected)
    BY <1>4
  <2>2. /\ req' = [req EXCEPT ![r] = [at |-> "select", joins |-> FALSE, barber |-> b,
                                      location |-> l, selected |-> selected]]
        /\ chosen' = chosen \cup Selection(b, selected, l)
    BY <2>1 DEF RequestServices, Begin
  <2>3. UNCHANGED <<multi, places, categories, services, offers, charged, visits, skills>>
    BY <2>1 DEF RequestServices, Begin, lists, trade
  <2> QED
    BY <1>1, <2>2, <2>3
<1>5. CASE \E l \in Locations, b \in 1..barbers : AssignBarber(r, b, l)
  <2>1. PICK l \in Locations, b \in 1..barbers : AssignBarber(r, b, l)
    BY <1>5
  <2>2. UNCHANGED <<multi, places, categories, services, offers, charged, visits, skills, chosen>>
    BY <2>1 DEF AssignBarber, Begin, lists, trade, staff
  <2>3. CASE <<b, l>> \in DOMAIN team
    <3>1. PICK x : x = [at |-> "return", barber |-> b, location |-> l]
      OBVIOUS
    <3>2. req' = [req EXCEPT ![r] = x]
      BY <2>1, <2>3, <3>1 DEF AssignBarber, Begin
    <3>3. DOMAIN x = {"at", "barber", "location"} /\ x.at = "return"
      BY <3>1
    <3> QED
      BY <1>0, <1>2, <2>2, <3>2, <3>3
  <2>4. CASE <<b, l>> \notin DOMAIN team
    <3>1. req' = [req EXCEPT ![r] = [at |-> "select", joins |-> TRUE, barber |-> b,
                                      location |-> l, selected |-> {}]]
      BY <2>1, <2>4 DEF AssignBarber, Begin, SharedSelection
    <3>2. chosen' = chosen \cup Selection(b, {}, l)
      BY <2>2 DEF Selection
    <3> QED
      BY <1>1, <2>2, <3>1, <3>2
  <2> QED
    BY <2>3, <2>4
<1>6. CASE (\E l \in Locations, b \in 1..barbers : RemoveBarberFromLocation(r, b, l)) \/ AssignBarberToLocation(r)
  <2>1. req' = [req EXCEPT ![r] = Idle]
    BY <1>6 DEF RemoveBarberFromLocation, AssignBarberToLocation, Begin, Finish, Continue
  <2>2. UNCHANGED <<multi, places, categories, services, offers, charged, visits, skills, chosen>>
    BY <1>6 DEF RemoveBarberFromLocation, AssignBarberToLocation, Begin, Finish, Continue, lists, trade
  <2>3. DOMAIN Idle = {"at"} /\ Idle.at = "idle"
    BY DEF Idle
  <2> QED
    BY <1>0, <1>2, <2>1, <2>2, <2>3
<1>7. CASE DeleteSelection(r)
  <2>1. PICK q : q = req[r]
    OBVIOUS
  <2>2. PICK seen : seen = Here(q.barber, q.location)
    OBVIOUS
  <2>3. PICK x : x = [at |-> "selected", joins |-> q.joins, barber |-> q.barber,
                      location |-> q.location, selected |-> q.selected, seen |-> seen]
    OBVIOUS
  <2>4. q.at = "select" /\ req' = [req EXCEPT ![r] = x]
    BY <1>7, <2>1, <2>2, <2>3 DEF DeleteSelection, Continue
  <2>5. UNCHANGED <<multi, places, categories, services, offers, charged, visits, skills, chosen>>
    BY <1>7 DEF DeleteSelection, Continue, lists, trade, staff
  <2>6. /\ "at" \in DOMAIN x /\ x.at = "selected" /\ ~HoldsLock(x)
        /\ x.barber = q.barber /\ x.location = q.location /\ x.selected = q.selected
    BY <2>3 DEF HoldsLock
  <2>7. \A s \in q.selected : <<q.barber, s, q.location>> \in chosen
    BY <2>1, <2>4 DEF IInv, SaleInv, Selecting
  <2>8. Trading(x)' /\ Reading(x)' /\ Booking(x)' /\ Selecting(x)'
    BY <2>5, <2>6, <2>7 DEF Trading, Reading, Booking, Selecting
  <2> QED
    BY <1>0, <2>4, <2>5, <2>6, <2>8, QuietStep
<1>8. CASE InsertSelection(r)
  <2>1. PICK q : q = req[r]
    OBVIOUS
  <2>2. /\ q.at = "selected" /\ req' = [req EXCEPT ![r] = Idle]
        /\ skills' = (skills \ q.seen) \cup Selection(q.barber, q.selected, q.location)
    BY <1>8, <2>1 DEF InsertSelection, Finish, Continue
  <2>3. UNCHANGED <<multi, places, categories, services, offers, charged, visits, chosen>>
    BY <1>8 DEF InsertSelection, Finish, Continue, lists, trade
  <2>4. Selection(q.barber, q.selected, q.location) \subseteq chosen
    BY <2>1, <2>2 DEF IInv, SaleInv, Selecting, Selection
  <2>5. DOMAIN Idle = {"at"} /\ Idle.at = "idle"
    BY DEF Idle
  <2>6. skills' \subseteq chosen'
    BY <1>0, <2>2, <2>3, <2>4
  <2> QED
    BY <1>2, <2>2, <2>3, <2>5, <2>6
<1> QED
  BY <1>3, <1>4, <1>5, <1>6, <1>7, <1>8 DEF Staff

-----------------------------------------------------------------------------
(* Bookings *)

LEMMA CreateAppointmentStep ==
  ASSUME IInv, NEW r \in Sessions, NEW b, NEW s \in DOMAIN services, NEW l \in Locations,
         CreateAppointment(r, b, s, l)
  PROVE  IInv'
<1>1. PICK x : x = [at |-> "terms", barber |-> b, service |-> s, location |-> l,
                    price |-> None, offer |-> None]
  OBVIOUS
<1>2. req' = [req EXCEPT ![r] = x]
  BY <1>1 DEF CreateAppointment, Begin
<1>3. UNCHANGED <<multi, places, categories, services, offers, charged, visits, skills, chosen>>
  BY DEF CreateAppointment, Begin, lists, trade, staff
<1>4. /\ DOMAIN x = {"at", "barber", "service", "location", "price", "offer"} /\ x.at = "terms"
      /\ x.service = s /\ x.location = l /\ x.price = None /\ x.offer = None /\ ~HoldsLock(x)
  BY <1>1 DEF HoldsLock
<1>5. Reading(x)'
  BY <1>3, <1>4 DEF Reading, Locations
<1>6. Trading(x)' /\ Booking(x)' /\ Selecting(x)'
  BY <1>4 DEF Trading, Booking, Selecting
<1>7. skills' \subseteq chosen'
  BY <1>3 DEF IInv, SaleInv
<1> QED
  BY <1>2, <1>3, <1>4, <1>5, <1>6, <1>7, QuietStep

\* What the offer of a service at a location says it costs there was in force.
LEMMA TermsAreKnown ==
  ASSUME OffersOK, NEW s, NEW l, Offered(s, l)
  PROVE  /\ Exists(s) /\ offers[<<s, l>>].active \in BOOLEAN
         /\ <<s, l, ResolvedPrice(services[s], offers[<<s, l>>]), offers[<<s, l>>].active>> \in charged
<1>1. PICK k : k = <<s, l>>
  OBVIOUS
<1>2. k \in DOMAIN offers /\ k[1] = s /\ k[2] = l
  BY <1>1 DEF Offered
<1>3. /\ Exists(k[1]) /\ offers[k].active \in BOOLEAN
      /\ <<k[1], k[2], ResolvedPrice(services[k[1]], offers[k]), offers[k].active>> \in charged
  BY <1>2 DEF OffersOK
<1> QED
  BY <1>1, <1>2, <1>3

LEMMA ReadServicesStep ==
  ASSUME IInv, NEW r \in Sessions, ReadServices(r)
  PROVE  IInv'
<1>1. PICK q, s, l, p : q = req[r] /\ s = q.service /\ l = q.location /\ p = services[s]
  OBVIOUS
<1>2. PICK x : x = [q EXCEPT !.price = p]
  OBVIOUS
<1>3. /\ q.at = "terms" /\ q.price = None /\ Exists(s) /\ p # None
      /\ req' = [req EXCEPT ![r] = x]
  BY <1>1, <1>2 DEF ReadServices, Continue, Exists
<1>4. UNCHANGED <<multi, places, categories, services, offers, charged, visits, skills, chosen>>
  BY DEF ReadServices, Continue, lists, trade, staff
<1>5. Reading(q) /\ DOMAIN q = {"at", "barber", "service", "location", "price", "offer"}
  BY <1>1, <1>3 DEF IInv, SaleInv, Reading
<1>6. /\ DOMAIN x = {"at", "barber", "service", "location", "price", "offer"} /\ x.at = "terms"
      /\ x.service = s /\ x.location = l /\ x.price = p /\ x.offer = q.offer /\ ~HoldsLock(x)
  BY <1>1, <1>2, <1>3, <1>5 DEF HoldsLock
<1>7. ASSUME ~multi, Offered(s, l)
      PROVE  \E active \in BOOLEAN : <<s, l, ResolvedPrice(p, offers[<<s, l>>]), active>> \in charged
  BY <1>1, <1>7, TermsAreKnown DEF IInv, SaleInv
<1>8. ASSUME q.offer # None
      PROVE  OnSale(s, l, ResolvedPrice(p, q.offer))
  <2>1. CASE multi
    BY <1>1, <1>3, <1>5, <1>8, <2>1 DEF Reading, OnSale
  <2>2. CASE ~multi
    <3>1. /\ \E o \in {t[3] : t \in charged} : <<s, l, o, TRUE>> \in charged
          /\ Offered(s, l) /\ offers[<<s, l>>].price = q.offer.price
      BY <1>1, <1>3, <1>5, <1>8, <2>2 DEF Reading
    <3>2. ResolvedPrice(p, offers[<<s, l>>]) = ResolvedPrice(p, q.offer)
      BY <3>1 DEF ResolvedPrice
    <3> QED
      BY <1>7, <2>2, <3>1, <3>2 DEF OnSale
  <2> QED
    BY <2>1, <2>2
<1>9. Reading(x)
  BY <1>1, <1>3, <1>5, <1>6, <1>7, <1>8 DEF Reading
<1>10. TradeStep /\ OffersOK' /\ skills' \subseteq chosen'
  BY <1>4, SoldAsBefore DEF IInv, SaleInv
<1>11. Reading(x)'
  BY <1>9, <1>10, ReadingStays
<1>12. Trading(x)' /\ Booking(x)' /\ Selecting(x)'
  BY <1>6 DEF Trading, Booking, Selecting
<1> QED
  BY <1>3, <1>4, <1>6, <1>10, <1>11, <1>12, QuietStep

LEMMA ReadOffersStep ==
  ASSUME IInv, NEW r \in Sessions, ReadOffers(r)
  PROVE  IInv'
<1>1. PICK q, s, l : q = req[r] /\ s = q.service /\ l = q.location
  OBVIOUS
<1>2. PICK o : o = offers[<<s, l>>]
  OBVIOUS
<1>3. PICK x : x = [q EXCEPT !.offer = o]
  OBVIOUS
<1>4. /\ q.at = "terms" /\ q.offer = None /\ Offered(s, l) /\ o.active
      /\ req' = [req EXCEPT ![r] = x]
  BY <1>1, <1>2, <1>3 DEF ReadOffers, Continue
<1>5. UNCHANGED <<multi, places, categories, services, offers, charged, visits, skills, chosen>>
  BY DEF ReadOffers, Continue, lists, trade, staff
<1>6. Reading(q) /\ DOMAIN q = {"at", "barber", "service", "location", "price", "offer"}
  BY <1>1, <1>4 DEF IInv, SaleInv, Reading
<1>7. /\ DOMAIN x = {"at", "barber", "service", "location", "price", "offer"} /\ x.at = "terms"
      /\ x.service = s /\ x.location = l /\ x.price = q.price /\ x.offer = o /\ ~HoldsLock(x)
  BY <1>1, <1>3, <1>4, <1>6 DEF HoldsLock
<1>8. Exists(s) /\ <<s, l, ResolvedPrice(services[s], o), TRUE>> \in charged
  <2>1. /\ Exists(s) /\ o.active \in BOOLEAN
        /\ <<s, l, ResolvedPrice(services[s], o), o.active>> \in charged
    BY <1>2, <1>4, TermsAreKnown DEF IInv, SaleInv
  <2>2. o.active = TRUE
    BY <1>4, <2>1
  <2> QED
    BY <2>1, <2>2
<1>9. \E p \in {t[3] : t \in charged} : <<s, l, p, TRUE>> \in charged
  <2>1. PICK t, p : t = <<s, l, p, TRUE>> /\ p = ResolvedPrice(services[s], o) /\ t \in charged
    BY <1>8
  <2>2. t[3] = p
    BY <2>1
  <2> QED
    BY <2>1, <2>2
<1>10. ASSUME q.price # None
       PROVE  OnSale(s, l, ResolvedPrice(q.price, o))
  <2>1. CASE multi
    BY <1>1, <1>4, <1>6, <1>8, <1>10, <2>1 DEF Reading, OnSale
  <2>2. CASE ~multi
    <3>1. \E active \in BOOLEAN : <<s, l, ResolvedPrice(q.price, o), active>> \in charged
      BY <1>1, <1>2, <1>4, <1>6, <1>8, <1>10, <2>2 DEF Reading
    <3> QED
      BY <1>9, <2>2, <3>1 DEF OnSale
  <2> QED
    BY <2>1, <2>2
<1>11. Reading(x)
  <2>1. x.service \in DOMAIN services /\ x.location \in Locations
    BY <1>1, <1>4, <1>6, <1>7 DEF Reading
  <2>2. ASSUME multi
        PROVE  /\ q.price # None => q.price = services[s]
               /\ <<s, l, ResolvedPrice(services[s], o), TRUE>> \in charged
    BY <1>1, <1>4, <1>6, <1>8, <2>2 DEF Reading
  <2>3. ASSUME ~multi, q.price # None
        PROVE  \E active \in BOOLEAN : <<s, l, ResolvedPrice(q.price, o), active>> \in charged
    BY <1>1, <1>2, <1>4, <1>6, <1>8, <2>3 DEF Reading
  <2> QED
    BY <1>2, <1>4, <1>7, <1>9, <1>10, <2>1, <2>2, <2>3 DEF Reading
<1>12. TradeStep /\ OffersOK' /\ skills' \subseteq chosen'
  BY <1>5, SoldAsBefore DEF IInv, SaleInv
<1>13. Reading(x)'
  BY <1>11, <1>12, ReadingStays
<1>14. Trading(x)' /\ Booking(x)' /\ Selecting(x)'
  BY <1>7 DEF Trading, Booking, Selecting
<1> QED
  BY <1>4, <1>5, <1>7, <1>12, <1>13, <1>14, QuietStep

LEMMA ReadSkillsStep ==
  ASSUME IInv, NEW r \in Sessions, ReadSkills(r)
  PROVE  IInv'
<1>1. PICK q, s, l, p : q = req[r] /\ s = q.service /\ l = q.location /\ p = ResolvedPrice(q.price, q.offer)
  OBVIOUS
<1>2. PICK able : able = {b \in (IF q.barber = 0 THEN 1..barbers ELSE {q.barber}) :
                            BarberCanPerformService(b, s, l)}
  OBVIOUS
<1>3. PICK x : x = [at |-> "team", service |-> s, location |-> l, price |-> p, able |-> able]
  OBVIOUS
<1>4. q.at = "terms" /\ q.price # None /\ q.offer # None /\ req' = [req EXCEPT ![r] = x]
  BY <1>1, <1>2, <1>3 DEF ReadSkills, Continue
<1>5. UNCHANGED <<multi, places, categories, services, offers, charged, visits, skills, chosen>>
  BY DEF ReadSkills, Continue, lists, trade, staff
<1>6. /\ "at" \in DOMAIN x /\ x.at = "team" /\ x.service = s /\ x.location = l /\ x.price = p
      /\ x.able = able /\ ~HoldsLock(x)
  BY <1>3 DEF HoldsLock
<1>7. OnSale(s, l, p)
  BY <1>1, <1>4 DEF IInv, SaleInv, Reading
<1>8. \A b \in able : <<b, s, l>> \in chosen
  BY <1>2 DEF BarberCanPerformService, IInv, SaleInv
<1>9. Booking(x)
  BY <1>6, <1>7, <1>8 DEF Booking
<1>10. TradeStep /\ skills' \subseteq chosen'
  BY <1>5, SoldAsBefore DEF IInv, SaleInv
<1>11. Booking(x)'
  BY <1>9, <1>10, OtherRequestsStay
<1>12. Trading(x)' /\ Reading(x)' /\ Selecting(x)'
  BY <1>6 DEF Trading, Reading, Selecting
<1> QED
  BY <1>4, <1>5, <1>6, <1>10, <1>11, <1>12, QuietStep

LEMMA ChooseBarberStep ==
  ASSUME IInv, NEW r \in Sessions, NEW b, ChooseBarber(r, b)
  PROVE  IInv'
<1>1. PICK q, s, l, p : q = req[r] /\ s = q.service /\ l = q.location /\ p = q.price
  OBVIOUS
<1>2. PICK x : x = [at |-> "book", barber |-> b, service |-> s, location |-> l, price |-> p]
  OBVIOUS
<1>3. q.at = "team" /\ b \in q.able /\ req' = [req EXCEPT ![r] = x]
  BY <1>1, <1>2 DEF ChooseBarber, Continue
<1>4. UNCHANGED <<multi, places, categories, services, offers, charged, visits, skills, chosen>>
  BY DEF ChooseBarber, Continue, lists, trade, staff
<1>5. /\ "at" \in DOMAIN x /\ x.at = "book" /\ x.service = s /\ x.location = l /\ x.price = p
      /\ x.barber = b /\ ~HoldsLock(x)
  BY <1>2 DEF HoldsLock
<1>6. OnSale(s, l, p) /\ <<b, s, l>> \in chosen
  BY <1>1, <1>3 DEF IInv, SaleInv, Booking
<1>7. Booking(x)
  BY <1>5, <1>6 DEF Booking
<1>8. TradeStep /\ skills' \subseteq chosen'
  BY <1>4, SoldAsBefore DEF IInv, SaleInv
<1>9. Booking(x)'
  BY <1>7, <1>8, OtherRequestsStay
<1>10. Trading(x)' /\ Reading(x)' /\ Selecting(x)'
  BY <1>5 DEF Trading, Reading, Selecting
<1> QED
  BY <1>3, <1>4, <1>5, <1>8, <1>9, <1>10, QuietStep

LEMMA InsertAppointmentStep ==
  ASSUME IInv, NEW r \in Sessions, InsertAppointment(r)
  PROVE  IInv'
<1>1. PICK q, s, l, p, b : q = req[r] /\ s = q.service /\ l = q.location /\ p = q.price /\ b = q.barber
  OBVIOUS
<1>2. PICK visit : visit = [barber |-> b, service |-> s, booked |-> s, location |-> l, price |-> p]
  OBVIOUS
<1>3. q.at = "book" /\ req' = [req EXCEPT ![r] = Idle] /\ visits' = Append(visits, visit)
  BY <1>1, <1>2 DEF InsertAppointment, Finish, Continue
<1>4. UNCHANGED <<multi, places, categories, services, offers, charged, skills, chosen>>
  BY DEF InsertAppointment, Finish, Continue, lists, trade, staff
<1>5. /\ DOMAIN visit = {"barber", "service", "booked", "location", "price"} /\ visit.barber = b
      /\ visit.booked = s /\ visit.location = l /\ visit.price = p
  BY <1>2
<1>6. OnSale(s, l, p) /\ <<b, s, l>> \in chosen
  BY <1>1, <1>3 DEF IInv, SaleInv, Booking
<1>7. /\ TradeStep /\ OffersOK' /\ IsASequence(services') /\ skills' \subseteq chosen'
  BY <1>4, SoldAsBefore DEF IInv, SaleInv
<1>8. OnSale(s, l, p)'
  BY <1>6, <1>7, OnSaleStays
<1>9. /\ IsASequence(visits') /\ DOMAIN visits' = DOMAIN visits \cup {Len(visits) + 1}
      /\ visits'[Len(visits) + 1] = visit /\ \A v \in DOMAIN visits : visits'[v] = visits[v]
  BY <1>3, AppendIsASequence DEF IInv, Shape
<1>10. VisitsOK'
  <2> SUFFICES ASSUME NEW v \in DOMAIN visits'
               PROVE  /\ {"barber", "service", "booked", "location", "price"} \subseteq DOMAIN visits'[v]
                      /\ <<visits'[v].barber, visits'[v].booked, visits'[v].location>> \in chosen'
                      /\ OnSale(visits[v].booked, visits[v].location, visits[v].price)'
    BY DEF VisitsOK
  <2>1. PICK old, bs, bl, bp : old = visits'[v] /\ bs = old.booked /\ bl = old.location /\ bp = old.price
    OBVIOUS
  <2>2. /\ {"barber", "service", "booked", "location", "price"} \subseteq DOMAIN old
        /\ <<old.barber, bs, bl>> \in chosen' /\ OnSale(bs, bl, bp)'
    <3>1. CASE v = Len(visits) + 1
      <4>1. old.barber = b /\ bs = s /\ bl = l /\ bp = p
        BY <1>5, <1>9, <2>1, <3>1
      <4> QED
        BY <1>4, <1>5, <1>6, <1>8, <1>9, <2>1, <3>1, <4>1
    <3>2. CASE v # Len(visits) + 1
      <4>1. v \in DOMAIN visits /\ old = visits[v]
        BY <1>9, <2>1, <3>2
      <4>2. /\ {"barber", "service", "booked", "location", "price"} \subseteq DOMAIN old
            /\ <<old.barber, bs, bl>> \in chosen /\ OnSale(bs, bl, bp)
        BY <2>1, <4>1 DEF IInv, SaleInv, VisitsOK
      <4> QED
        BY <1>4, <1>7, <4>2, OnSaleStays
    <3> QED
      BY <3>1, <3>2
  <2>3. OnSale(visits[v].booked, visits[v].location, visits[v].price)'
    BY <2>1, <2>2 DEF OnSale
  <2> QED
    BY <2>1, <2>2, <2>3
<1> QED
  BY <1>3, <1>4, <1>7, <1>9, <1>10, IdleKeepsNothing, Step

LEMMA AbandonStep ==
  ASSUME IInv, NEW r \in Sessions, Abandon(r)
  PROVE  IInv'
<1>1. req' = [req EXCEPT ![r] = Idle]
  BY DEF Abandon, Finish, Continue
<1>2. UNCHANGED <<multi, places, categories, services, offers, charged, visits, skills, chosen>>
  BY DEF Abandon, Finish, Continue, lists, trade, staff
<1>3. skills' \subseteq chosen'
  BY <1>2 DEF IInv, SaleInv
<1> QED
  BY <1>1, <1>2, <1>3, IdleKeepsNothing, QuietStep

-----------------------------------------------------------------------------
(* Services and offers *)

\* A history that remembers the terms of a step knows every offer after it.
LEMMA Remembering ==
  ASSUME Remembered
  PROVE  /\ charged \subseteq charged'
         /\ \A k \in DOMAIN offers' :
              <<k[1], k[2], ResolvedPrice(services'[k[1]], offers'[k]), offers'[k].active>> \in charged'
<1>1. charged' = charged \cup Terms(services', offers')
  BY DEF Remembered, Terms
<1>2. \A k \in DOMAIN offers' :
        <<k[1], k[2], ResolvedPrice(services'[k[1]], offers'[k]), offers'[k].active>> \in Terms(services', offers')
  BY DEF Terms, ResolvedPrice
<1> QED
  BY <1>1, <1>2

\* A request that is about to write an offer.
LEMMA RequestStep ==
  ASSUME IInv, NEW r \in Sessions, NEW x, req' = [req EXCEPT ![r] = x],
         "at" \in DOMAIN x, x.at \in {"update", "upsert"}, ~HoldsLock(x),
         UNCHANGED <<multi, places, categories, services, offers, charged, visits, skills, chosen>>,
         Trading(x)
  PROVE  IInv'
<1>1. TradeStep /\ OffersOK' /\ skills' \subseteq chosen'
  BY SoldAsBefore DEF IInv, SaleInv
<1>2. Trading(x)'
  BY <1>1, TradingStays
<1>3. Reading(x)' /\ Booking(x)' /\ Selecting(x)'
  BY DEF Reading, Booking, Selecting
<1> QED
  BY <1>1, <1>2, <1>3, QuietStep

LEMMA CreateServiceStep ==
  ASSUME IInv, NEW r \in Sessions, NEW l \in Locations, NEW price, NEW active \in BOOLEAN, price # None,
         CreateService(r, l, price, active)
  PROVE  IInv'
<1>1. PICK change : change = [active |-> active]
  OBVIOUS
<1>2. PICK x : x = [at |-> "upsert", service |-> Len(services) + 1, location |-> l, change |-> change]
  OBVIOUS
<1>3. req' = [req EXCEPT ![r] = x] /\ services' = Append(services, price)
  BY <1>1, <1>2 DEF CreateService, Begin
<1>4. UNCHANGED <<multi, places, categories, offers, charged, visits, skills, chosen>>
  BY DEF CreateService, Begin, lists, staff
<1>5. /\ "at" \in DOMAIN x /\ x.at = "upsert" /\ x.service = Len(services) + 1 /\ x.location = l
      /\ x.change = change /\ ~HoldsLock(x)
  BY <1>2 DEF HoldsLock
<1>6. /\ IsASequence(services') /\ DOMAIN services' = DOMAIN services \cup {Len(services) + 1}
      /\ \A s \in DOMAIN services : services'[s] = services[s]
  BY <1>3, AppendIsASequence DEF IInv, Shape
<1>7. TradeStep
  BY <1>4, <1>6 DEF TradeStep, Exists, Offered, Locations
<1>8. OffersOK'
  <2> SUFFICES ASSUME NEW k \in DOMAIN offers
               PROVE  /\ Exists(k[1])'
                      /\ {"active", "price"} \subseteq DOMAIN offers[k] /\ offers[k].active \in BOOLEAN
                      /\ <<k[1], k[2], ResolvedPrice(services'[k[1]], offers[k]), offers[k].active>> \in charged
    BY <1>4 DEF OffersOK, ResolvedPrice
  <2>1. /\ Exists(k[1])
        /\ {"active", "price"} \subseteq DOMAIN offers[k] /\ offers[k].active \in BOOLEAN
        /\ <<k[1], k[2], ResolvedPrice(services[k[1]], offers[k]), offers[k].active>> \in charged
    BY DEF IInv, SaleInv, OffersOK
  <2>2. k[1] \in DOMAIN services /\ services'[k[1]] = services[k[1]]
    BY <1>6, <2>1 DEF Exists
  <2> QED
    BY <1>6, <2>1, <2>2 DEF Exists
<1>9. VisitsOK' /\ IsASequence(visits') /\ skills' \subseteq chosen'
  BY <1>4, <1>7, VisitsStay DEF IInv, SaleInv, Shape, IsASequence
<1>10. DOMAIN change = {"active"} /\ change.active = active
  BY <1>1
<1>11. Trading(x)'
  BY <1>4, <1>5, <1>6, <1>10 DEF Trading, Locations
<1>12. Reading(x)' /\ Booking(x)' /\ Selecting(x)'
  BY <1>5 DEF Reading, Booking, Selecting
<1> QED
  BY <1>3, <1>4, <1>5, <1>6, <1>7, <1>8, <1>9, <1>11, <1>12, Step

\* What a change of a service says of its offer here.
LEMMA LocalChanges ==
  ASSUME NEW input \in ServiceChanges
  PROVE  /\ "active" \in DOMAIN LocalChange(input) => LocalChange(input).active \in BOOLEAN
         /\ ~multi => "price" \notin DOMAIN LocalChange(input)
<1>1. PICK active : active = IF "isActive" \in DOMAIN input THEN [active |-> input.isActive] ELSE <<>>
  OBVIOUS
<1>2. PICK price : price = IF ~multi THEN <<>>
                           ELSE IF "priceOverride" \in DOMAIN input THEN [price |-> input.priceOverride]
                           ELSE IF "price" \in DOMAIN input THEN [price |-> input.price] ELSE <<>>
  OBVIOUS
<1>3. LocalChange(input) = With(price, active)
  BY <1>1, <1>2 DEF LocalChange
<1>4. DOMAIN active \subseteq {"active"} /\ ("active" \in DOMAIN active => active.active \in BOOLEAN)
  BY <1>1, ChangeAssumption
<1>5. DOMAIN price \subseteq {"price"} /\ (~multi => DOMAIN price = {})
  BY <1>2
<1>6. "active" \notin DOMAIN price
  BY <1>5
<1>7. "price" \notin DOMAIN active
  BY <1>4
<1>8. PICK w : w = With(price, active)
  OBVIOUS
<1>9. /\ DOMAIN w = DOMAIN active \cup DOMAIN price
      /\ \A x \in DOMAIN active : w[x] = active[x]
  BY <1>8 DEF With
<1>10. "active" \in DOMAIN w => w.active \in BOOLEAN
  <2> SUFFICES ASSUME "active" \in DOMAIN w PROVE w["active"] \in BOOLEAN
    OBVIOUS
  <2>1. "active" \in DOMAIN active
    BY <1>6, <1>9
  <2> QED
    BY <1>4, <1>9, <2>1
<1>11. ~multi => "price" \notin DOMAIN w
  BY <1>5, <1>7, <1>9
<1> QED
  BY <1>3, <1>8, <1>10, <1>11

LEMMA PatchServiceStep ==
  ASSUME IInv, NEW r \in Sessions, NEW s \in DOMAIN services, NEW l \in Locations,
         NEW input \in ServiceChanges, PatchService(r, s, l, input)
  PROVE  IInv'
<1>1. PICK price, change : price = GlobalPrice(input) /\ change = LocalChange(input)
  OBVIOUS
<1>2. PICK x : x = [at |-> "update", service |-> s, location |-> l, price |-> price, change |-> change]
  OBVIOUS
<1>3. req' = [req EXCEPT ![r] = x] /\ Offered(s, l)
  BY <1>1, <1>2 DEF PatchService, Begin
<1>4. UNCHANGED <<multi, places, categories, services, offers, charged, visits, skills, chosen>>
  BY DEF PatchService, Begin, lists, trade, staff
<1>5. /\ "at" \in DOMAIN x /\ x.at = "update" /\ x.service = s /\ x.location = l
      /\ x.price = price /\ x.change = change /\ ~HoldsLock(x)
  BY <1>2 DEF HoldsLock
<1>6. multi => price = None
  BY <1>1 DEF GlobalPrice
<1>7. /\ "active" \in DOMAIN change => change.active \in BOOLEAN
      /\ ~multi => "price" \notin DOMAIN change
  BY <1>1, LocalChanges
<1>8. Trading(x)
  BY <1>3, <1>5, <1>6, <1>7 DEF Trading
<1> QED
  BY <1>3, <1>4, <1>5, <1>8, RequestStep

LEMMA SaveOfferStep ==
  ASSUME IInv, NEW r \in Sessions, NEW s \in DOMAIN services, NEW l \in Locations, NEW isNew,
         NEW change \in OfferChanges, SaveOffer(r, s, l, isNew, change)
  PROVE  IInv'
<1>1. PICK x : x = [at |-> "upsert", service |-> s, location |-> l, change |-> change]
  OBVIOUS
<1>2. req' = [req EXCEPT ![r] = x] /\ multi
  BY <1>1 DEF SaveOffer, Begin
<1>3. UNCHANGED <<multi, places, categories, services, offers, charged, visits, skills, chosen>>
  BY DEF SaveOffer, Begin, lists, trade, staff
<1>4. /\ "at" \in DOMAIN x /\ x.at = "upsert" /\ x.service = s /\ x.location = l
      /\ x.change = change /\ ~HoldsLock(x)
  BY <1>1 DEF HoldsLock
<1>5. "active" \in DOMAIN change => change.active \in BOOLEAN
  BY ChangeAssumption
<1>6. x.at # "update"
  BY <1>4
<1>7. Trading(x)
  BY <1>2, <1>4, <1>5, <1>6 DEF Trading
<1> QED
  BY <1>2, <1>3, <1>4, <1>7, RequestStep

LEMMA UpdateServiceStep ==
  ASSUME IInv, NEW r \in Sessions, UpdateService(r)
  PROVE  IInv'
<1>1. PICK q, s, l : q = req[r] /\ s = q.service /\ l = q.location
  OBVIOUS
<1>2. PICK x : x = IF DOMAIN q.change = {} THEN Idle
                   ELSE [at |-> "upsert", service |-> s, location |-> l, change |-> q.change]
  OBVIOUS
<1>3. /\ q.at = "update" /\ Exists(s) /\ req' = [req EXCEPT ![r] = x]
      /\ services' = IF q.price = None THEN services ELSE [services EXCEPT ![s] = q.price]
      /\ Remembered
  BY <1>1, <1>2 DEF UpdateService, Continue
<1>4. UNCHANGED <<multi, places, categories, offers, visits, skills, chosen>>
  BY DEF UpdateService, Continue, lists, staff
<1>5. /\ s \in DOMAIN services /\ l \in Locations /\ Offered(s, l) /\ (multi => q.price = None)
      /\ "active" \in DOMAIN q.change => q.change.active \in BOOLEAN
      /\ ~multi => "price" \notin DOMAIN q.change
  BY <1>1, <1>3 DEF IInv, SaleInv, Trading
<1>6. IsASequence(services) /\ IsASequence(visits)
  BY DEF IInv, Shape
<1>7. /\ DOMAIN services' = DOMAIN services /\ services' = [i \in DOMAIN services |-> services'[i]]
      /\ \A i \in DOMAIN services \ {s} : services'[i] = services[i]
      /\ services'[s] # None /\ (multi => services' = services)
  <2>1. CASE q.price = None
    BY <1>3, <1>6, <2>1 DEF IsASequence, Exists
  <2>2. CASE q.price # None
    BY <1>3, <1>5, <1>6, <2>2 DEF IsASequence
  <2> QED
    BY <2>1, <2>2
<1>8. IsASequence(services')
  BY <1>6, <1>7, ChangeIsASequence
<1>9. \A i : Exists(i)' <=> Exists(i)
  BY <1>3, <1>7 DEF Exists
<1>10. /\ charged \subseteq charged'
       /\ \A k \in DOMAIN offers' :
            <<k[1], k[2], ResolvedPrice(services'[k[1]], offers'[k]), offers'[k].active>> \in charged'
  BY <1>3, Remembering
<1>11. ASSUME ~multi, NEW i \in DOMAIN services, NEW m \in Locations, ~Offered(i, m)
       PROVE  services'[i] = services[i]
  <2>1. m = l
    BY <1>5, <1>11, Counting DEF IInv, ListsInv, PlacesOK
  <2> QED
    BY <1>5, <1>7, <1>11, <2>1
<1>12. TradeStep
  BY <1>4, <1>7, <1>9, <1>10, <1>11 DEF TradeStep, Offered, Locations
<1>13. OffersOK'
  BY <1>4, <1>9, <1>10 DEF IInv, SaleInv, OffersOK, ResolvedPrice
<1>14. VisitsOK' /\ IsASequence(visits') /\ skills' \subseteq chosen'
  BY <1>4, <1>6, <1>12, VisitsStay DEF IInv, SaleInv, IsASequence
<1>15. CASE DOMAIN q.change = {}
  <2>1. x = Idle
    BY <1>2, <1>15
  <2> QED
    BY <1>3, <1>4, <1>8, <1>12, <1>13, <1>14, <2>1, IdleKeepsNothing, Step
<1>16. CASE DOMAIN q.change # {}
  <2>1. /\ "at" \in DOMAIN x /\ x.at = "upsert" /\ x.service = s /\ x.location = l
        /\ x.change = q.change /\ ~HoldsLock(x)
    BY <1>2, <1>16 DEF HoldsLock
  <2>2. Trading(x)
    BY <1>5, <2>1 DEF Trading
  <2>3. Trading(x)'
    BY <1>12, <2>2, TradingStays
  <2>4. Reading(x)' /\ Booking(x)' /\ Selecting(x)'
    BY <2>1 DEF Reading, Booking, Selecting
  <2> QED
    BY <1>3, <1>4, <1>8, <1>12, <1>13, <1>14, <2>1, <2>3, <2>4, Step
<1> QED
  BY <1>15, <1>16

\* Whatever is upserted on a row of an offer is a row of an offer.
LEMMA UpsertedRow ==
  ASSUME NEW row, {"active", "price"} \subseteq DOMAIN row, row.active \in BOOLEAN,
         NEW change, "active" \in DOMAIN change => change.active \in BOOLEAN
  PROVE  /\ {"active", "price"} \subseteq DOMAIN With(row, change) /\ With(row, change).active \in BOOLEAN
         /\ "price" \notin DOMAIN change => With(row, change).price = row.price
<1>1. PICK w : w = With(row, change)
  OBVIOUS
<1>2. /\ DOMAIN w = DOMAIN change \cup DOMAIN row
      /\ \A x \in DOMAIN change : w[x] = change[x]
      /\ \A x \in DOMAIN row \ DOMAIN change : w[x] = row[x]
  BY <1>1 DEF With
<1>3. w["active"] \in BOOLEAN
  <2>1. CASE "active" \in DOMAIN change
    BY <1>2, <2>1
  <2>2. CASE "active" \notin DOMAIN change
    BY <1>2, <2>2
  <2> QED
    BY <2>1, <2>2
<1>4. "price" \notin DOMAIN change => w["price"] = row["price"]
  BY <1>2
<1> QED
  BY <1>1, <1>2, <1>3, <1>4

LEMMA AssignServiceStep ==
  ASSUME IInv, NEW r \in Sessions, AssignServiceToLocation(r)
  PROVE  IInv'
<1>1. PICK q, s, l, key : q = req[r] /\ s = q.service /\ l = q.location /\ key = <<s, l>>
  OBVIOUS
<1>2. PICK row : row = IF key \in DOMAIN offers THEN offers[key] ELSE [active |-> TRUE, price |-> None]
  OBVIOUS
<1>3. PICK new, set : new = With(row, q.change) /\ set = [k \in {key} |-> new]
  OBVIOUS
<1>4. /\ q.at = "upsert" /\ Exists(s) /\ req' = [req EXCEPT ![r] = Idle]
      /\ offers' = With(offers, set) /\ Remembered
  BY <1>1, <1>2, <1>3 DEF AssignServiceToLocation, Finish, Continue
<1>5. UNCHANGED <<multi, places, categories, services, visits, skills, chosen>>
  BY DEF AssignServiceToLocation, Finish, Continue, lists, staff
<1>6. /\ DOMAIN offers' = DOMAIN offers \cup {key} /\ offers'[key] = new
      /\ \A k \in DOMAIN offers \ {key} : offers'[k] = offers[k]
  BY <1>3, <1>4 DEF With
<1>7. /\ s \in DOMAIN services /\ ("active" \in DOMAIN q.change => q.change.active \in BOOLEAN)
      /\ ~multi => "price" \notin DOMAIN q.change
  BY <1>1, <1>4 DEF IInv, SaleInv, Trading
<1>8. {"active", "price"} \subseteq DOMAIN row /\ row.active \in BOOLEAN
  <2>1. CASE key \in DOMAIN offers
    BY <1>2, <2>1 DEF IInv, SaleInv, OffersOK
  <2>2. CASE key \notin DOMAIN offers
    BY <1>2, <2>2
  <2> QED
    BY <2>1, <2>2
<1>9. /\ {"active", "price"} \subseteq DOMAIN new /\ new.active \in BOOLEAN
      /\ ~multi => new.price = row.price
  BY <1>3, <1>7, <1>8, UpsertedRow
<1>10. /\ charged \subseteq charged'
       /\ \A k \in DOMAIN offers' :
            <<k[1], k[2], ResolvedPrice(services'[k[1]], offers'[k]), offers'[k].active>> \in charged'
  BY <1>4, Remembering
<1>11. key[1] = s /\ key[2] = l
  BY <1>1
<1>12. ASSUME NEW k \in DOMAIN offers'
       PROVE  /\ Exists(k[1]) /\ {"active", "price"} \subseteq DOMAIN offers'[k]
              /\ offers'[k].active \in BOOLEAN
  <2>1. CASE k = key
    BY <1>4, <1>6, <1>9, <1>11, <2>1
  <2>2. CASE k # key
    BY <1>6, <2>2 DEF IInv, SaleInv, OffersOK
  <2> QED
    BY <2>1, <2>2
<1>13. OffersOK'
  BY <1>5, <1>10, <1>12 DEF OffersOK, Exists, ResolvedPrice
<1>14. ASSUME ~multi
       PROVE  /\ \A k \in DOMAIN offers : offers'[k].price = offers[k].price
              /\ key \notin DOMAIN offers => offers'[key].price = None
  <2>1. key \in DOMAIN offers => row = offers[key]
    BY <1>2
  <2>2. key \notin DOMAIN offers => row.price = None
    BY <1>2
  <2> QED
    BY <1>6, <1>9, <1>14, <2>1, <2>2
<1>15. ASSUME ~multi, NEW i, NEW m, ~Offered(i, m), Offered(i, m)'
       PROVE  offers'[<<i, m>>].price = None
  <2>1. <<i, m>> = key /\ key \notin DOMAIN offers
    BY <1>6, <1>15 DEF Offered
  <2> QED
    BY <1>14, <1>15, <2>1
<1>16. TradeStep
  BY <1>5, <1>6, <1>10, <1>14, <1>15 DEF TradeStep, Exists, Locations
<1>17. VisitsOK' /\ IsASequence(visits') /\ IsASequence(services') /\ skills' \subseteq chosen'
  BY <1>5, <1>16, VisitsStay DEF IInv, SaleInv, Shape, IsASequence
<1> QED
  BY <1>4, <1>5, <1>13, <1>16, <1>17, IdleKeepsNothing, Step

LEMMA DeactivateStep ==
  ASSUME IInv, NEW r \in Sessions, NEW s, NEW l, Offered(s, l), Begin(r, Idle), Deactivate(s, l)
  PROVE  IInv'
<1>1. PICK key : key = <<s, l>>
  OBVIOUS
<1>2. /\ req' = [req EXCEPT ![r] = Idle] /\ Remembered
      /\ offers' = [offers EXCEPT ![key].active = FALSE] /\ key \in DOMAIN offers
  BY <1>1 DEF Begin, Deactivate, Offered
<1>3. UNCHANGED <<multi, places, categories, services, visits, skills, chosen>>
  BY DEF Begin, Deactivate, lists, staff
<1>4. \A k \in DOMAIN offers : {"active", "price"} \subseteq DOMAIN offers[k] /\ offers[k].active \in BOOLEAN
  BY DEF IInv, SaleInv, OffersOK
<1>5. /\ DOMAIN offers' = DOMAIN offers
      /\ offers'[key] = [offers[key] EXCEPT !.active = FALSE]
      /\ \A k \in DOMAIN offers \ {key} : offers'[k] = offers[k]
  BY <1>2
<1>6. PICK old, new : old = offers[key] /\ new = offers'[key]
  OBVIOUS
<1>7. {"active", "price"} \subseteq DOMAIN old /\ new = [old EXCEPT !.active = FALSE]
  BY <1>2, <1>4, <1>5, <1>6
<1>8. {"active", "price"} \subseteq DOMAIN new /\ new.active = FALSE /\ new.price = old.price
  BY <1>7
<1>9. \A k \in DOMAIN offers' : /\ {"active", "price"} \subseteq DOMAIN offers'[k]
                                /\ offers'[k].active \in BOOLEAN /\ offers'[k].price = offers[k].price
  BY <1>4, <1>5, <1>6, <1>8
<1>10. /\ charged \subseteq charged'
       /\ \A k \in DOMAIN offers' :
            <<k[1], k[2], ResolvedPrice(services'[k[1]], offers'[k]), offers'[k].active>> \in charged'
  BY <1>2, Remembering
<1>11. OffersOK'
  BY <1>3, <1>5, <1>9, <1>10 DEF IInv, SaleInv, OffersOK, Exists, ResolvedPrice
<1>12. TradeStep
  BY <1>3, <1>5, <1>9, <1>10 DEF TradeStep, Exists, Locations, Offered
<1>13. VisitsOK' /\ IsASequence(visits') /\ IsASequence(services') /\ skills' \subseteq chosen'
  BY <1>3, <1>12, VisitsStay DEF IInv, SaleInv, Shape, IsASequence
<1> QED
  BY <1>2, <1>3, <1>11, <1>12, <1>13, IdleKeepsNothing, Step

LEMMA RemoveServiceStep ==
  ASSUME IInv, NEW r \in Sessions, NEW s, NEW l, RemoveServiceFromLocation(r, s, l)
  PROVE  IInv'
<1>1. Offered(s, l) /\ Begin(r, Idle) /\ Deactivate(s, l)
  BY DEF RemoveServiceFromLocation
<1> QED
  BY <1>1, DeactivateStep

LEMMA DeleteServiceStep ==
  ASSUME IInv, NEW r \in Sessions, NEW s, NEW l, DeleteService(r, s, l)
  PROVE  IInv'
<1>1. CASE Begin(r, Idle) /\ Deactivate(s, l)
  <2>1. Offered(s, l)
    BY DEF DeleteService
  <2> QED
    BY <1>1, <2>1, DeactivateStep
<1>2. CASE Begin(r, [at |-> "future", service |-> s]) /\ UNCHANGED <<lists, trade, staff>>
  <2>1. PICK x : x = [at |-> "future", service |-> s]
    OBVIOUS
  <2>2. req' = [req EXCEPT ![r] = x] /\ UNCHANGED <<multi, visits>>
    BY <1>2, <2>1 DEF Begin
  <2>3. UNCHANGED <<places, categories, services, offers, charged, skills, chosen>>
    BY <1>2 DEF lists, trade, staff
  <2>4. "at" \in DOMAIN x /\ x.at = "future" /\ ~HoldsLock(x)
    BY <2>1 DEF HoldsLock
  <2>5. Trading(x)' /\ Reading(x)' /\ Booking(x)' /\ Selecting(x)'
    BY <2>4, NothingToKeep
  <2>6. skills' \subseteq chosen'
    BY <2>3 DEF IInv, SaleInv
  <2> QED
    BY <2>2, <2>3, <2>4, <2>5, <2>6, QuietStep
<1> QED
  BY <1>1, <1>2 DEF DeleteService

LEMMA CheckFutureStep ==
  ASSUME IInv, NEW r \in Sessions, CheckFutureAppointments(r)
  PROVE  IInv'
<1>1. PICK q : q = req[r]
  OBVIOUS
<1>2. PICK x : x = [q EXCEPT !.at = "delete"]
  OBVIOUS
<1>3. q.at = "future" /\ req' = [req EXCEPT ![r] = x] /\ multi' = multi
  BY <1>1, <1>2 DEF CheckFutureAppointments, Continue
<1>4. UNCHANGED <<places, categories, services, offers, charged, visits, skills, chosen>>
  BY DEF CheckFutureAppointments, lists, trade, staff
<1>5. "at" \in DOMAIN q /\ ~HoldsLock(q)
  BY <1>1, <1>3 DEF IInv, Shape, ListsInv, Listing
<1>6. "at" \in DOMAIN x /\ x.at = "delete" /\ DOMAIN x = DOMAIN q
  BY <1>2, <1>5
<1>7. ~HoldsLock(x)
  BY <1>5, <1>6 DEF HoldsLock
<1>8. Trading(x)' /\ Reading(x)' /\ Booking(x)' /\ Selecting(x)'
  BY <1>6, NothingToKeep
<1>9. skills' \subseteq chosen'
  BY <1>4 DEF IInv, SaleInv
<1> QED
  BY <1>3, <1>4, <1>6, <1>7, <1>8, <1>9, QuietStep

LEMMA DeleteRowsStep ==
  ASSUME IInv, NEW r \in Sessions, DeleteRows(r)
  PROVE  IInv'
<1>1. PICK s : s = req[r].service
  OBVIOUS
<1>2. /\ Exists(s) /\ req' = [req EXCEPT ![r] = Idle] /\ multi' = multi
      /\ services' = [services EXCEPT ![s] = None]
  BY <1>1 DEF DeleteRows, Finish, Continue
<1>3. /\ skills' = {k \in skills : k[2] # s}
      /\ offers' = Restrict(offers, {k \in DOMAIN offers : k[1] # s})
      /\ UNCHANGED <<places, categories, charged, chosen>>
  BY <1>1 DEF DeleteRows, lists
<1>4. visits' = [v \in DOMAIN visits |->
                   IF visits[v].service = s THEN [visits[v] EXCEPT !.service = None] ELSE visits[v]]
  BY <1>1 DEF DeleteRows
<1>5. IsASequence(services) /\ IsASequence(visits)
  BY DEF IInv, Shape
<1>6. /\ s \in DOMAIN services /\ DOMAIN services' = DOMAIN services /\ services'[s] = None
      /\ \A i \in DOMAIN services \ {s} : services'[i] = services[i]
      /\ services' = [i \in DOMAIN services |-> services'[i]]
  BY <1>2, <1>5 DEF Exists, IsASequence
<1>7. \A i : Exists(i)' <=> Exists(i) /\ i # s
  BY <1>6 DEF Exists
<1>8. /\ DOMAIN offers' = {k \in DOMAIN offers : k[1] # s}
      /\ \A k \in DOMAIN offers' : offers'[k] = offers[k]
  BY <1>3 DEF Restrict
<1>9. TradeStep
  <2>1. \A i, l : Offered(i, l)' => Offered(i, l)
    BY <1>8 DEF Offered
  <2>2. /\ multi' = multi /\ charged \subseteq charged' /\ chosen \subseteq chosen'
        /\ DOMAIN services \subseteq DOMAIN services' /\ Locations \subseteq Locations'
    BY <1>2, <1>3, <1>6 DEF Locations
  <2>3. /\ \A i \in DOMAIN services : Exists(i)' => Exists(i) /\ services'[i] = services[i]
        /\ \A k \in DOMAIN offers : Exists(k[1])' => k \in DOMAIN offers'
    BY <1>6, <1>7, <1>8
  <2>4. \A k \in DOMAIN offers \cap DOMAIN offers' : offers'[k].price = offers[k].price
    BY <1>8
  <2> QED
    BY <2>1, <2>2, <2>3, <2>4 DEF TradeStep
<1>10. OffersOK'
  <2> SUFFICES ASSUME NEW k \in DOMAIN offers'
               PROVE  /\ Exists(k[1])'
                      /\ {"active", "price"} \subseteq DOMAIN offers'[k] /\ offers'[k].active \in BOOLEAN
                      /\ <<k[1], k[2], ResolvedPrice(services'[k[1]], offers'[k]), offers'[k].active>> \in charged'
    BY DEF OffersOK, ResolvedPrice
  <2>1. k \in DOMAIN offers /\ k[1] # s /\ offers'[k] = offers[k]
    BY <1>8
  <2>2. /\ Exists(k[1])
        /\ {"active", "price"} \subseteq DOMAIN offers[k] /\ offers[k].active \in BOOLEAN
        /\ <<k[1], k[2], ResolvedPrice(services[k[1]], offers[k]), offers[k].active>> \in charged
    BY <2>1 DEF IInv, SaleInv, OffersOK
  <2>3. services'[k[1]] = services[k[1]]
    BY <1>6, <2>1, <2>2 DEF Exists
  <2> QED
    BY <1>3, <1>7, <2>1, <2>2, <2>3
<1>11. /\ DOMAIN visits' = DOMAIN visits /\ visits' = [v \in DOMAIN visits |-> visits'[v]]
       /\ \A v \in DOMAIN visits :
            visits'[v] = IF visits[v].service = s THEN [visits[v] EXCEPT !.service = None] ELSE visits[v]
  BY <1>4
<1>12. VisitsOK'
  <2> SUFFICES ASSUME NEW v \in DOMAIN visits
               PROVE  /\ {"barber", "service", "booked", "location", "price"} \subseteq DOMAIN visits'[v]
                      /\ <<visits'[v].barber, visits'[v].booked, visits'[v].location>> \in chosen'
                      /\ OnSale(visits[v].booked, visits[v].location, visits[v].price)'
    BY <1>11 DEF VisitsOK
  <2>1. PICK old, new : old = visits[v] /\ new = visits'[v]
    OBVIOUS
  <2>2. PICK bs, bl, bp : bs = old.booked /\ bl = old.location /\ bp = old.price
    OBVIOUS
  <2>3. /\ {"barber", "service", "booked", "location", "price"} \subseteq DOMAIN old
        /\ <<old.barber, bs, bl>> \in chosen /\ OnSale(bs, bl, bp)
    BY <2>1, <2>2 DEF IInv, SaleInv, VisitsOK
  <2>4. new = old \/ new = [old EXCEPT !.service = None]
    BY <1>11, <2>1
  <2>5. DOMAIN new = DOMAIN old /\ new.barber = old.barber /\ new.booked = bs /\ new.location = bl /\ new.price = bp
    BY <2>2, <2>3, <2>4
  <2>6. OnSale(bs, bl, bp)' /\ <<old.barber, bs, bl>> \in chosen'
    BY <1>3, <1>9, <2>3, OnSaleStays
  <2>7. OnSale(visits[v].booked, visits[v].location, visits[v].price)'
    BY <2>1, <2>5, <2>6 DEF OnSale
  <2> QED
    BY <2>1, <2>3, <2>5, <2>6, <2>7
<1>13. IsASequence(services') /\ IsASequence(visits')
  BY <1>5, <1>6, <1>11, ChangeIsASequence
<1>14. skills' \subseteq chosen'
  BY <1>3 DEF IInv, SaleInv
<1> QED
  BY <1>2, <1>3, <1>9, <1>10, <1>12, <1>13, <1>14, IdleKeepsNothing, Step

LEMMA TradeActions ==
  ASSUME IInv, NEW r \in Sessions, Trade(r)
  PROVE  IInv'
<1>1. ASSUME NEW l \in Locations, NEW active \in BOOLEAN,
             NEW price \in {services[x] : x \in {x \in DOMAIN services : Exists(x)}},
             CreateService(r, l, price, active)
      PROVE  IInv'
  <2>1. price # None
    BY DEF Exists
  <2> QED
    BY <1>1, <2>1, CreateServiceStep
<1>2. ASSUME NEW l \in Locations, NEW s \in DOMAIN services,
             \/ \E input \in ServiceChanges : PatchService(r, s, l, input)
             \/ \E isNew \in BOOLEAN, change \in OfferChanges : SaveOffer(r, s, l, isNew, change)
      PROVE  IInv'
  BY <1>2, PatchServiceStep, SaveOfferStep
<1>3. ASSUME NEW l \in Locations, NEW s \in DOMAIN services,
             RemoveServiceFromLocation(r, s, l) \/ DeleteService(r, s, l)
      PROVE  IInv'
  BY <1>3, RemoveServiceStep, DeleteServiceStep
<1>4. CASE UpdateService(r) \/ AssignServiceToLocation(r) \/ CheckFutureAppointments(r) \/ DeleteRows(r)
  BY <1>4, UpdateServiceStep, AssignServiceStep, CheckFutureStep, DeleteRowsStep
<1> QED
  BY <1>1, <1>2, <1>3, <1>4 DEF Trade

LEMMA BookingActions ==
  ASSUME IInv, NEW r \in Sessions, Bookings(r)
  PROVE  IInv'
<1>1. CASE \E b \in 0..barbers, s \in DOMAIN services, l \in Locations : CreateAppointment(r, b, s, l)
  BY <1>1, CreateAppointmentStep
<1>2. CASE \E b \in 1..barbers : ChooseBarber(r, b)
  BY <1>2, ChooseBarberStep
<1>3. CASE ReadServices(r) \/ ReadOffers(r) \/ ReadSkills(r) \/ InsertAppointment(r)
  BY <1>3, ReadServicesStep, ReadOffersStep, ReadSkillsStep, InsertAppointmentStep
<1> QED
  BY <1>1, <1>2, <1>3 DEF Bookings

-----------------------------------------------------------------------------
(* Every behaviour *)

LEMMA NothingHappens ==
  ASSUME IInv, UNCHANGED vars
  PROVE  IInv'
<1>1. UNCHANGED <<multi, places, categories, services, offers, charged, visits, skills, chosen, req>>
  BY DEF vars, lists, trade, staff
<1>2. Shape' /\ OneHolder'
  BY <1>1 DEF IInv, Shape, ListsInv, OneHolder, HoldsLock, IsASequence
<1>3. PlacesOK' /\ CategoriesOK' /\ Fewer
  BY <1>1 DEF IInv, ListsInv, PlacesOK, CategoriesOK, Existing, Fewer
<1>4. TradeStep /\ OffersOK' /\ VisitsOK' /\ skills' \subseteq chosen'
  BY <1>1, SoldAsBefore DEF IInv, SaleInv
<1>5. ASSUME NEW o \in Sessions
      PROVE  (Listing(req[o]) /\ Trading(req[o]) /\ Reading(req[o]) /\ Booking(req[o]) /\ Selecting(req[o]))'
  <2>1. PICK q : q = req[o]
    OBVIOUS
  <2>2. Listing(q)'
    BY <1>1, <1>3, <2>1, ListingStays DEF IInv, ListsInv
  <2>3. Trading(q)' /\ Reading(q)'
    BY <1>4, <2>1, TradingStays, ReadingStays DEF IInv, SaleInv
  <2>4. Booking(q)' /\ Selecting(q)'
    BY <1>4, <2>1, OtherRequestsStay DEF IInv, SaleInv
  <2>5. req'[o] = q
    BY <1>1, <2>1
  <2>6. Listing(req[o])'
    BY <2>2, <2>5 DEF Listing, HoldsLock
  <2>7. Trading(req[o])'
    BY <2>3, <2>5 DEF Trading
  <2>8. Reading(req[o])'
    BY <2>3, <2>5 DEF Reading
  <2>9. Booking(req[o])'
    BY <2>4, <2>5 DEF Booking
  <2>10. Selecting(req[o])'
    BY <2>4, <2>5 DEF Selecting
  <2> QED
    BY <2>6, <2>7, <2>8, <2>9, <2>10
<1> QED
  BY <1>2, <1>3, <1>4, <1>5 DEF IInv, ListsInv, SaleInv

LEMMA NextKeepsIInv ==
  ASSUME IInv, [Next]_vars
  PROVE  IInv'
<1>1. ASSUME NEW r \in Sessions, Lists(r) \/ Trade(r) \/ Staff(r) \/ Bookings(r) \/ Abandon(r)
      PROVE  IInv'
  BY <1>1, ListActions, TradeActions, StaffActions, BookingActions, AbandonStep
<1> QED
  BY <1>1, NothingHappens DEF Next

\* What an installation starts with was in force, and nobody is served yet.
LEMMA InitIsIInv ==
  ASSUME Init
  PROVE  IInv
<1>1. PICK i \in Installations :
        /\ multi = i.multi /\ places = i.places /\ services = i.services /\ offers = i.offers
        /\ barbers = i.barbers /\ team = i.team /\ skills = i.skills
  BY DEF Init
<1>2. /\ categories = <<>> /\ visits = <<>> /\ req = [r \in Sessions |-> Idle]
      /\ charged = Terms(services, offers) /\ chosen = skills
  BY DEF Init
<1>3. Idle.at = "idle" /\ "at" \in DOMAIN Idle /\ ~HoldsLock(Idle)
  BY DEF Idle, HoldsLock
<1>4. IsASequence(services) /\ IsASequence(visits)
  BY <1>1, <1>2, InstallationAssumption DEF IsASequence
<1>5. Shape
  BY <1>2, <1>3, <1>4 DEF Shape
<1>6. PlacesOK
  BY <1>1, InstallationAssumption DEF PlacesOK
<1>7. CategoriesOK
  <2>1. categories \in Seq(Nat \cup {None}) /\ DOMAIN categories = {}
    BY <1>2
  <2> QED
    BY <2>1 DEF CategoriesOK, Existing
<1>8. OneHolder /\ \A r \in Sessions : Listing(req[r])
  BY <1>2, <1>3 DEF OneHolder, Listing, HoldsLock
<1>9. OffersOK
  <2> SUFFICES ASSUME NEW k \in DOMAIN offers
               PROVE  /\ Exists(k[1])
                      /\ {"active", "price"} \subseteq DOMAIN offers[k] /\ offers[k].active \in BOOLEAN
                      /\ <<k[1], k[2], ResolvedPrice(services[k[1]], offers[k]), offers[k].active>> \in charged
    BY DEF OffersOK
  <2>1. /\ k[1] \in DOMAIN services /\ services[k[1]] # None
        /\ {"active", "price"} \subseteq DOMAIN offers[k] /\ offers[k].active \in BOOLEAN
    BY <1>1, InstallationAssumption
  <2>2. <<k[1], k[2], ResolvedPrice(services[k[1]], offers[k]), offers[k].active>> \in Terms(services, offers)
    BY DEF Terms, ResolvedPrice
  <2> QED
    BY <1>2, <2>1, <2>2 DEF Exists
<1>10. VisitsOK /\ skills \subseteq chosen
  BY <1>2 DEF VisitsOK
<1>11. \A r \in Sessions : Trading(req[r]) /\ Reading(req[r]) /\ Booking(req[r]) /\ Selecting(req[r])
  BY <1>2, <1>3 DEF Trading, Reading, Booking, Selecting
<1> QED
  BY <1>5, <1>6, <1>7, <1>8, <1>9, <1>10, <1>11 DEF IInv, ListsInv, SaleInv

LEMMA Invariance == Spec => []IInv
<1>1. Init => IInv
  BY InitIsIInv
<1>2. IInv /\ [Next]_vars => IInv'
  BY NextKeepsIInv
<1> QED
  BY <1>1, <1>2, PTL DEF Spec

(* No two locations and no two categories ever have the same place, and the
   plan's number of locations is never exceeded (createLocation,
   createServiceCategory and reorderServiceCategories of storage.ts, each under
   an advisory lock, and deleteServiceCategory without it), however many
   administrators work at once and wherever a request dies. *)
THEOREM ListsStayInOrder == Spec => []ListsAreInOrder
<1>1. IInv => ListsAreInOrder
  <2> SUFFICES ASSUME IInv PROVE ListsAreInOrder
    OBVIOUS
  <2>1. PlacesOK /\ CategoriesOK /\ ListsInv
    BY DEF IInv, ListsInv
  <2>2. Cardinality(Locations) = Len(places)
    BY <2>1, Counting
  <2> QED
    BY <2>1, <2>2 DEF ListsAreInOrder, PlacesOK, CategoriesOK
<1> QED
  BY <1>1, Invariance, PTL

(* Every online booking (the POST /api/appointments of routes.ts, which reads
   services, offers and selections one after the other without a transaction)
   has a price that was in force for its service at its location while it was
   on sale there, and a barber for whom somebody selected it there. *)
THEOREM BookingsStayOnSale == Spec => []BookingsWereOnSale
<1>1. IInv => BookingsWereOnSale
  BY DEF IInv, SaleInv, VisitsOK, OnSale, BookingsWereOnSale
<1> QED
  BY <1>1, Invariance, PTL
=============================================================================
