-------------------------- MODULE ShopCatalogue --------------------------
(***************************************************************************)
(* What an installation sells, where and by whom: its locations, service   *)
(* categories, services, their offers at each location and the barbers who *)
(* perform them there, while customers book.                               *)
(*                                                                         *)
(* A session is one HTTP request.  Its statements commit one by one unless *)
(* a transaction holds them, so a request sees the tables at different     *)
(* times.  Names, texts and slugs are left out, and so are the slots,      *)
(* hours and series of AppointmentBooking and OnlineBooking.               *)
(***************************************************************************)
EXTENDS Integers, Sequences, FiniteSets, FiniteSetsExt, Functions

CONSTANTS
    Sessions,
    Installations,  \* the shops as an installation starts
    MaxLocations,   \* MAX_LOCATIONS, the plan
    MaxServices, MaxBarbers, MaxCategories,
    OfferChanges,   \* bodies of PATCH service-locations and POST service-locations
    ServiceChanges, \* bodies of PATCH /api/services/:id
    MaxRequests,
    None            \* SQL NULL

\* Locations are only added, each behind the others, and an installation is within its
\* plan; without the flag it serves its default location only.  Offers are of services
\* that exist (service_locations has a foreign key).
ASSUME InstallationAssumption ==
    /\ MaxLocations \in Nat /\ None \notin Nat
    /\ \A i \in Installations :
        /\ i.places \in Seq(Nat) /\ IsInjective(i.places) /\ Len(i.places) <= MaxLocations
        /\ \A l \in DOMAIN i.places : i.places[l] < Len(i.places)
        /\ ~i.multi => Len(i.places) = 1
        /\ i.services \in Seq(Range(i.services))
        /\ \A k \in DOMAIN i.offers :
            /\ k[1] \in DOMAIN i.services /\ i.services[k[1]] # None
            /\ {"active", "price"} \subseteq DOMAIN i.offers[k] /\ i.offers[k].active \in BOOLEAN

ASSUME ChangeAssumption ==
    /\ \A c \in OfferChanges : "active" \in DOMAIN c => c.active \in BOOLEAN
    /\ \A c \in ServiceChanges : "isActive" \in DOMAIN c => c.isActive \in BOOLEAN

VARIABLES
    multi,       \* MULTI_LOCATION_ENABLED
    places,      \* locations, by id: the sort order
    categories,  \* service_categories, by id: the sort order, None if deleted
    services,    \* services, by id: the price, None if deleted
    offers,      \* service_locations: [active, price], price None for the service's
    barbers,     \* how many there are
    team,        \* barber_locations: is_active
    skills,      \* barber_services
    visits,      \* appointments
    req,         \* what each session holds in memory
    served,      \* requests so far
    charged,     \* history: <<service, location, price, active>> in force at some time
    chosen       \* history: <<barber, service, location>> that somebody selected there

\* What a statement sets over what was there.
With(old, set) == [x \in DOMAIN set \cup DOMAIN old |-> IF x \in DOMAIN set THEN set[x] ELSE old[x]]

lists == <<places, categories>>
trade == <<services, offers, charged>>
staff == <<barbers, team, skills, chosen>>
vars == <<multi, lists, trade, staff, visits, req, served>>

Locations == DOMAIN places
Idle == [at |-> "idle"]

Begin(r, request) ==
    /\ req[r] = Idle /\ served < MaxRequests
    /\ req' = [req EXCEPT ![r] = request]
    /\ served' = served + 1
    /\ UNCHANGED <<multi, visits>>

Continue(r, request) == req' = [req EXCEPT ![r] = request] /\ UNCHANGED <<multi, served>>
Finish(r) == Continue(r, Idle)

\* The request is answered with an error, or the process dies: what it has
\* committed stays.
Abandon(r) == req[r] # Idle /\ Finish(r) /\ UNCHANGED <<lists, trade, staff, visits>>

Unlocked(lock) == TRUE

\* pg_advisory_xact_lock
Free(lock) == \A o \in Sessions : "lock" \in DOMAIN req[o] => req[o].lock # lock

----------------------------------------------------------------------------
(* Locations and categories: lists kept in order under an advisory lock *)

CreateLocation(r) ==
    /\ multi /\ Free("locations") /\ Cardinality(Locations) < MaxLocations
    /\ Begin(r, [at |-> "location", lock |-> "locations", position |-> Cardinality(Locations)])
    /\ UNCHANGED <<lists, trade, staff>>

InsertLocation(r) ==
    /\ req[r].at = "location" /\ Finish(r)
    /\ places' = Append(places, req[r].position)
    /\ UNCHANGED <<categories, trade, staff, visits>>

Existing == {c \in DOMAIN categories : categories[c] # None}

CreateServiceCategory(r) ==
    /\ Free("categories") /\ Len(categories) < MaxCategories
    /\ Begin(r, [at |-> "category", lock |-> "categories",
                 position |-> Max({categories[c] : c \in Existing} \cup {-1}) + 1])
    /\ UNCHANGED <<lists, trade, staff>>

InsertServiceCategory(r) ==
    /\ req[r].at = "category" /\ Finish(r)
    /\ categories' = Append(categories, req[r].position)
    /\ UNCHANGED <<places, trade, staff, visits>>

AnyList(listed) == TRUE

\* The list that a page shows may be older than the categories.
IsCurrentList(listed) == listed = Existing

ReorderServiceCategories(r, listed, order) ==
    /\ Free("categories") /\ IsCurrentList(listed)
    /\ Begin(r, [at |-> "reorder", lock |-> "categories", order |-> order])
    /\ UNCHANGED <<lists, trade, staff>>

UpdatePositions(r) ==
    /\ req[r].at = "reorder" /\ Finish(r)
    /\ categories' = [c \in DOMAIN categories |->
                        IF c \in Existing \cap DOMAIN req[r].order THEN req[r].order[c] ELSE categories[c]]
    /\ UNCHANGED <<places, trade, staff, visits>>

\* One statement, without the lock.
DeleteServiceCategory(r, c) ==
    /\ Begin(r, Idle) /\ c \in Existing
    /\ categories' = [categories EXCEPT ![c] = None]
    /\ UNCHANGED <<places, trade, staff>>

----------------------------------------------------------------------------
(* Services and their offers *)

BasePrice(service, offer) == service

\* resolveServiceLocationTerms
ResolvedPrice(service, offer) == IF offer.price # None THEN offer.price ELSE service

Offered(s, l) == <<s, l>> \in DOMAIN offers
Exists(s) == s \in DOMAIN services /\ services[s] # None

\* The terms in force after a step, for the history.
Terms(of, at) == {<<k[1], k[2], IF at[k].price # None THEN at[k].price ELSE of[k[1]], at[k].active>> :
                    k \in DOMAIN at}
Remembered == charged' = charged \cup Terms(services', offers')

\* POST /api/services: the service, then in another statement its offer.
CreateService(r, l, price, active) ==
    /\ Len(services) < MaxServices
    /\ Begin(r, [at |-> "upsert", service |-> Len(services) + 1, location |-> l,
                 change |-> [active |-> active]])
    /\ services' = Append(services, price)
    /\ UNCHANGED <<lists, offers, charged, staff>>

GlobalPriceAlways(input) == IF "price" \in DOMAIN input THEN input.price ELSE None

\* With several locations a price is an override of one of them.
GlobalPrice(input) == IF ~multi /\ "price" \in DOMAIN input THEN input.price ELSE None

LocalChange(input) ==
    LET active == IF "isActive" \in DOMAIN input THEN [active |-> input.isActive] ELSE <<>>
        price == IF ~multi THEN <<>>
                 ELSE IF "priceOverride" \in DOMAIN input THEN [price |-> input.priceOverride]
                 ELSE IF "price" \in DOMAIN input THEN [price |-> input.price] ELSE <<>>
    IN With(price, active)

PatchService(r, s, l, input) ==
    /\ Offered(s, l)
    /\ Begin(r, [at |-> "update", service |-> s, location |-> l,
                 price |-> GlobalPrice(input), change |-> LocalChange(input)])
    /\ UNCHANGED <<lists, trade, staff>>

\* updateService, if a column of the service is to change.
UpdateService(r) ==
    LET q == req[r]
        next == IF DOMAIN q.change = {} THEN Idle
                ELSE [at |-> "upsert", service |-> q.service, location |-> q.location, change |-> q.change]
    IN /\ q.at = "update" /\ Exists(q.service)
       /\ services' = IF q.price = None THEN services ELSE [services EXCEPT ![q.service] = q.price]
       /\ Continue(r, next)
       /\ UNCHANGED <<lists, offers, staff, visits>>
       /\ Remembered

\* POST and PATCH /api/admin/service-locations
SaveOffer(r, s, l, isNew, change) ==
    /\ multi /\ Exists(s) /\ isNew = ~Offered(s, l)
    /\ Begin(r, [at |-> "upsert", service |-> s, location |-> l, change |-> change])
    /\ UNCHANGED <<lists, trade, staff>>

\* assignServiceToLocation: INSERT ... ON CONFLICT DO UPDATE of what is sent.
AssignServiceToLocation(r) ==
    LET q == req[r]
        key == <<q.service, q.location>>
        row == IF key \in DOMAIN offers THEN offers[key] ELSE [active |-> TRUE, price |-> None]
    IN /\ q.at = "upsert" /\ Exists(q.service) /\ Finish(r)
       /\ offers' = With(offers, [k \in {key} |-> With(row, q.change)])
       /\ UNCHANGED <<lists, services, staff, visits>>
       /\ Remembered

Deactivate(s, l) ==
    /\ offers' = [offers EXCEPT ![<<s, l>>].active = FALSE]
    /\ UNCHANGED <<lists, services, staff>>
    /\ Remembered

RemoveServiceFromLocation(r, s, l) ==
    multi /\ Offered(s, l) /\ Begin(r, Idle) /\ Deactivate(s, l)

\* DELETE /api/services/:id keeps what other locations offer and what has
\* history; the rest it deletes in a transaction later.
DeleteService(r, s, l) ==
    /\ Offered(s, l)
    /\ IF (\E k \in Locations \ {l} : Offered(s, k)) \/ (\E v \in DOMAIN visits : visits[v].service = s)
       THEN Begin(r, Idle) /\ Deactivate(s, l)
       ELSE /\ Begin(r, [at |-> "future", service |-> s])
            /\ UNCHANGED <<lists, trade, staff>>

\* The bookings of the model are all in the future.
CheckFutureAppointments(r) ==
    /\ req[r].at = "future" /\ ~\E v \in DOMAIN visits : visits[v].service = req[r].service
    /\ Continue(r, [req[r] EXCEPT !.at = "delete"])
    /\ UNCHANGED <<lists, trade, staff, visits>>

DeleteRows(r) ==
    LET s == req[r].service IN
    /\ req[r].at = "delete" /\ Exists(s) /\ Finish(r)
    /\ skills' = {k \in skills : k[2] # s}
    /\ offers' = Restrict(offers, {k \in DOMAIN offers : k[1] # s})
    /\ visits' = [v \in DOMAIN visits |->
                    IF visits[v].service = s THEN [visits[v] EXCEPT !.service = None] ELSE visits[v]]
    /\ services' = [services EXCEPT ![s] = None]
    /\ UNCHANGED <<lists, charged, barbers, team, chosen>>

----------------------------------------------------------------------------
(* Who performs them *)

Services(l) == {s \in DOMAIN services : Offered(s, l)}
Here(b, l) == {k \in skills : k[1] = b /\ k[3] = l}
Selection(b, selected, l) == {<<b, s, l>> : s \in selected}
Works(b, l) == <<b, l>> \in DOMAIN team /\ team[<<b, l>>]

\* POST /api/barbers: all services of the location unless some are named.
HireBarber(r, l, selected) ==
    /\ barbers < MaxBarbers /\ selected \subseteq Services(l)
    /\ Begin(r, [at |-> "select", joins |-> TRUE, barber |-> barbers + 1, location |-> l,
                 selected |-> selected])
    /\ barbers' = barbers + 1
    /\ chosen' = chosen \cup Selection(barbers + 1, selected, l)
    /\ UNCHANGED <<lists, trade, team, skills>>

EverythingOffered(l) == Services(l)

\* A shared barber performs nothing at a new location until it is selected.
SharedSelection(l) == {}

\* POST /api/admin/location-barbers: one who was here before keeps the selection.
AssignBarber(r, b, l) ==
    /\ multi /\ b <= barbers
    /\ Begin(r, IF <<b, l>> \in DOMAIN team THEN [at |-> "return", barber |-> b, location |-> l]
                ELSE [at |-> "select", joins |-> TRUE, barber |-> b, location |-> l,
                      selected |-> SharedSelection(l)])
    /\ UNCHANGED <<lists, trade, staff>>

AssignBarberToLocation(r) ==
    /\ req[r].at = "return" /\ Finish(r)
    /\ team' = With(team, [k \in {<<req[r].barber, req[r].location>>} |-> TRUE])
    /\ UNCHANGED <<lists, trade, barbers, skills, chosen, visits>>

\* removeBarberFromLocation locks the assignment, as a booking does.
RemoveBarberFromLocation(r, b, l) ==
    /\ multi /\ <<b, l>> \in DOMAIN team /\ Begin(r, Idle)
    /\ ~\E v \in DOMAIN visits : visits[v].barber = b /\ visits[v].location = l
    /\ team' = [team EXCEPT ![<<b, l>>] = FALSE]
    /\ UNCHANGED <<lists, trade, barbers, skills, chosen>>

\* PATCH /api/barbers/:id/services
RequestServices(r, b, l, selected) ==
    /\ Works(b, l) /\ selected \subseteq Services(l)
    /\ Begin(r, [at |-> "select", joins |-> FALSE, barber |-> b, location |-> l, selected |-> selected])
    /\ chosen' = chosen \cup Selection(b, selected, l)
    /\ UNCHANGED <<lists, trade, barbers, team, skills>>

\* replaceBarberServices and assignBarberToLocationWithServices: the DELETE
\* sees the rows that are committed when it starts, and no others.
DeleteSelection(r) ==
    LET q == req[r] IN
    /\ q.at = "select"
    /\ Continue(r, [at |-> "selected", joins |-> q.joins, barber |-> q.barber, location |-> q.location,
                    selected |-> q.selected, seen |-> Here(q.barber, q.location)])
    /\ UNCHANGED <<lists, trade, staff, visits>>

\* INSERT and COMMIT, unless a key is gone or taken.
InsertSelection(r) ==
    LET q == req[r]
        new == Selection(q.barber, q.selected, q.location)
        kept == skills \ q.seen
    IN /\ q.at = "selected" /\ Finish(r)
       /\ \A s \in q.selected : Offered(s, q.location)
       /\ new \cap kept = {}
       /\ skills' = kept \cup new
       /\ team' = IF q.joins THEN With(team, [k \in {<<q.barber, q.location>>} |-> TRUE]) ELSE team
       /\ UNCHANGED <<lists, trade, barbers, chosen, visits>>

----------------------------------------------------------------------------
(* Online bookings *)

\* A customer asks for a barber, or for any (0).
CreateAppointment(r, b, s, l) ==
    /\ b \in 0..barbers
    /\ Begin(r, [at |-> "terms", barber |-> b, service |-> s, location |-> l,
                 price |-> None, offer |-> None])
    /\ UNCHANGED <<lists, trade, staff>>

\* loadLocationServiceCatalogue reads the services and the offers side by side.
ReadServices(r) ==
    /\ req[r].at = "terms" /\ req[r].price = None /\ Exists(req[r].service)
    /\ Continue(r, [req[r] EXCEPT !.price = services[req[r].service]])
    /\ UNCHANGED <<lists, trade, staff, visits>>

ReadOffers(r) ==
    LET q == req[r] IN
    /\ q.at = "terms" /\ q.offer = None /\ Offered(q.service, q.location)
    /\ offers[<<q.service, q.location>>].active
    /\ Continue(r, [q EXCEPT !.offer = offers[<<q.service, q.location>>]])
    /\ UNCHANGED <<lists, trade, staff, visits>>

SkilledAnywhere(b, s, l) == \E k \in skills : k[1] = b /\ k[2] = s

\* barberCanPerformService, on the rows of the location
BarberCanPerformService(b, s, l) == <<b, s, l>> \in skills

ReadSkills(r) ==
    LET q == req[r]
        asked == IF q.barber = 0 THEN 1..barbers ELSE {q.barber}
    IN /\ q.at = "terms" /\ q.price # None /\ q.offer # None
       /\ Continue(r, [at |-> "team", service |-> q.service, location |-> q.location,
                       price |-> ResolvedPrice(q.price, q.offer),
                       able |-> {b \in asked : BarberCanPerformService(b, q.service, q.location)}])
       /\ UNCHANGED <<lists, trade, staff, visits>>

ChooseBarber(r, b) ==
    LET q == req[r] IN
    /\ q.at = "team" /\ b \in q.able /\ Works(b, q.location)
    /\ Continue(r, [at |-> "book", barber |-> b, service |-> q.service,
                    location |-> q.location, price |-> q.price])
    /\ UNCHANGED <<lists, trade, staff, visits>>

InsertAppointment(r) ==
    LET q == req[r] IN
    /\ q.at = "book" /\ Exists(q.service) /\ Works(q.barber, q.location)
    /\ visits' = Append(visits, [barber |-> q.barber, service |-> q.service, booked |-> q.service,
                                 location |-> q.location, price |-> q.price])
    /\ Finish(r)
    /\ UNCHANGED <<lists, trade, staff>>

----------------------------------------------------------------------------
Init ==
    /\ \E i \in Installations :
        /\ multi = i.multi /\ places = i.places /\ services = i.services /\ offers = i.offers
        /\ barbers = i.barbers /\ team = i.team /\ skills = i.skills
    /\ categories = <<>> /\ visits = <<>>
    /\ req = [r \in Sessions |-> Idle] /\ served = 0
    /\ charged = Terms(services, offers) /\ chosen = skills

Lists(r) ==
    \/ CreateLocation(r) \/ InsertLocation(r)
    \/ CreateServiceCategory(r) \/ InsertServiceCategory(r) \/ UpdatePositions(r)
    \/ \E listed \in SUBSET DOMAIN categories :
        \E order \in Bijection(listed, 0..(Cardinality(listed) - 1)) :
            ReorderServiceCategories(r, listed, order)
    \/ \E c \in DOMAIN categories : DeleteServiceCategory(r, c)

Trade(r) ==
    \/ \E l \in Locations :
        \/ \E active \in BOOLEAN, s \in {services[x] : x \in {x \in DOMAIN services : Exists(x)}} :
               CreateService(r, l, s, active)
        \/ \E s \in DOMAIN services :
            \/ \E input \in ServiceChanges : PatchService(r, s, l, input)
            \/ \E isNew \in BOOLEAN, change \in OfferChanges : SaveOffer(r, s, l, isNew, change)
            \/ RemoveServiceFromLocation(r, s, l) \/ DeleteService(r, s, l)
    \/ UpdateService(r) \/ AssignServiceToLocation(r) \/ CheckFutureAppointments(r) \/ DeleteRows(r)

Staff(r) ==
    \/ \E l \in Locations :
        \/ \E selected \in SUBSET DOMAIN services :
            \/ HireBarber(r, l, selected)
            \/ \E b \in 1..barbers : RequestServices(r, b, l, selected)
        \/ \E b \in 1..barbers : AssignBarber(r, b, l) \/ RemoveBarberFromLocation(r, b, l)
    \/ AssignBarberToLocation(r) \/ DeleteSelection(r) \/ InsertSelection(r)

Bookings(r) ==
    \/ \E b \in 0..barbers, s \in DOMAIN services, l \in Locations : CreateAppointment(r, b, s, l)
    \/ ReadServices(r) \/ ReadOffers(r) \/ ReadSkills(r)
    \/ \E b \in 1..barbers : ChooseBarber(r, b)
    \/ InsertAppointment(r)

Next == \E r \in Sessions : Lists(r) \/ Trade(r) \/ Staff(r) \/ Bookings(r) \/ Abandon(r)

Spec == Init /\ [][Next]_vars

----------------------------------------------------------------------------
(* No two locations and no two categories have the same place in their lists,
   whatever administrators create, reorder and delete at once, and there are
   never more locations than the plan admits. *)
ListsAreInOrder ==
    /\ IsInjective(places) /\ Cardinality(Locations) <= MaxLocations
    /\ \A c, d \in Existing : categories[c] = categories[d] => c = d

(* Who books a service online pays what it cost at that location at some time,
   when it was on sale there, and gets a barber for whom somebody selected the
   service at that location, although prices, offers and selections change
   between the reads of the request.  With one location the price is in the
   service and the offer says whether it is on sale, so the two may be of
   different times. *)
BookingsWereOnSale ==
    \A v \in DOMAIN visits :
        LET b == visits[v] IN
        /\ <<b.barber, b.booked, b.location>> \in chosen
        /\ IF multi THEN <<b.booked, b.location, b.price, TRUE>> \in charged
           ELSE /\ \E price \in {t[3] : t \in charged} : <<b.booked, b.location, price, TRUE>> \in charged
                /\ \E active \in BOOLEAN : <<b.booked, b.location, b.price, active>> \in charged
=============================================================================
