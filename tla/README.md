# BarberBookings: a verification development

TLA+ modules of the booking system in `src/` (Express and TypeScript on PostgreSQL,
with a React client), their TLC configurations, and TLAPS proofs. PROJECT.json lists
the runs, the lines every definition stands for (a relation that only lists other actions
stands for none of its own), and the hazards the properties are for.

## The system

| part | state it keeps | operations | module |
|---|---|---|---|
| Appointment transactions (`server/storage.ts`, handlers in `server/routes.ts`) | `appointments`, `appointment_series`, extras, the outbox rows written with them | create, series, block, edit, status, reschedule and cancel by token | AppointmentBooking |
| Opening and closing places (`server/location-store.ts`) | `locations.is_active`, `barber_locations.is_active` | assign and remove a barber, open and close a location | AppointmentBooking |
| Notification outbox (`server/appointment-notifications.ts`) | `appointment_notification_events` | claim, lease, WhatsApp attempt, email fallback, complete | NotificationOutbox |
| Delivery webhook (`server/meta-webhook.ts`) | `meta_webhook_receipts`, the status of an event | record, reconcile, late fallback | NotificationOutbox |
| Inbound auto-reply (`server/meta-webhook.ts`, `server/storage.ts`) | the receipts of inbound messages in `meta_webhook_receipts` | claim, answer, complete | InboundReply |
| Recurring expenses (`server/recurring-expenses.ts`) | series, versions, pauses, the rows of `business_expenses` they give | create, edit, delete, new terms, pause, resume, end, correct; the worker | RecurringExpenses |
| Users and access (`server/auth-user-management.ts`, `auth-runtime.ts`, `auth-bootstrap.ts`, `auth-session.ts`) | `users`, scopes, `user_invites`, `barbers.user_id`, sessions | bootstrap, log in and out, create, invite, accept, disable, change identity, access, link or password, reset a professional's password | UserAccess |
| Barber accounts of the legacy mode (`server/storage.ts`, `server/routes.ts`) | `admins`, `barbers.email` and `.password`, `barber_invites` | invite, accept, change the email, reset, create an administrator | AuthCutover |
| Cutover tools (`server/auth-legacy-preflight.ts`, `auth-legacy-backfill.ts`, `auth-cutover-check.ts`) | `users`, scopes and `user_id` of both tables | classify, backfill, dry run, readiness check | AuthCutover |
| Availability and booking window (`client/src/lib/availability.ts`, `shared/public-booking-window.ts`, `shared/booking-slot-interval.ts`) | none | which times are free, on the page and in the server | Availability |
| Booking page (`client/src/pages/Booking.tsx`) | the state of the page, the answers it holds | open, choose, go back, answers that arrive or fail, submit | OnlineBooking |
| Pay and reports (`server/appointment-finance.ts`) | `barber_compensation_rules`, snapshots and prices of appointments | save pay, hire, complete, edit, reopen, report | AppointmentFinance, VisitSettlement |
| Locations, services, offers (`server/storage.ts`, `server/location-store.ts`, `server/routes.ts`) | `locations`, `service_categories`, `services`, `service_locations`, `barber_services` | create, order, price, offer, delete, select, book what is on sale | ShopCatalogue |
| Everything else | | | see the end |

How they interact. Every request is served by one of several Node processes, whose
handlers interleave at each `await`; all durable state is in PostgreSQL, and the only
coordination is its locks: row locks, the exclusion constraint of `appointments`, unique
indexes, and transaction-scoped advisory locks (`(-2, id)` for an appointment,
`(barber, day)` for a day of a barber, `(424243, location)` for expenses,
`(424242, n)` for locations and catalogues). An appointment transaction writes its outbox
rows with it; the process that wrote an event handles it at once, and a poller in each
process takes what is left over, under leases. Meta answers later, through the webhook.
The expense worker of each process runs at startup and every 15 minutes. The booking page
holds answers of the server that are never refreshed while it is open, except the booking
window.

What is hard: what a handler read before its transaction may be stale inside it; locks
are taken at different moments by different operations, and some take none; a day lock
covers the UTC day of the start and not the whole interval; a process may crash after it
took the only permission to send; receipts are repeated, reordered and handled in
parallel; a tick of the expense worker may act on yesterday's date. What makes each part
correct:

- appointments: no barber is booked twice; what is booked has its place; the newest notice
  says what the row says; a series is written whole or not at all; requests end;
- auto-reply: one answer to a number in a day;
- outbox: Meta is asked once; nobody is dropped between the channels; every due event is
  closed; the status is the last that counts;
- expenses: the ledger is what the series gives; the past never changes; what is due is
  recorded;
- users: one active global administrator remains; a changed account ends its sessions;
- cutover: what was given to an old email opens nothing; nobody loses a login to the
  change of mode, or gets somebody else's;
- booking page: what the customer sees chosen is what will be asked for, and was offered;
- pay: the past is not repriced; a chair rent is charged once; a visit is paid under a rule
  of its own barber;
- catalogue: lists are in order; who books pays a price that was on sale.

## The modules

### AppointmentBooking

A session is one HTTP request. `Request...` is the handler up to its call of storage: its
reads of the row and its early answers. The storage operation is then a transaction of one
step for each statement that reads or locks, in the order of the code (`ses[s].at`), and a
last step for its writes and the COMMIT, evaluated on the rows of that moment as READ
COMMITTED does. `Statement(s)` is one of these steps. Five operations share the steps and
differ in the tables `FirstStep`, `Protects`, `Introduces`, `Matches`, `NextRevision` and
`NewEvents`:

| code | steps |
|---|---|
| `createAppointments`, `createRecurringAppointmentSeries` | location, assignment, days, check, write |
| `updateAppointmentWithNotification`, `rescheduleAppointment` | lock (-2, id), read, location, assignment, days, check, write |
| `cancelAppointment` | lock (-2, id), read, write |
| `updateAppointment`, `updateAppointmentStatusIfCurrent` | (read the revision,) read, and the rest only for a result that is booked |
| `removeBarberFromLocation`, `assignBarberToLocation`, `updateLocation` | FOR UPDATE of the row, check, write |

`exclusive` and `shared` are the locks held; PostgreSQL releases them at the end of the
transaction. `LoseConnection` rolls back at any step. `now` and the times of appointments
are instants `0..MaxSlot`, `SlotsPerDay` of them in the UTC day that keys the day locks.
`Unused` hands out ids as the sequence does. A status update to a cancelled status goes
through `cancelAppointment` when notification events are enabled, as in the route.

Left out: extras, prices, payment methods, contact data and audit rows; the block
accounting of no-shows; the validation of opening hours, which reads and decides nothing
about other bookings.

`BarberCalendar` is what booking promises: callers ask for a series, and one step of the
calendar books every occurrence of it exactly as it was asked, or refuses all of it; single
bookings are moved, ended and restored; no two clash. `Held` keeps an id that is not in the
table (`Free`) apart from a row that holds nothing any more (`Over`), and only a row that
was booked once may come back, so rows that appear a few at a time are not a legal calendar
step. `BookingIsACalendar` says that the transactions of `AppointmentBooking` implement it,
with what the calling session still wants inserted (`Awaited`) as the caller's request; its
mutant `InsertOneByOne` commits each row by itself, as a loop without a transaction would.

### NotificationOutbox

A process is a worker that has claimed an event (the request that wrote it, or a poller) or
a webhook request. Every `await` ends a step; `seen` is the row it read last. `Decision` is
the sequence of early returns of `processClaimedCore` and `processRecurringConfirmation`;
`ClaimAttempt` is the conditional UPDATE that gives the one attempt; `SendWhatsApp` lets
Meta take a message whose answer is lost. A crash forgets a process and keeps the rows. A
lease that expires under a slow worker is `SlowWorkers`. `phase` is the delivery window of a
reminder, `current` whether the revision of the event is still the appointment's;
AppointmentBooking is where that revision is written, and `RevisionsAdvance` there is what
makes `Supersede` final here. Meta reports statuses in an order of their times, and webhook
requests bring any of them, any number of times.

### InboundReply

The other half of the webhook: messages that customers write. A handler takes the messages
of its call one by one: `Look` and `Insert` are the transaction that claims a receipt under
the advisory lock of the sender, `SendReply` the call to Meta, `CompleteReceipt` the statement
after it. `now` is the time of the call, from which the window is counted back, `begun` that
of the transaction, which is the `created_at` of the receipt; both clocks are taken to
agree. Meta may have taken an answer that ends in an error. Which messages are eligible
(reactions, the shop's own number) is left to the inputs. `MCMetaWebhook` puts both halves
side by side: what the calls carry is chosen in the initial states. It extends both modules,
so the definitions that every module has carry another name here (`InboundInit`,
`InboundNext`, `InboundSpec`).

### RecurringExpenses

One series of one location: the advisory lock of the location orders the transactions of
all of them, and no operation reads two series. An administrator's operation is `Begin`
(lock, then the date) and one step that decides, writes and commits under the lock. The
worker takes its date (`Tick`) before it waits for the lock, then reads and inserts. A date
is a number with a week and a month; months may be shorter than the day of a schedule.
`Abort` rolls back a transaction under way; a tick that fails while it waits is a tick not
started. A request does not stay open over two midnights. `FUTURE_OCCURRENCE_OVERRIDE` and
`END_DATE_BEFORE_HISTORY` are in the model although nothing reaches them: rows are never
later than the date. A retried creation finds its key and changes nothing. The `status`
column follows from the dates and is left out.

### UserAccess

A request of a browser is admitted with the rights its session has then (`ctx`), takes the
row and advisory locks of its transaction one by one in the code's order (`LockOrder`),
decides on what it reads under them (`Accepted`) and commits (`RowAfter`, `Commit...`);
a statement that locks several rows takes them in any order;
PostgreSQL's deadlock detector is `BreakDeadlock`, a lost connection or a crash `Fail`. A
statement that reads before it locks is `ReadSnapshot`. A login compares a password with
the row it read and then updates the row on condition of its version; the session cookie is
written after the transaction. Passwords are the version under which they were set. The
invites of the time before the cutover, which the canonical mode still accepts, are
`legacy`. Capabilities are abstracted to the three that the management asks for.
`Installed` says what the tables a run starts from may be (`InstallationAssumption`): what
the types, foreign keys and checks of migration 0015 admit, sessions and invites as this
program leaves them, and an administrator once there is a user.

### AuthCutover

`AuthRuntime` composes it with UserAccess: the mode of AUTH_RUNTIME_MODE is chosen when the
server starts, and what belongs to the other mode holds still. In the legacy mode a
client's request is one of invite, accept, edit, reset and new administrator. `Start...` is
the handler up to its transaction, and each later step one statement with the locks it
waits for (`Wanted`): the advisory lock of the barber, rows, and the key of the unique index
on emails. An accept takes the invite before the row of the barber, a change of email the
row before the invites, so the two can deadlock; `Abort` is PostgreSQL's way out, or a lost
connection. `WholeRecords` lets a client send the email back with an edit of something else.

The classification is a set of operators: records that share identifiers, directly or
over others, are one `Component`, the least set closed under sharing, where the code unites
sets record by record; it is safe, or its blockers and doubts are named. The
backfill takes each safe case in a SERIALIZABLE transaction: the snapshot (`BeginCase`),
then the commit of what `Applied` computes from it, unless a row it updates has changed
since. A case may fail, and the run may end anywhere. `Outcome` is the line of the report,
`Ready` the verdict of the readiness check; both read all tables at once, as their REPEATABLE
READ transactions do. Passwords are numbers, a later one greater; `under` and the email of
an invite are history. Visibility and locations of barbers stay as they are.
`Installed` says what the tables may be before the first backfill: no users, no links, and
an open invite issued for the email its barber has. `CutoverAssumption` asks it of the
installations, and that rows are finitely many and ids numbers; a new user or invite takes a
free id, and a run without free ids stops there (a bound).

### Availability and OnlineBooking

`Availability` states with the page's own steps and with the server's which times of a day
are free, from the stored hours, the slot interval, the window and the bookings; the two
are separate code. `OnlineBooking` is the page: its `useState` variables, the queries that
are answered, fail or stay open, every button, and after each step the effects in the order
React runs them, rendered anew until nothing changes (`Settles`). The slots of the page are
memoised (Booking.tsx:561): `slotsAt` and `firstAt` are the instants at which they were
computed, and `Rendered` moves them only when something in their lists of dependencies has
changed (`slotsRestOn`, `firstRestsOn`), which the clock is not. So a time that passes stays
on offer, and the server refuses it (routes.ts:4688): `OffersMatchAnswers` compares page and
server on the times still to come. A query that failed goes back to pending when the page
needs it again. The server moves on meanwhile: hours,
offers, team, bookings and the clock. A booking is one step there; its transaction is
AppointmentBooking's. The confirmed booking (`kept`) and the key of the last completed selection
(`done`) are sets with at most one element.

`CalendarAssumption` says that the months of the calendar follow each other and that each
has the day on which the next one opens. `BookingAssumption` says what ids and dates are,
what the routes store (`Rows`, `Settings`, `Visits`: hours end before midnight, since
parseTimeToMinutes takes no 24:00, and no appointment crosses it), and that the calendar goes
on for as long as the clock does: the day of the clock lies in a month that has two more
after it. `UpToDate` is a page whose queries are all answered, with what the server would
answer now.

### AppointmentFinance and VisitSettlement

`AppointmentFinance` holds the functions: the rule in force on a day, the split of a visit,
the visits that bear chair rent. `VisitSettlement` is the life of visits and rules around
them: managers save pay in two statements, clerks complete, reopen and edit visits with a
read and a later write. An instant is one booking long, a request is shorter than that, the
catalogue changes its prices between requests, cancellations count like no-shows for money,
and a request that a conflict or a closed place refuses is `VisitIsNotChanged`.

`LegacyAssumption` says what migration 0014 leaves: ids are serial, rules and visits are of
barbers to whom it gave a row of `barber_locations` (inactive ones included), no visit has
a snapshot, and a visit that is completed is over when the first instant begins.
`NoneAssumption` keeps NULL apart from the values it stands in for.

### ShopCatalogue

A session is a request; its statements commit one by one unless a transaction holds them,
in which case `lock` is the advisory lock. Reads of an online booking (services, offers,
selections, team) are separate steps. Left out: names, slugs, images, the categories that
services are in, the visibility of barbers. Bookings are all in the future.

`InstallationAssumption` says where an installation starts: within its plan, its locations
at distinct places, one location if the flag is off (the others are not served), each offer
of a service that exists. `ChangeAssumption` says that the switches in a request are
booleans, which its schema checks.

## The runs

TLC checks all of them with deadlock checking off: the bounds on ids, revisions, time,
receipts, requests and crashes let a model stop where the system would go on. Liveness is
stated where a stop would matter.

| run | question | instance | states |
|---|---|---|---|
| booking_slots | can two requests give the same time away, and is a commit one step of the calendar? | two requests, two ids, one barber, three instants of which two are one day, durations 1 and 2: bookings over the midnight of UTC, batches over two days | 801,161 |
| booking_places | can a booking lose its place, a revision go back, a notice be wrong? | two requests of every handler that locks, two locations, one appointment, two revisions | 1,565,038 |
| booking_cancellations | is every cancellation announced? | the handlers by token and both status handlers, three revisions | 473,581 |
| booking_answers | do two batches over the same two days wait for each other? | four ids, two days, the location closing meanwhile; strong fairness | 30,674 |
| outbox_workers | are messages sent once and events closed? | two workers, one crash, leases that expire under a worker, every kind of customer | 657,854 |
| outbox_receipts | is the fallback email asked for once, after every reported failure, and not for a message on record as accepted? | a worker and a webhook or two webhooks, two receipts each any number of times | 470,056 |
| outbox_one_webhook | does the status end where it should if receipts are handled one at a time, and is a number answered once in a window? | statuses: one process at a time, three receipts; messages: two of one sender, two calls at once that bring any of them any number of times, three instants with a window of one, one failure | 429,960 |
| expenses | does the ledger agree with the series, is the past kept, is what is due recorded? | one administrator and one worker, three dates, months of two and one days, two versions, one pause, two amounts | 132,673 |
| accounts | canonical mode: does an administrator remain, do sessions end with their rights, is an invite the only one? legacy mode: does a change of email end what was given to the old one, and does the cutover keep the logins? | canonical: every operation, two browsers with a request each, three users, one barber, one location; an empty installation and one of two users in each of their states. Legacy: two requests of any kind and one run of the backfill, two administrators, two barbers, two emails and a name; six installations | 424,550 |
| online_booking | is what the page shows chosen decided, offered and reached by its steps; do page and server agree on the free times and the notice on the window? | one location, two barbers and services, hours on and off the half hour, months of two and three days, three links, one event besides one answer | 96,677 |
| settlement | is history kept and rent charged once? | two visits, one of them from before the snapshots, one manager, two clerks, two instants of work, three rules | 344,698 |
| catalogue | are lists in order, and was what is booked on sale? | two requests at a time and three in all, a shop and two shops, three categories, two services, two barbers | 97,278 |

The bounds hold the cases that the properties need: two actors suffice for every race of
two statements; the second revision is the first that can be lost; three instants of two
days are the least for a booking that ends in the day after its lock; three receipts are
sent, delivered and failed; in three dates a worker is late, a month is too short for its
day, a pause ends and a version is replaced. With four dates and two amounts the safety
properties of `expenses` hold as well (939,144 states, too many to check liveness on). In
`accounts` two requests interleave at every step from each installation, which is every
race of two operations; longer sequences start from the installations they lead to. In the
legacy mode an invite and a change of email, or the accept of a stored invite and a change,
are two requests; the installations are an owner and a barber with logins of their own, one
person with both, an owner without an email, a hidden barber, one who was invited, and two
barbers of whom one has no location. In `settlement` three rules are what
two changes of pay after a migrated one give, and the second visit is what a rent period is
shared with. `Interchangeable` makes the requests symmetric in runs without liveness.

Which handlers `booking_places` leaves out matters: `FutureBookingsHavePlace`,
`NoticesMatchStart` and `RevisionsAdvance` do not hold with the status update that takes no
lock; the first of the divergences below. `settlement` asks only for the statuses the
client asks for (`Expectations`).

### Fairness

- Booking: strong fairness of the statements of each request. PostgreSQL queues the waiters
  of a lock, so a statement that becomes possible again and again is run; nothing is assumed
  of the requests themselves.
- Outbox: a started process goes on, the poller polls, leases run out and the clock moves.
  The pollers run on timers of every process; crashes are bounded.
- Expenses: transactions end; ticks are started by a timer; the worker gets the lock, for
  which it queues, and does not fail for ever. Strong fairness of its steps, because a
  failed transaction starts again from the tick.

### Where the code differs from what is said of it

No run expects a violation. The properties below are defined in the modules and TLC refutes
each of them in the instance named; a change of the code that repairs one can be checked by
adding the property to that run.

- `OnlyBookedIsEdited` (AppointmentBooking, as booking_places with one location, Requests
  `{"create", "patch", "statusIfCurrent"}`, Asked `{"completed", "no_show"}`): PATCH
  /api/appointments/:id decides that the appointment is booked before its transaction and
  passes no expected status on, so an appointment closed meanwhile is edited.
- `FutureBookingsHavePlace` with Requests `{"create", "status", "cancelByToken",
  "closeLocation"}`, Asked `{"booked"}` and three revisions: the status update that takes no
  appointment lock validates the place only if the row it read was not booked, and makes a
  cancelled appointment booked again at a location that closed in between
  (docs/MULTI_LOCATION.md:30 says that a place with future bookings stays open).
- `NobodyIsForgotten` (NotificationOutbox, as outbox_workers with `Customers <- Series`): a
  worker that finds the attempt of a series confirmation taken closes the event; if the
  taker crashes before it sends, nothing is sent and nothing is reclaimed (README.md:237).
- `DeliveryIsNotUndone`, and `ReceiptsAreApplied`, with two processes (as outbox_receipts with
  MaxReports 3): receipts are applied on a row read without a lock; a late "failed" or "sent"
  overwrites "delivered" or "read" (tests/unit/appointment-notifications.test.ts:1077).
- `EmailIsAFallback` with SlowWorkers TRUE, otherwise as outbox_receipts: the lease of a worker
  runs out while Meta answers it, a second worker claims and reads the event before the answer
  is recorded, and then finds on that stale row an attempt without an outcome: it posts the
  email for a message that is on record as accepted by now (README.md:237).
- `OneReplyInAWindow` (InboundReply, as outbox_one_webhook): an answer that Meta took is
  recorded as failed, and does not count, when the connection breaks off after the request
  or the statement that completes the receipt throws inside the same `try`
  (meta-webhook.ts:138); README.md:283 promises one answer in 24 hours.
- `OneAdministratorRemains` (UserAccess, as accounts): the reset of a professional's password
  makes the linked user "invited" again and counts no one, so the last administrator may
  lock everybody out; `OnlyAResetTakesTheLastAdministrator` says that nothing else does
  (auth-user-management.ts:171).
- `ConfirmationTellsTheBooking` (OnlineBooking, MaxEvents 0): the confirmation is drawn from
  the state of the page, and the customer may have chosen again while the request ran
  (Booking.tsx:843).
- `CompletedVisitsAreOver` (VisitSettlement, with a patch of `start` and one of `status`): that a
  visit has ended is decided on the row read before the transaction (routes.ts:5870).
- `SnapshotsAreKept` with Asked `{"completed", "booked"}` and Expectations `{"completed",
  NotSaid}`: a visit that is reopened and completed at the same time takes a second snapshot
  (migrations/README.md:59). The client only sends `expectedStatus: "booked"`
  (Admin.tsx:2918) and never a status in PATCH.

Found by attempts to prove the properties of OnlineBooking, which say what the page does
since; TLC shows each on an instance other than that of the run:

- A customer who goes back while the booking is under way, and chooses a barber without the
  chosen service, is taken to the confirmation and then, when the day changes, from it to
  the choice of a time without a service (Booking.tsx:507). `StepsAreEarned` is about a
  page that has no confirmation to show.
- A link to a barber and a service that are both gone leads to the second step without a
  barber, and from there to a calendar without one (Booking.tsx:412, 550).
  `SelectionIsDecided` is about a page with a barber and a service.
- A booking by a link that is accepted before the team is loaded, whose service the team
  then lacks, takes the customer back to the second step with the answer of before the
  booking; a time chosen from it is no longer offered once the times are asked for again.
  `ChosenTimeIsOffered`, too, is about a page without a confirmation.

README.md:280 says that a "failed" that comes by webhook sends no late email "in this phase";
the code sends one (meta-webhook.ts:165, appointment-notifications.ts:302), its tests ask for
it (tests/unit/appointment-notifications.test.ts:981), and so does `FailuresAreFollowedUp`.

Seen while reading and modelling, and stated by no sentence of the repository:
`updateAppointmentStatus` loses increments of the revision. A series confirmation deferred
while WhatsApp is disabled is closed. A receipt stored just after its message was reconciled
stays unapplied until the next one, and a failure reported after the appointment changed
sends no email. Two saves of a barber's pay on one day violate a unique index, and the
handler answers that the email is taken (routes.ts:3506). PATCH writes the price its handler
read back into the row (routes.ts:5716). Visits without a price of their own are repriced
with the catalogue. A reopened visit keeps its first pay and cannot be handed to another
barber: the foreign key answers with 500. A service that is deleted while an offer of it is
saved is gone with the offer (storage.ts:1014). Two replacements of one selection at once
leave the union (storage.ts:1927). docs/MULTI_LOCATION.md:65 says that the pay of a shared
barber is global; migration 0014 makes it one of each location. On the booking page a time
that was chosen from another barber's answer survives a return to the first barber
(Booking.tsx:664), a failed query for the window is reported nowhere (Booking.tsx:388),
the error message outlives a reload of the times, and after a 409 the time stays offered.
Appointments of 30 minutes from before durations were stored are measured in three ways. All
locations share one time zone (routes.ts:2648). The reset of a password in the legacy mode
leaves open invites valid (routes.ts:3669). Whether an edit changes a barber's email is
decided on the row read before (routes.ts:3399): an edit that sends the old email back puts
it back without ending the invite or password given under the new one, although the comment
at storage.ts:908 speaks of never; `OnlyAStaleEditKeepsAccess` says that nothing else does.
The readiness check compares no passwords: a password set between backfill and cutover stays
the old one in canonical mode. A barber whose email is removed after the backfill keeps an
active user, and a hidden barber, who cannot log in before, can after the cutover
(auth-legacy-backfill.ts:530 says that "disabled" is not inferred).

## The proofs

For every value of the constants that satisfies their assumptions (named in the modules,
evaluated by the runs):

| theorem | says | argument |
|---|---|---|
| `AppointmentBooking_proofs!TypeCorrect` | `Spec => []TypeOK` | inductive as it stands, one step for each handler and statement |
| `AppointmentBooking_proofs!NeverDoubleBooked` | `Spec => []NoDoubleBooking` | inductive invariant: types and the exclusion constraint on the table. `WriteRows` is the only action that changes a row, and it commits only a table that satisfies the constraint; a lemma turns the constraint into disjoint intervals |
| `AppointmentBooking_proofs!BookingImplementsTheCalendar` | `Spec => BookingIsACalendar`, the refinement of BarberCalendar | every step is a request of an idle session, a quiet statement, a commit or the clock (`EveryStep`). `Called` says what a request asked for: one row, or rows of one barber that nobody else has and that are not in the table; `RowsExist` that an update finds its row in the table and leaves it there. So a request for rows is an `Ask`, a refusal or a rollback a `Refuse`, an insert the `Book` of the whole series as asked, an update a `Move`, an `End`, a `Restore` or a stutter; the exclusion constraint gives `Disjoint` |
| `AppointmentBooking_proofs!CancellationsStayAnnounced` | `Spec => []CancellationsAreTold`, with the events on and without "patch" | only `cancelAppointment` writes a cancelled status, with its event; every other operation's request (`Called`) writes another status, or changes a row that is booked when it is written. "patch" is excluded because it can edit a row cancelled after it was read, see the divergences |
| `AppointmentBooking_proofs!LocksProtect` | `Spec => []Guarded`, for `LockingHandlers` | the inductive invariant: the locks a session holds at each statement (`HoldsLocks`), that exclusive locks exclude (`LocksExclude`), and that what it read is still so (`KnowsTables`): the row under the appointment lock, the open location and the assignment under their shared row locks, the free slot under the day lock, the absence of future bookings under the row lock of the place that closes. A commit can change what another session knows only by holding a lock that session holds |
| `AppointmentBooking_proofs!SlotsStayFree`, `BookingsKeepTheirPlace` | `Spec => []SlotsStayFreeUntilCommit`, `Spec => []FutureBookingsHavePlace`, for `LockingHandlers` | conjuncts of `Guarded`. The second is needed for the first step of its own proof: a location that is already closed is not checked again before it is closed |
| `AppointmentBooking_proofs!RevisionsNeverGoBack` | `Spec => RevisionsAdvance`, for `LockingHandlers` | the row read is the row written (`Guarded`), and a row that is inserted had revision 0 (`RowsExist`) |
| `AppointmentBooking_proofs!NoticesFollowTheStart` | `Spec => []NoticesMatchStart`, for `LockingHandlers` and edits that never set a row to booked | no event is of a revision beyond the row's, so the event of a commit is the newest; an update that leaves a row booked found it booked, and announces the start if it changes it |
| `NotificationOutbox_proofs!OutboxTypeCorrect` | `Spec => []TypeOK` | needs `Safe`: a status written from a receipt has its type only if the receipts still to apply were reported |
| `NotificationOutbox_proofs!WhatsAppSentOnce` | `Spec => []WhatsAppIsSentOnce` | needs `OneAttempt`: the calls made and the processes about to send are together at most one, and none before the attempt is claimed; without the processes about to send the bound is not inductive |
| `NotificationOutbox_proofs!EmailSentOnce` | `Spec => []EmailIsSentOnce`, for `~SlowWorkers` and `MaxCrashes = 0` | the inductive invariant `OneEmail` of each event: one worker, which holds the lease, and an open event without a worker is fresh (`OneWorker`); who is about to send the email is alone and the first, and once there is a message only a claimed fallback lets anybody send it (`OneSender`); what each process read that its next statement relies on (`StepKnows`). The hypotheses are those of the run `outbox_receipts`: a worker that is lost after the post asks the provider again, whose idempotency key makes that one email. TLC found `OneEmail` to hold on that run before it was proved |
| `NotificationOutbox_proofs!NoAppointmentIsForgotten` | `Spec => []AppointmentsAreNotForgotten`, slow workers and crashes included | `NobodyIsDropped`: what the row of an event says of its message and its email is so (`RowIsTrue`), and so is what a process that is about to close it believes (`ProcessIsTrue`); that its worker is alone is not needed |
| `NotificationOutbox_proofs!FailuresFollowedUp` | `Spec => []FailuresAreFollowedUp`, for `MaxCrashes = 0`, with any number of workers and requests, slow ones included | the inductive invariant `IsFollowedUp`: from the write of a failure to the end of the email there is always somebody about to claim the late fallback (`Claiming`) or at the email (`Falling`); a claim that is refused was won by another or finds the email settled. The hypothesis is needed: TLC refutes the property when a process may crash after it wrote the failure and before it claims the fallback |
| `NotificationOutbox_proofs!EmailStaysAFallback` | `Spec => EmailIsAFallback`, for `~SlowWorkers`, with any number of workers, requests, events and crashes | the invariant `EmailHasReason`: one worker is at an event (`Alone`) while its lease lasts; what the row says of the channels has a cause (`RowHasReason`), and so has each process on its way to the email (`HasReason`): no acceptance on record, or a receipt that says failed. `Onward` is what no step takes back: receipts stay, and an acceptance is recorded only by the worker that holds the event. TLC found `EmailHasReason` to hold with one crash and every kind of customer before it was proved; without the hypothesis TLC refutes the property (see the divergences) |
| `RecurringExpenses_proofs!ExpensesTypeCorrect`, `LedgerAgrees`, `HistoryKept` | `Spec => []TypeOK`, `Spec => []LedgerMatchesSeries`, `Spec => HistoryIsKept` | the invariant `Ind`: the lock has one holder (`Alone`), what the worker read is what the tables say (`Fresh`), no row is later than the date an open request decides on (`Clock`), a deleted series has no versions (`Absent`). Lemmas say what each change leaves due before its date; from them each operation owes `Kept`: the rows it leaves are still given by the new series |
| `RecurringExpenses_proofs!PastStays` | `Spec => PastStaysDue` | needs `OneNight`, besides `Ind`: an open request read its date today or yesterday, so a change that starts after that date starts today at the earliest; the lemmas on each change say what it leaves due before its date, and a resumption only adds dates |
| `NotificationOutbox_proofs!AutoRepliesAreRationed` | `InboundSpec => []RepliesAreRationed` | the lock has one holder from the look to the commit (`LockOK`), so the window it saw clear stays clear (`ClearOK`), and the receipt it inserts is younger than the call (`TimeOK`); a receipt has one call that completes it (`ClaimOK`), so one that failed never counts again |
| `VisitSettlement_proofs!SettlementTypeCorrect`, `VisitsArePaidUnderTheirBarbersRule` | `Spec => []TypeOK`, `Spec => []PaidUnderItsBarbersRule` | a snapshot under way is of a rule that exists; the foreign key, checked at each write, ties its barber to the visit's, and rules are never changed or removed |
| `VisitSettlement_proofs!RentStaysChargedOnce` | `Spec => []RentIsChargedOnce` | a unit of rent is of one barber, so the visits of the barbers in the report hold every visit of the unit that the whole location would; of these at most one is the earliest, because start and id order visits, and choosing again among the visits of a report that holds it chooses it again. Sums over reports that hold the same lines are equal by congruence, which Zenon finds |
| `VisitSettlement_proofs!HistoryStaysPriced` | `Spec => HistoryIsNotRepriced` | the invariant `Frozen`: only a visit from before the snapshots is completed without one, and its barber is a veteran and its start the first instant. So a new rule, which starts later or is the same default terms a barber without rules has, changes neither a snapshot nor the rule found for such a visit (`SamePay`); equal terms of the completed visits give the same anchors of rent, and a price of its own hides the catalogue's |
| `UserAccess_proofs!AccountsStaySound` | `Spec => []IInv`, the inductive invariant of the next five | what a request knows because it was admitted (`Admitted`: the rows it names exist, what it grants is under its ceiling, and its identity is of a version the user had), which locks it holds once it has them all (`HoldsLocks`) and what its checks told it until it commits (`Knows`), with the exclusion of locks (`LocksExclude`) and what the tables keep (`Kept`). A commit changes only rows it has locked or rows that did not exist, so the others stay sound (`OthersStaySound`) |
| `UserAccess_proofs!LiveSessionsKnow` | `Spec => []LiveSessionsKnowThePassword` | an identity, in a cookie or in a login under way, that has the user's version has the user's password: versions only grow, and a password changes with its version |
| `UserAccess_proofs!InvitesStayInOrder` | `Spec => []OneOpenInvite` | an invite is opened under the lock of its user, in a statement that revokes the others; whatever activates or disables a user holds that lock. An invite of a user who is no longer waiting needs a used legacy invite |
| `UserAccess_proofs!AdministratorsStay` | `Spec => []OnlyAResetTakesTheLastAdministrator` | the two operations that demote hold the advisory lock of the administrators from their check to their commit, so the other administrator they counted (`LeavesAnAdministrator`) is still one |
| `UserAccess_proofs!RightsEndSessions`, `RightsComeFromSomewhere` | `Spec => SessionsEndWithTheirRights`, `Spec => RightsAreHandedDown` | a commit leaves a row as it was or gives it a greater version, beyond any session's; what it grants was under the ceiling of the request's context, and what it keeps the row had |
| `UserAccess_proofs!RuntimeIsEitherMode` | `Runtime => Spec /\ LegacyProofs!Spec` | a step of either mode is a step of its component and a stutter of the other. `LegacyProofs` is an instance of AuthCutover_proofs over the variables of the installation; that its definitions are those of AuthRuntime's own instance is proved one by one, by expanding both. What is proved of UserAccess and of AuthCutover so holds of the specification that TLC runs |
| `UserAccess_proofs!RuntimeStaleEditsAlone` | `Runtime => []OnlyAStaleEditKeepsAccess`, from `AuthCutover_proofs!StaleEditsAlone` | the inductive invariant `Ok`: a request that is about to set a password has claimed its invite, which is open and locked (`Knows`), locks exclude, and each invite is of a barber. Who replaces or revokes the invites of a barber holds the locks of all that are not used, so no password is under way from one of them (`ClaimedIsNotOpen`); every other write leaves the email, or records the barber as `reverted` |
| `AuthCutover_proofs!UsersStayLinked` | `Spec => []Safe`, the inductive invariant of the next three | users share no identifier (`UsersAreDistinct`): one is created only when no user has an identifier of its case. A linked administrator is its user (`AdminsAreUsers`), because nothing writes either row after. A linked barber has its user's password, a newer one or none (`BarbersAreUsers`): a new password is later than all. A transaction under way has the users and links it read (`AsSeen`), because only the backfill writes them and there is one run. TLC found `Linked` and `AsSeen` to hold on `accounts` before they were proved |
| `UserAccess_proofs!RuntimeLinksWhatIs` | `Runtime => LinkedAsTheyAre`, from `AuthCutover_proofs!TheBackfillLinksWhatIs` | a row that is linked is as the transaction read it, since it is serializable; and the barber of a safe case has the password and the email of its identity (`BarberIsKnown`): with an administrator both have one email, or the case would need a review; and a barber without an email is a case of its own (`AloneWithoutEmail`) |
| `UserAccess_proofs!RuntimeReadyMeansReady` | `Runtime => []ReadyKeepsLogins`, from `AuthCutover_proofs!ReadyMeansReady` | READY gives that logins are linked, that the user of a barber has its email and that active users have rights; `Safe` gives what READY does not look at: that a user is active, that its password is its record's or an older one, and that nobody else has the identifier |
| `UserAccess_proofs!RuntimeDryRunIsRight` | `Runtime => [](LegacyProofs!EnoughIds(db) => ApplyDoesWhatTheDryRunSaid)`, from `AuthCutover_proofs!TheDryRunIsRight` | cases share no record and no identifier (`CasesShareNothing`, because a component is that of each of its members). So the user that one case gets is a candidate of no other that may have it (`SameCandidates`), the records of the others are as they were, and each other outcome stays (`OutcomeStays`); the case itself has its user and nothing to do (`ASecondApplyIsNone`). `OneCaseAtATime` is the step of the loop. That the fold takes such steps only, over any number of cases, is induction on their number, proved by the least set of cases for which it did something else (`AfterAllFollows`); that the fold's function exists is proved the same way (`FoldExists`) |
| `ShopCatalogue_proofs!ListsStayInOrder` | `Spec => []ListsAreInOrder` | the inductive invariant `ListsInv`: an advisory lock has one holder (`OneHolder`), what the holder counted is still so (`Listing`), and places are below the number of rows ever created, so the greatest place plus one is free although categories are deleted without the lock. That the greatest of a set exists is proved by well-founded induction |
| `ShopCatalogue_proofs!BookingsStayOnSale` | `Spec => []BookingsWereOnSale` | the inductive invariant `SaleInv`: what is in force is in the history (`OffersOK`), and what a booking has read so far can still be completed to terms that were in force (`Reading`). With several locations the price of a service never changes, so any offer read completes to terms of its own time; with one the override of an offer never changes while the service exists, so the price read was in force with one value of the switch. `TradeStep` is what every step keeps of services, offers and history. `IInv`, the two invariants together, held on the run `catalogue` before it was proved |
| `OnlineBooking_proofs!EveryStepIsEarned`, `SelectionsAreDecided` | `Spec => []StepsAreEarned`, `Spec => []SelectionIsDecided` | the inductive invariant `Sound` of a rendered page: `Earned`, which adds that the confirmation is not reached before a booking and that beyond the first step a time goes with a barber, and `Decided`. A round of effects takes the step back far enough for what it clears (`EffectsEarn`); of two rounds the second finds no barber and no service gone, and selects what the first could not (`EffectsDecide`). Each click, answer and submit gives a page that the effects make sound |
| `OnlineBooking_proofs!ChoicesStayOffered` | `Spec => []ChosenTimeIsOffered` | the invariant `Ready`: a chosen time is one of those computed from the settings the page knows and the answer for its window, at some instant up to now (`TimeStands`), and before a booking nothing is asked for again but what failed (`AnswersKept`). Each effect and each action clears the time, or leaves all that `SlotsOf` reads of the page |
| `OnlineBooking_proofs!NoticesAreKept` | `Spec => []NoticeIsKept` | the month of a day is the only one around it, because months follow each other (`MonthOfIs`; that there is one needs the least of a set of numbers, by well-founded induction). So the window of a day reaches the end of the next month from the opening day on, and of its own before |
| `OnlineBooking_proofs!PageAndServerAgree` | `Spec => []OffersMatchAnswers` | both conditions are brought to one, `CouldTake`: the starts of a period are the aligned minutes at which the visit fits (`StartsFit`); the rows sent for a shop without hours are the default hours (`DefaultRowsAgree`), so both find the same periods (`PeriodsAgree`); no stored period reaches midnight, so both fit the same visits (`FitsAlike`); no appointment crosses midnight, so those of other days do not overlap it (`ConflictsAlike`); the page computed its slots at some instant up to now, and a start that is still to come was to come then; and of suitable barbers there is a least busy one with the least id (`SomebodyIsChosen`). The invariant `Told` gives the types of what is stored and of what the page was told, and that its date is in the window it knows |

`LockingHandlers` is `EventsEnabled` and no status update (`PATCH .../status`): those two
operations take no lock of the appointment, with the events off the moves and cancellations
by token take none either, and TLC refutes the properties for them. The runs
`booking_slots` and `booking_places` are instances of `LockingHandlers`; TLC also found
`Guarded` to hold on both before it was proved.

`TypeOK` of the outbox and of the expenses, and `SnapshotsAreKept`, are in no run: the first
two are proved, the last does not hold for every request (see above). The types of UserAccess are
proved with `IInv`, which TLC also found to hold on every installation of `accounts` before
it was proved, and those of AuthCutover with `Ok`.

The proof of `ReadyMeansReady` shows two things the run does not: that the tables are at rest
(`Quiet`) is not needed, a READY read while requests and a backfill are under way means as
much; and neither is the check that no case is left unresolved: what the other checks find
is enough.
Without the finiteness of the tables "one administrator at most" and "the newest password"
mean nothing: `Cardinality` and `Max` are defined for finite sets, so `CutoverAssumption`
says that they are. The commit of a case needs a free user id, as the creation of an invite
did already: without that conjunct the backfill could link a record to an arbitrary user
when ids run out, which the database never does. For the same reason `TheDryRunIsRight` has
the hypothesis `EnoughIds`: the ids that are free are as many as the safe cases that need a
new user. TLC found it to hold in every state of `accounts`. Here too the tables need not be
at rest.

`AdministratorsStay` has the exception its property has: after a reset it says nothing.

Every safety property of the runs is a theorem, with the hypotheses in the table, but for one:
`ReceiptsAreApplied` holds only where receipts are handled one at a time, and stays with its
run. Only model-checked too, because out of the prover's reach, is liveness under fairness:
`RequestsAreAnswered`, `EventsAreClosed` and `DueIsRecorded`.
No module declares a recursive operator.

## Not modelled, and the plan

Not modelled for good: the memory storage (one process, no transactions), the providers'
I/O and wording, rendering in the client, the SQL of the migrations, drawing and measuring helpers. PROJECT.json gives the reason for each part.

What is left, in this order: the deletion of a barber against bookings, the blacklist queue
and the pool of two connections.

A question gets a run of its own only if no instance above can answer it too: instances
are merged before new ones are added.
