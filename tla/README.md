# VoyageHub: specifications and proofs

VoyageHub is the NestJS backend of a travel agency: hotels and rooms, bookings
paid through Stripe, special offers, notifications and mail, all over one
PostgreSQL database reached through Prisma. This directory holds TLA+
specifications of the parts of it in which something can go wrong that a test
would hardly reach, the TLC configurations that check them, and proofs that
tlapm checks.

`tlc -config Booking_payment.cfg MCBooking` runs a check (the module is the
`MC...` module of the same name), `tlapm BookingProofs.tla` checks proofs.
`PROJECT.json` lists the components, the runs, a mutation of the code's logic
that each property detects, the source lines of each definition, the findings,
the hazards and the theorems.

## The system

One Node process serves requests concurrently; a request runs from `await` to
`await`, and between two of them any other request may run. Prisma calls are
single SQL statements unless they are wrapped in `$transaction`. The state is in
the database and at Stripe; a request that fails or is lost in a restart leaves
what its statements so far have written. Several processes over the same database
differ from one only in the timers, which every process starts.

| Component | State | Operations | What is hard | What makes it correct |
|---|---|---|---|---|
| ReservationService | `Reservation` rows | createBooking, cancelBooking, getCancellationPreview; staff: create, update, updateStatut, remove | check-then-insert, read-then-write by id, staff writes without checks | no two guests in a room; refunds and charges that add up; a shown free cancellation is kept |
| PaymentService | the payment fields of `Reservation`; sessions and payment intents at Stripe | createCheckoutSession, payWithSavedCard, getCheckoutSessionSummary, cancelUnpaidBooking, webhook | at-least-once, late and reordered events; serializable transactions that abort; rows that change across a call to Stripe | a payment is traceable and accounted for; closed bookings stay closed; paid ones are not cleaned up |
| ConditionAnnulationService | `ConditionAnnulation` | create, update, remove | edits between preview and cancellation | more conditions never prolong the free time |
| OffreService | `Offre`, `OffreChambre` | create, update, remove | partial updates; check-then-write; replacement of a set of rows | active offers of a hotel share no day; dates in order; the rooms asked for |
| NotificationService | `Notification`; a timer | the two timed loops, notifyAccount, remove; announcements for other services | rounds that overlap or break off; a list that grows stale while it is worked through | a reminder in time, no mail twice |
| AccountService | `Account`, `PaymentMethod`, `PasswordResetToken`, `WishlistHotel`; customers, sessions and cards at Stripe | registration and sign-in (password, Google), verification, password change and reset; setup sessions, default card, removal of a card; wishlist | transactions at the default isolation level; a copy at Stripe; tokens that two requests use; two tables for one address | one default card, Stripe in step with it; a token used once; what was acknowledged signs in |
| HotelService, chambre, type-chambre | `Hotel`, `Chambre`, `TypeChambre` | two lists with pages and orders, availability of a hotel, edits | availability is a query over other components' rows; pages are read minutes apart | what is offered can be booked at the price shown; the pages of a list are complete |
| ReclamationService | `Reclamation` | create, update, updateStatut, remove | the announcement is decided by a comparison with a stale copy | the customer knows the status |
| MailService | `MailTemplate` | defaults, updateTemplate, sendTemplate, start | every mail first writes the table that staff edit; the service may run without the table | a mail says what has happened |
| avis, profile, agence-voyage, system-config, stats | a table each, or none | single writes and queries | little | - |
| assistant | none | a language model | pure I/O | - |

Components interact by method calls inside the process (PaymentService and
ReservationService announce through NotificationService, which mails through
MailService), by rows they share (`Reservation` is written by ReservationService
and PaymentService and read by the loops of NotificationService and by
HotelService), and through Stripe, which calls back with webhooks.

`PROJECT.json` "hazards" lists the places where this bites, each with the properties
that watch it or the reason that none does.

## Modules

| Module | Models |
|---|---|
| `Stay` | a room and a half-open interval of days; the overlap test that every query of the code uses |
| `RoomCalendar` | abstract specification: a booking waits, occupies nights that are all free, leaves for good |
| `Booking` | ReservationService and PaymentService over the rows of `Reservation` and Stripe; implements `RoomCalendar` |
| `Cancellation` | the cancellation terms of one booking over time, conditions and prices |
| `Offers` | OffreService |
| `Reminders` | the timed loops of NotificationService |
| `PaymentMethods` | the saved cards of an account and their copy at Stripe (AccountService) |
| `Accounts` | one email address with an account and an agency: sign-in, verification, passwords and reset links |
| `Catalogue` | HotelService and ChambreService over hotels, rooms and bookings; a visitor who reads a list |
| `Announcements` | the notices of NotificationService, ReclamationService, and the templates of MailService |
| `MC...` | instances for TLC |
| `BookingProofs`, `CancellationProofs`, `OffersProofs`, `RemindersProofs`, `PaymentMethodsProofs`, `AccountsProofs`, `CatalogueProofs`, `AnnouncementsProofs` | proofs |

`Booking`, `Cancellation` and `Catalogue` share `Stay` (rooms, days and their
overlap) or restate the status sets at the lines where each service has its own
copy. What one service asks of another is a step of the module that owns the
rows: the announcements of `Announcements` are those that HotelService,
OffreService, PaymentService and ReclamationService request, and a booking of
`Catalogue` is the outcome of the steps that `Booking` takes apart.

### Booking

Every request in flight is a handler `job[h]`, a record of where it stands (`at`)
and of what it has read and will act on. Each `await` at which the table or Stripe
is touched is an action:

| Code | Actions |
|---|---|
| `createBooking` | `BookRead` (the overlap query), `BookWrite` (the insert), `BookFails` |
| `createCheckoutSession` | `CheckoutRead`, `CheckoutCreate` (Stripe), `CheckoutSave` (session id and `CHECKOUT_PENDING`, whatever the row has become; the customer gets the address only now) |
| `payWithSavedCard` | `CardRead`, `CardCharge`, then `SettleRead`... |
| webhook, `getCheckoutSessionSummary` | `WebhookCompleted`, `SyncSummary`, then `SettleRead`... |
| `finalizeReservationPayment` | `SettleRead` (snapshot and verdict), `SettleNoChange`, `SettleCommit`, `SettleAbort` (P2034: a session is retried once, a card is not), `Announce` |
| `cancelUnpaidBooking`, `cleanupFailedPaymentReservation` | `RemoveRead`, `WebhookSessionFailed`, `WebhookIntentFailed`, then `Delete` |
| `cancelBooking` | `CancelRead`, `CancelWrite` |
| staff `create`, `update`, `updateStatut`, `remove` | `StaffCreate`, `StaffUpdate`, `StaffRemove` |
| Stripe, the calendar, restarts | `PayCheckout`, `ResolveDelayed`, `NextDay`, `Lose` |

`finalizeReservationPayment` asks for `Serializable` (payment.service.ts:764).
PostgreSQL takes the snapshot at the first statement, so `SettleRead` works out
the verdict from one state. At the commit the model marks (`dirty`) those other
open transactions that cannot be serialized with it any more: those that have
read the same row, and those whose conflict query covers the stay that was
committed (`Rivals`); the database may mark more, and the model lets it. A marked
transaction aborts. A statement outside a serializable transaction takes part in
none of this: it makes a transaction abort only if that one updates the same row
(`Write`, `Readers`). That is what makes staff edits interesting: a booking that
staff move onto a stay is invisible to an open transaction that looked before.

The ghost field `editor` remembers whether staff created or edited a row. Staff may
legally put two bookings into one room, so the promises are about rows they left
alone (`Held`). The ghost field `superseded` remembers that a `CheckoutSave` wrote another session over
a row that had been paid.

Requests that are turned down for reasons the properties cannot tell apart (owner,
unverified account, amount mismatch, capacity) change nothing and are no steps.
Prices, guests, codes and texts are left out.

### Cancellation

`Terms(p)` is `evaluateCancellationPolicy` for the condition `p` that
`findFirst` returned (any of those with the longest delay, or none), with hours and
cents, and for a booking that is closed already; the texts that describe the terms are left out. Prices and fees are
any whole numbers, negative ones too, since the DTOs ask for a number and no more. `Preview` stores what was shown, `Cancel` what the refund summary says;
meanwhile the clock passes, staff edit conditions, price and statut, and the booking may
be paid. A request is one step here; the races inside `cancelBooking` are in
`Booking`.

### Offers

A request of an administrator is `CreateCheck` then `Insert`, or `UpdateRead`
(the current row, the dates, the rooms), `UpdateCheck` (the other offers),
`Clear` (`deleteMany` inside the transaction) and `Save`. A field that an update leaves out
(`None`) is checked as it was at `UpdateRead` and kept as it is at `Save`. The transaction runs at the
default isolation level, so `Clear` sees what is there when it runs. `Remove` may
come at any time. Any number of requests may be at work. Each carries, as a ghost, what others have
rewritten since it read it (`stale`: the row it updates, the dates of other offers, the rooms it is to
replace), and each offer on which of these its last write was decided nevertheless
(`crossed`). That hotels are deactivated and rooms moved is left out.

### Reminders

A round takes its list in one query (`Begin`) and then goes through it entry by
entry: `Look` for a notification of the text, `NotifyCheckIn` or `NotifyReview`,
`Mail`, and `Finish`. `Break` is a query that throws, `Restart` a restart. A reminder
says account, hotel and day, and a review request its booking. The reminder is looked for by the words
"at <hotel> is on <day>" in any message that contains them, in capitals or not: `Covers` says which messages are taken
for which, and `TakenFor` which hotels' names end in "at" and which other (as "Flat North" does). `Tick` moves the clock by a step of hours once a round of each kind has
completed since the last: the timer goes off every 15 minutes. `due`, `tidied` and `raced` are
history variables for the properties; `raced` holds the texts that a round looked for, and did not
find, while another round was about to write them. That a hotel is renamed is left out.

### PaymentMethods

| Code | Actions |
|---|---|
| `createPaymentMethodSetupSession` | `BeginSetup`, then the customer, then `CreateSession` |
| `ensureStripeCustomer` | `FindCustomer`, `CreateCustomer` (Stripe), `SaveCustomer` |
| `confirmPaymentMethodSetupSession` | `BeginConfirm`, the customer, `RetrieveMethod`, `Attach`, `OpenConfirm`, `CommitConfirm` |
| `updatePaymentMethod` | `BeginUpdate`, `OpenUpdate`, `CommitUpdate` |
| `removePaymentMethod` | `BeginRemove`, `OpenRemove`, `CommitRemove`, `Detach` |
| `syncStripeDefaultPaymentMethod` | `Sync` |
| Stripe, failures | `CompleteSession`, `Rollback`, `Fault` |

A transaction of the default isolation level is two steps: `Open...` chooses the
rows it will write, the commit writes them whatever they have become, and fails
only if its own row is there or gone against its expectation. A setup session
saves one card, which has the session's name. `createdAt`, by which the next
default is chosen, is kept as the set of cards saved before. Four history variables say under which
circumstances a promise holds: `crossed` holds the requests another commit has
overtaken since they first read; `ordered` says that the last word on the
default card came from one that was not, and either named the default anew or found the table
in order; `calm`, that requests have come one at a time so far; `behind`, that a request was lost
between the commit that changed the default and its call to Stripe, and that no later call
has made up for it.

### Accounts

One address, for which there may be an account and an agency that do not know
of each other. `login`, `googleLogin` and `syncEmailVerification` are
`LoginRead`/`LoginMigrate`, `GoogleRead`/`GoogleCreate` and `SyncRead`/`SyncWrite`, the
last two followed by `Welcome`; `changePassword` is
`ChangeRead`, `WritePassword`, `Acknowledge`; `forgotPassword` is `ForgotRead`,
`Invalidate`, `CreateToken`, `SendLink`; `resetPassword` is `ResetRead`,
`WritePassword`, `MarkUsed`. `Register`, `StaffUpdate`, `DeleteAccount` and
`Expire` are single statements, `Fails` and `Fault` are statements that throw
and restarts. A password is stored `plain` in rows older than the hashing, and
as a `hash` after. `changePassword` asks for a verified address unless the account is an
administrator's. The ghost `book` counts, as long as requests come one at a
time (`kept`), the uses of each token, the welcomes sent, and remembers the
password whose change was last acknowledged, and whether it was by a link of an agency that had the address to itself; `crossed` and `settled` do for reset links
what `crossed` and `ordered` do for cards.

### Catalogue

Edits of hotels and rooms and changes of bookings are one step each. A visitor
asks for a list (`Ask`), each page is one query (`FindAvailable`) or two that
run side by side (`FindAllItems`, `FindAllCount`), and goes on to the next page
(`NextPage`) as long as the total that came with the last says so. `Available`,
`All`, `MatchingRooms`, `Quote`, `Accepts` and `MontantTotal` are the three
queries and the two prices, with the filters `minPrice` and `maxPrice` (`InRange`). The ghosts of a visit: `expected`, what was listed
when it began; `left`, whether a hotel has left the list or two have changed
places; `torn`, whether the list changed between the two queries of a page;
`tied`, whether the order was not determined. All three are needed for
`PagesMissNothing`: without any one of them TLC finds a hotel that is missed.

### Announcements

A request is a job with a delivery for each recipient; deliveries run side by
side (`Promise.all`), each of them `ReadAccount`, `CreateRow`, `SendMail`, and
the job goes on when all have ended (`FinishDeliveries`, `SendAlert`). The jobs
are `AnnouncePromotion` and `Recipients`, `AnnounceStatus`, `SendPaymentReceipt`, and
those of a complaint: `CreateComplaint`, `ReadComplaint`,
`WriteComplaint` or `MissComplaint`, with `RemoveComplaint` at any time; a complaint may be
created in any status, and an update may name a status, an answer, both or neither. Of the templates the model
keeps only whether their table is there and whether the service believes so: one that
starts without it does without, and mails its fallback texts, until it starts again (`Restart`, `Migrate`). Ghosts: `rows` counts what each job put
into each inbox; `steady` holds the accounts that have met all conditions of a promotion
(active, interested, willing) since its job began, and for each account the conditions
it has lacked ever since; `told` is the status the newest notification names; `settled`
says that the last change of status was told by a request no other overlapped
(`crossed`).

## What is checked

Runs that pass (distinct states, with symmetry):

| Run | Bounds | Shows |
|---|---|---|
| `booking_payment` | 2 bookings, 2 overlapping stays of a room, 2 sessions, 1 saved card, 2 handlers, 1 midnight; 1.1 million states | types; `Bindings` (a handler finalizes what was paid for its booking, and a session is in one handler's hands until the customer has it); `NoDoubleBooking`; `PaymentTraceable`; `PaidIsNeverUnpaid`; `SingleReceipt`; `ClosedNeverReopens`; `ImplementsRoomCalendar` |
| `booking_staff` | the same with 1 session and staff who reopen, block, move, create and delete; 1.4 million states | `SnapshotHolds` survives staff |
| `booking_settles` | 1 stay, delayed payment methods, one handler lost at any point, fairness; 371 thousand states | `SessionSettles`: a captured session is accounted for in the end |
| `cancellation_terms` | 3 conditions (fees of zero, above the total and below zero; two with equal delays), 3 prices (negative, zero, below the total), 2 days of check-in, 3 hours a day apart; 427 thousand states | types; `TermsBalance`, `RefundNeverGrows`, `MoreConditionsNoLater`, `PreviewKept`, `LateIsCharged` |
| `offers_requests` | 2 offers, 2 hotels, 3 rooms, 2 requests at a time out of 4 kinds, three of which name some fields only; 2.8 million states | `OffersApart`, `DatesInOrder`, `RoomsAsAsked`, whatever requests overlap |
| `reminders_rounds` | 1 account with a booking of "North" and one of "Flat North", whose reminders are taken for those of "North"; 2 rounds of reminders at once, 1 of review requests, 2 changes or broken rounds; 3.6 million states | `MailedOnce`, `RemindedInTime` |
| `payment_methods` | 2 cards, 2 customers, 2 requests, one of them lost; 3.5 million states | `OneDefault`, `DefaultStays` with any overlap; `StripeInStep`, `SessionsOfCustomer`, `SavedIsAttached` with requests one at a time, before and after one is lost |
| `accounts_links` | 2 tokens, 2 passwords, 2 requests, one of them lost; an account with an old row; 815 thousand states | types; `OneLiveToken`, `GoogleHasNoPassword` with any overlap; `ResetOnce`, `WelcomeOnce`, `AcknowledgedSignsIn` with requests one at a time |
| `catalogue_pages` | 3 hotels, one of them new, 2 rooms, 1 booking, 3 days, parties to 3, 3 kinds of rooms, of which the closed one is free of charge, 4 queries that sort and filter by price, 1 hotel per page, 3 edits or bookings; 431 thousand states | types; `SearchAgreesWithBooking`, `PartyFits`, `PagesMissNothing` |
| `announcements_told` | 2 accounts, 2 requests, 1 failure or restart, 1 change of an account and, while nothing has failed and no complaint was filed, a second (`SecondEdit`), 2 statuses and an answer; 1.4 million states | types; `ComplaintTold`, `PromotionReaches` |

Two bookings suffice for what relates pairs of bookings, and each way in which two handlers
meet needs two; two sessions make one stale; the saved card makes a payment that is
not retried. Staff and delays are in runs of their own because together they
multiply the states and do not interact in the properties. Two cards make one
that is the default and one that becomes it, and a second customer is what a
lost or overlapping `ensureStripeCustomer` makes. Two tokens make an older and a newer link. The
third hotel is the one that appears between two pages. Two requests for offers are what
`stale` is about, as a request writes but once; two rounds of one loop meet at every await of each, and two hotels
of which one's reminders pass for the other's are all that `Covers` can tell apart. A second change of an
account lets it lack one condition at one look and another at the next and still get its notice,
as it may in the code ("Observed"). One fault may happen at
any await; what a second adds is another start from a state the first has left.
Where there is a proof, it is for any numbers of all of these.

Runs whose property is violated, each a text of the code that its await points or branches do
not keep:

| Run | Property | What happens |
|---|---|---|
| `booking_confirmed_kept` | `ConfirmedIsKept` | a payment finalized between the read and the write of `cancelUnpaidBooking`, the cleanup or `cancelBooking`: the paid booking is deleted or cancelled ("already paid/confirmed and cannot be cancelled", reservation.service.ts:161) |
| `announcements_confirmed_mail` | `ConfirmedMailIsTrue` | with the table of templates at hand, a booking that is refused, blocked or waiting is mailed with the template "Sent when a reservation becomes confirmed." (mail.defaults.ts:52): the choice in notification.service.ts:204 knows two statuses, and payAtHotel announces a booking that stays EN_ATTENTE |

`CHECK_DEADLOCK FALSE` is set where a finite instance runs out of ids, days or time
(`Booking`, `Reminders`); everywhere else TLC also shows that nothing gets stuck.

Fairness (`booking_settles` only). Weak fairness of `Continue(h)`: a promise that is
awaited is settled, so a handler that has begun takes its next step or is lost.
Strong fairness of the delivery of a paid session: Stripe repeats an event until
it is answered with a 2xx, which `handleWebhook` does not do if it throws; strong, because whether a
handler is free comes and goes. Nothing else is fair: nobody need book, pay, cancel
or edit, and no handler need be lost. `SessionSettles` counts a closed or deleted
booking as accounted for, since the code does.

## What is proved

All theorems are for every value of the constants, under the assumptions named next
to them (`ASSUME` in the modules: stays end after they begin, sessions and cards are
different, requests have the fields of the DTO, the page size is positive, and the like). Prices, fees and
totals are any whole numbers.

- `BookingProofs`. `TypeCorrect` is inductive with `TypeOK` alone. For
  `NoDoubleBookingHolds` the property is not inductive: a transaction that commits
  relies on what it read earlier. The inductive invariant is `TypeOK`, `Bindings` and `Isolation`, which
  adds `SnapshotHolds`: an open transaction that nothing has marked may still rely on
  its row being open and, if it means to confirm, on no held booking lying where its
  stay lies; `BindingsHold` and `SnapshotsHold` state the two by themselves. A commit keeps it because it marks its rivals; a plain write because it marks the
  readers of its row, and because it makes no row `Held`.
  `PaymentTraceableHolds` and `PaidIsNeverUnpaidHolds` rest on the invariant
  `Paid`, and on a lemma that lists the ways in which a step can change a row (`RowChange`);
  `ClosedNeverReopensHolds` follows from the same list.
  `CalendarImplemented`: every step of `Booking` is an
  `Occupy`, a `Leave`, or leaves the calendar alone, under the mapping at the end of
  `Booking`; `CalendarKeepsNightsApart` proves of the calendar itself that it keeps guests apart.
  `SingleReceiptHolds`: that a receipt was sent once says nothing of the events still to come, so
  `ReceiptInv` says what turns them away. A booking with one completed payment, whatever
  sessions were abandoned and cards declined beside it (`Trusted`), that was
  paid is confirmed and names the session it was paid with, which is the one that a redelivered event brings; nobody who may
  still commit (`Settling`) meets a payment date; and at most one handler is about to announce,
  before any receipt is out. It needs that nobody works on a booking that is not there yet (`Unborn`) and that
  what Stripe has not made is nobody's (`Opened`).
- `CancellationProofs`. Type correctness, `TermsBalance` for every price, fee and status, and the action
  properties; the steps are short, the content is in the arithmetic of the capped
  penalty and in how the longest delay changes with the table. `LateIsCharged` says so of amounts above
  zero only: at a price of zero the code charges nothing ("Observed").
- `OffersProofs`. For any number of requests at once. The
  invariant says of a request what it has checked and may still rely on when it
  writes (`Sound`): all of it, but for what is in its `stale`; and a write leaves that
  behind in `crossed`. It gives `OffersApartHolds`, `DatesInOrderHolds`
  and `RoomsAsAskedHolds` for every set of requests.
- `RemindersProofs`. `RemindedInTimeHolds` and `MailedOnceHolds` for any number of rounds under way at
  once. The invariant: a due booking still is what made it due; unless a notification taken for its
  reminder is in the inbox (or was deleted), no round of reminders has ended since the clock moved and every
  one under way still has it on its list; and what is about to be mailed is in the inbox. For the
  mails, `MailInv`: a mail leaves its notification behind, and a round that is about to write or to
  mail a text that was not `raced` for is the only one, and the text was not mailed before.
- `PaymentMethodsProofs`. `OneDefault` is not inductive: a transaction
  writes by what its first statements read. `Inv` adds to the types (`Typed`, with: of any
  set of saved cards one is the oldest) what a request carries (`Informed`): its
  session is its own until it is made and complete when it is confirmed, and unless a commit has
  crossed it, what it read still is so (`Fresh`). A commit keeps it because it
  crosses everyone who has read. `ConfirmEffect`, `UpdateEffect` and
  `RemoveEffect` then say what an uncrossed commit does to the default, which gives
  `OneDefaultHolds` and `DefaultStaysHolds` for any overlap. With `calm`, the
  invariant `Attended` (the one request at work has what it relies on, and every
  saved card is complete and attached) gives `SessionsOfCustomerHolds` and
  `SavedIsAttachedHolds`, for any number of lost requests. `StripeInStepHolds` adds `InStep`:
  until the one request at work has handed the default over, it carries what the table has; one that
  is lost just then leaves Stripe `behind`, and the next that hands a default over catches up.
- `AccountsProofs`. `AccountsTypeCorrect`, where the types say that a usable token
  belongs to a row that is there. `OneLiveTokenHolds`: a request that nobody
  crossed since it put the older tokens out of use still finds none when it creates
  its own. `GoogleHasNoPasswordHolds`: no reset link and no change of a password that is under
  way can meet a Google account, because a row is a Google account from its creation
  and the links of an address without one belong to its agency. `ResetOnceHolds`,
  `WelcomeOnceHolds` and `AcknowledgedSignsInHolds` share `KeptInv`: while requests have come one at a
  time, whoever is at work is alone and what it read still is so (`Attends`); the uses of a token are
  paid for by the mark it carries or by a lost request (`Counted`); an account that is not verified was not
  welcomed (`Welcomed`); the acknowledged password fits the row that sign-in will choose (`Worded`).
- `CatalogueProofs`. `SearchAgreesWithBookingHolds` and `PartyFitsHolds` are facts about the
  queries over any tables of the right types (`SearchAgrees`, `Fits`): the types, which say that a
  room belongs to a hotel that is listed and a booking to a room that is there
  (`Typed`), are all of the history they need. `PartyFits` says that every guest
  has a bed in the rooms chosen, which is proved by handing out the guests in shares; the rounding
  of the share is where it could fail. For `PagesMissNothingHolds` the invariant `SeenInv` speaks of the visit half way: every
  hotel expected is still listed and, if its rank among those that fit is below what the pages so far have
  covered (`ReadSoFar`), has been seen. A hotel that joins only raises ranks, a page
  shows the ranks of its window, and the last page ends beyond the last rank.
- `AnnouncementsProofs`. `PromotionReachesHolds`: `Reached` follows each delivery, and says for each stage which conditions the
  account may have lacked by then (none, once its row is written) and that whoever wanted it all along is
  on the list. `ComplaintToldHolds`: `ToldInv` says that a request no other has crossed is the
  only one at work on the complaint, which therefore has the status the request saw or wrote.

Checked by TLC only: liveness (`SessionSettles`, which needs the fairness of its run, out of
reach of these provers), and the two runs whose property is violated. Every other property of a
passing run is a theorem.
Where a property has an exception for requests that overlap, the exception is a ghost that
records this very overlap (`superseded`, `crossed`, `stale`, `raced`, `behind`); without
it TLC finds the property violated. The properties of cards and accounts that speak of requests
one at a time (`calm`, `kept`) are proved for these only ("Observed").
The invariants on which the proofs rest were checked with TLC on the
instances of the runs before they were proved (`ReceiptInv` with staff, delayed payment methods and a
fault besides).

## Observed, without a run

- With two paid sessions for one booking, a redelivered event of the older one
  finalizes again and mails another receipt: the row remembers one session only (payment.service.ts:703).
  So it does with one payment if a `createCheckoutSession` that read the booking before it was paid saves
  its session afterwards (payment.service.ts:200): the event of the payment is not recognised any more.
  And when staff put a paid booking back to EN_ATTENTE, the redelivered event
  pays it again. `SingleReceipt` is therefore about bookings with one completed payment, not `superseded`, that staff
  left alone; abandoned sessions and declined cards beside it do not matter.
- Who gets a promotion is decided by two looks at the account, one for the list and one for the delivery
  (notification.service.ts:108, :508), each at conditions of its own: an account that at no
  moment met all of them may get the notice. `PromotionReaches` therefore excludes those that lacked
  one and the same condition all through.
- `cancelBooking` turns down every paid booking, so the "total paid" of its refund summary
  (reservation.service.ts:493, mail.defaults.ts:89) was not paid.
- `remboursementTotal` (schema.prisma:298) is written by staff and read by nothing.
- Two rounds of reminders that overlap mail the same thing twice if the second looks between the look and the
  write of the first (notification.service.ts:45 does not wait for the last round); `raced` holds these texts.
- A reminder is recognised by the words "at <hotel> is on <day>" anywhere in a message
  (notification.service.ts:356), so that one for "Flat North" passes for one for "North": who has both
  bookings for one day may be reminded of "Flat North" only.
- Two `createBooking` calls may both look before either inserts
  (reservation.service.ts:317, :355): both bookings are there, and the payment turns one of them down. A
  booking confirmed with a saved card while an open session can still be paid may be charged
  twice (payment.service.ts:224).
- A condition with a fee and no description says that the first night is charged
  (reservation.service.ts:208); the charge is the fee.
- With a price of zero and no fee a late cancellation is charged nothing and yet called PARTIAL, and with a
  negative price the refund exceeds the total (reservation.service.ts:193): the DTO asks that
  `prixParNuit` be a number and no more (create-chambre.dto.ts:17).
- Two requests for offers that overlap may both find the dates free (offre.service.ts:125); two updates of
  one offer that each name one date may leave them in the wrong order, and two that each name rooms may leave the
  rooms of both. `crossed` holds the offers to which this happened.
- Two requests for a setup session that overlap may create two customers; the cards of
  one are then refused (account.service.ts:899). Two overlapping transactions may leave two default
  cards or, after a removal, none, until the next choice (account.service.ts:501, :589). A request lost
  between its commit and its call to Stripe leaves the old default there until the next choice (`behind`).
- An agency that asked for a link is told that its password was updated, and does not sign in with it, if it
  was deactivated meanwhile or an account has taken the address (account.service.ts:140, :829).
- The availability of a hotel does not look at `disponible`, which the booking does
  (hotel.service.ts:246, reservation.service.ts:317): a closed room may be the first that is offered, and then
  the total that is quoted is one at which nothing can be booked. `SearchAgreesWithBooking` therefore
  speaks of open rooms, and of the quote as a lower bound.
- Every mail overwrites the name, description, trigger, channel and recipients of each
  template (mail.service.ts:257); `isActive` is kept and consulted by nobody.

## Not modelled

- The wishlist (one upsert and one deleteMany of a pair the schema keeps unique),
  system configuration (settings read and written one key at a time), room types (descriptions),
  the marks a customer sets in the inbox, creation and removal of agencies, and the
  edits of profiles and addresses: single statements that depend on no order.
- Statistics and the assistant only read. The application shell is wiring.
- The filters by city, name and stars of the two lists: they only narrow both alike.
- The editing of mail templates and the upserts before every mail: no property here reads a text.
- The content of mails and prompts, rendering and SMTP; that a mail can fail is modelled.
- Authentication and the validation of requests; the modules assume of their inputs
  what validation guarantees. Hashes and signatures are taken to be what they are for.
- The change of an account's email address and its roles: `Accounts` is about one address.
- A request of `Catalogue` or `Cancellation` is one step; the races inside a booking are
  in `Booking`.

## Plan

Done, in this order: `Stay`, `RoomCalendar`, `Booking` with its runs, `Cancellation`,
`Offers`, `Reminders`, `PaymentMethods`, `Accounts`, `Catalogue`, `Announcements`, and the
proofs named above, which by now state every property of the passing runs except liveness. Left:

- The safety half of `SessionSettles` as a theorem: as long as a captured session is not
  accounted for, its booking is there and its event is still to be delivered or in a handler's hands, so that
  only the fairness itself stays with TLC.
