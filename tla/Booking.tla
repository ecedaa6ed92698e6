------------------------------ MODULE Booking ------------------------------
(***************************************************************************)
(* The booking and payment core of VoyageHub: the table of reservations,   *)
(* the part of Stripe the service depends on, and the request handlers of  *)
(* ReservationService and PaymentService that run concurrently over them.  *)
(*                                                                         *)
(* A handler is a chain of steps, one per await: what it read before an    *)
(* await is what it acts on after it.  job[h] is what the handler h is     *)
(* between.  A request that is turned down for a reason that is not        *)
(* modelled (ownership, an unverified account, an amount mismatch) changes *)
(* nothing and is not a step.                                              *)
(***************************************************************************)
EXTENDS Stay, FiniteSets

CONSTANTS
    Bookings,      \* reservation ids; autoincrement never hands one out twice
    Sessions,      \* Stripe checkout sessions
    Cards,         \* payment intents made by payWithSavedCard
    Handlers,      \* requests in flight at once (bound)
    Stays,         \* the stays customers and staff ask for
    StaffStatuts,  \* statuts staff write in this instance; {}: no staff
    AsyncMethods,  \* TRUE: Stripe also offers delayed payment methods
    Horizon,       \* last day of the instance (bound)
    MaxFaults,     \* handlers lost to a restart or a database error (bound)
    MaxReceipts,   \* receipts are counted up to this number (bound)
    None

Tokens == Sessions \cup Cards
Statuts == {"EN_ATTENTE", "CONFIRMEE", "ANNULEE", "REFUSEE", "BLOQUEE", "TERMINEE"}

ASSUME StaysAssumption == \A s \in Stays : IsStay(s)
ASSUME TokensAssumption == Sessions \cap Cards = {} /\ None \notin Tokens
ASSUME NoneAssumption == None \notin Bookings /\ None \notin Stays
ASSUME StaffAssumption == StaffStatuts \subseteq Statuts
ASSUME BoundsAssumption ==
    AsyncMethods \in BOOLEAN /\ Horizon \in Nat /\ MaxFaults \in Nat /\ MaxReceipts \in Nat

VARIABLES
    reservation,   \* the table: a row for every id, ABSENT before, DELETED after
    stripe,        \* what Stripe knows of each session and saved-card intent
    job,           \* the handlers
    dirty,         \* handlers whose open serializable transaction must abort
    receipts,      \* receipts mailed for a booking
    today,         \* the day it is
    faults         \* handlers lost so far

vars == <<reservation, stripe, job, dirty, receipts, today, faults>>

-----------------------------------------------------------------------------
(* The rows of the table. *)

Blank(statut) ==
    [statut |-> statut, paymentStatus |-> "PENDING", stripeSessionId |-> None,
     stripePaymentIntentId |-> None, paymentDate |-> "unset", stay |-> None,
     editor |-> "customer", superseded |-> "no"]

Rows == [statut : Statuts \cup {"ABSENT", "DELETED"},
         paymentStatus : {"PENDING", "PAY_AT_HOTEL", "CHECKOUT_PENDING", "PAID",
                          "PAID_CONFLICT"},
         stripeSessionId : Tokens \cup {None},
         stripePaymentIntentId : Tokens \cup {None},
         paymentDate : {"unset", "set"},
         stay : Stays \cup {None},
         editor : {"customer", "staff"},   \* ghost: whether staff created or edited the row
         superseded : {"no", "yes"}]       \* ghost: whether a session was saved once it was paid

Live(b) == reservation[b].statut \in Statuts
Absent(b) == reservation[b].statut = "ABSENT"
Dated(b) == reservation[b].paymentDate = "set"
ByStaff(b) == reservation[b].editor = "staff"

BlockingStatuses == {"EN_ATTENTE", "CONFIRMEE", "BLOQUEE", "TERMINEE"}
OccupyingStatuses == {"CONFIRMEE", "BLOQUEE", "TERMINEE"}
ClosedStatuses == {"ANNULEE", "REFUSEE", "TERMINEE"}

\* A booking that its customer, and no one of the staff, brought to CONFIRMEE.
Held(b) == reservation[b].statut = "CONFIRMEE" /\ ~ByStaff(b)

\* Some reservation with one of these statuts overlaps s, except is not looked at.
Taken(s, statuts, except) ==
    \E c \in Bookings \ except :
        /\ reservation[c].statut \in statuts
        /\ Clash(s, reservation[c].stay)

-----------------------------------------------------------------------------
(* The handlers. *)

Quiet == [at |-> "idle", b |-> None, tok |-> None, stay |-> None,
          pay |-> "PENDING", verdict |-> "none", tries |-> 0]

Places == {"idle", "book", "checkout", "checkout_save", "charge", "settle", "commit",
           "announce", "remove", "cleanup", "cancel"}
Verdicts == {"missing", "unchanged", "refuse", "confirm"}

Jobs == [at : Places,
         b : Bookings \cup {None},
         tok : Tokens \cup {None},
         stay : Stays \cup {None},
         pay : {"PENDING", "PAY_AT_HOTEL"},
         verdict : Verdicts \cup {"none"},
         tries : {0, 1}]

Idle(h) == job[h].at = "idle"
Becomes(h, at, b, tok) ==
    job' = [job EXCEPT ![h] = [Quiet EXCEPT !.at = at, !.b = b, !.tok = tok]]
Ends(h) == job' = [job EXCEPT ![h] = Quiet]

\* Mutant: the last write wins.
NoReaders(b) == {h \in {} : job[h].b = b}

\* Open transactions that have read the row b: a write of b that commits first
\* makes their own update of it fail.
Readers(b) == {h \in Handlers : job[h].at = "commit" /\ job[h].b = b}

\* A statement outside the serializable transaction writes the row b.
Write(b, row) ==
    /\ reservation' = [reservation EXCEPT ![b] = row]
    /\ dirty' = dirty \cup Readers(b)

StripeStates == {"none", "drafted", "open", "processing", "captured", "failed", "declined"}

TypeOK ==
    /\ reservation \in [Bookings -> Rows]
    /\ stripe \in [Tokens -> [state : StripeStates, b : Bookings \cup {None}]]
    /\ job \in [Handlers -> Jobs]
    /\ dirty \subseteq Handlers
    /\ receipts \in [Bookings -> 0 .. MaxReceipts]
    /\ today \in 0 .. Horizon
    /\ faults \in 0 .. MaxFaults

Init ==
    /\ reservation = [b \in Bookings |-> Blank("ABSENT")]
    /\ stripe = [t \in Tokens |-> [state |-> "none", b |-> None]]
    /\ job = [h \in Handlers |-> Quiet]
    /\ dirty = {}
    /\ receipts = [b \in Bookings |-> 0]
    /\ today = 0
    /\ faults = 0

-----------------------------------------------------------------------------
(* createBooking: look for overlapping blocking reservations, then insert;  *)
(* nothing holds the room in between.                                       *)

BookRead(h, s, pay) ==
    /\ Idle(h)
    /\ ~Taken(s, BlockingStatuses, {})
    /\ job' = [job EXCEPT ![h] = [Quiet EXCEPT !.at = "book", !.stay = s, !.pay = pay]]
    /\ UNCHANGED <<reservation, stripe, dirty, receipts, today, faults>>

BookWrite(h) ==
    /\ job[h].at = "book"
    /\ \E b \in Bookings :
        /\ Absent(b)
        /\ reservation' = [reservation EXCEPT ![b] =
             [Blank("EN_ATTENTE") EXCEPT !.stay = job[h].stay, !.paymentStatus = job[h].pay]]
    /\ Ends(h)
    /\ UNCHANGED <<stripe, dirty, receipts, today, faults>>

\* The random booking reference is taken, or no id is left in this instance.
BookFails(h) ==
    /\ job[h].at = "book"
    /\ Ends(h)
    /\ UNCHANGED <<reservation, stripe, dirty, receipts, today, faults>>

-----------------------------------------------------------------------------
(* createCheckoutSession: read and check the row, create the session on     *)
(* Stripe, write its id to the row whatever the row has become, and only    *)
(* then hand the customer the address of the session.                       *)

CheckoutRead(h, b) ==
    /\ Idle(h)
    /\ reservation[b].statut = "EN_ATTENTE"
    /\ Becomes(h, "checkout", b, None)
    /\ UNCHANGED <<reservation, stripe, dirty, receipts, today, faults>>

\* Mutant: an idempotency key that two requests share.
CheckoutCreateShared(h) ==
    /\ job[h].at = "checkout"
    /\ \E t \in Sessions :
        /\ stripe[t].state \in {"none", "drafted"}
        /\ stripe' = [stripe EXCEPT ![t] = [state |-> "drafted", b |-> job[h].b]]
        /\ Becomes(h, "checkout_save", job[h].b, t)
    /\ UNCHANGED <<reservation, dirty, receipts, today, faults>>

CheckoutCreate(h) ==
    /\ job[h].at = "checkout"
    /\ \E t \in Sessions :
        /\ stripe[t].state = "none"
        /\ stripe' = [stripe EXCEPT ![t] = [state |-> "drafted", b |-> job[h].b]]
        /\ Becomes(h, "checkout_save", job[h].b, t)
    /\ UNCHANGED <<reservation, dirty, receipts, today, faults>>

CheckoutSave(h) ==
    LET b == job[h].b
        t == job[h].tok
    IN  /\ job[h].at = "checkout_save"
        /\ IF Live(b)
           THEN /\ Write(b, [reservation[b] EXCEPT
                               !.stripeSessionId = t,
                               !.paymentStatus = "CHECKOUT_PENDING",
                               !.superseded = IF Dated(b) THEN "yes" ELSE @])
                /\ stripe' = [stripe EXCEPT ![t].state = "open"]
           ELSE UNCHANGED <<reservation, dirty, stripe>>
        /\ Ends(h)
        /\ UNCHANGED <<receipts, today, faults>>

\* Stripe turns the request down before it has created anything.
StripeFails(h) ==
    /\ job[h].at \in {"checkout", "charge"}
    /\ Ends(h)
    /\ UNCHANGED <<reservation, stripe, dirty, receipts, today, faults>>

-----------------------------------------------------------------------------
(* payWithSavedCard: read and check the row, charge the card, settle.       *)

CardRead(h, b) ==
    /\ Idle(h)
    /\ reservation[b].statut = "EN_ATTENTE"
    /\ Becomes(h, "charge", b, None)
    /\ UNCHANGED <<reservation, stripe, dirty, receipts, today, faults>>

CardCharge(h) ==
    /\ job[h].at = "charge"
    /\ \E t \in Cards :
        /\ stripe[t].state = "none"
        /\ \/ /\ stripe' = [stripe EXCEPT ![t] = [state |-> "captured", b |-> job[h].b]]
              /\ Becomes(h, "settle", job[h].b, t)
           \/ /\ stripe' = [stripe EXCEPT ![t] = [state |-> "declined", b |-> job[h].b]]
              /\ Ends(h)
    /\ UNCHANGED <<reservation, dirty, receipts, today, faults>>

-----------------------------------------------------------------------------
(* handleCheckoutSessionCompleted, from a webhook or from the summary page. *)
(* Stripe delivers an event at least once, late and in any order, so an     *)
(* event that has happened can be delivered at any later time.              *)

\* Mutant: a session is taken for paid once it can be paid.
WebhookAnySession(h, t) ==
    /\ Idle(h)
    /\ stripe[t].state \in {"open", "processing", "captured", "failed"}
    /\ Becomes(h, "settle", stripe[t].b, t)
    /\ UNCHANGED <<reservation, stripe, dirty, receipts, today, faults>>

WebhookCompleted(h, t) ==
    /\ Idle(h)
    /\ stripe[t].state \in {"processing", "captured", "failed"}
    /\ Becomes(h, "settle", stripe[t].b, t)
    /\ UNCHANGED <<reservation, stripe, dirty, receipts, today, faults>>

SyncSummary(h, t) ==
    /\ Idle(h)
    /\ stripe[t].state = "captured"
    /\ Live(stripe[t].b)
    /\ Becomes(h, "settle", stripe[t].b, t)
    /\ UNCHANGED <<reservation, stripe, dirty, receipts, today, faults>>

-----------------------------------------------------------------------------
(* finalizeReservationPayment: a serializable transaction.  Its snapshot is *)
(* taken, and its verdict formed, at its first read; it commits unless      *)
(* another transaction has committed something it read (dirty).             *)

\* Mutants: a payment is finalized again each time it is heard of; a closed
\* booking is finalized; a conflict is not looked for.
VerdictAgain(b, t) ==
    CASE ~Live(b) -> "missing"
      [] reservation[b].statut \in ClosedStatuses -> "unchanged"
      [] OTHER -> IF Taken(reservation[b].stay, OccupyingStatuses, {b}) THEN "refuse" ELSE "confirm"
VerdictClosedToo(b, t) ==
    CASE ~Live(b) -> "missing"
      [] reservation[b].statut = "CONFIRMEE" /\ Dated(b) /\ reservation[b].stripeSessionId = t
            -> "unchanged"
      [] OTHER -> IF Taken(reservation[b].stay, OccupyingStatuses, {b}) THEN "refuse" ELSE "confirm"
VerdictNoConflict(b, t) ==
    IF ~Live(b) THEN "missing"
    ELSE IF reservation[b].statut \in ClosedStatuses THEN "unchanged" ELSE "confirm"

Verdict(b, t) ==
    LET r == reservation[b]
    IN  CASE ~Live(b) -> "missing"
          [] r.statut = "CONFIRMEE" /\ r.paymentDate = "set" /\ r.stripeSessionId = t -> "unchanged"
          [] r.statut \in ClosedStatuses -> "unchanged"
          [] OTHER -> IF Taken(r.stay, OccupyingStatuses, {b}) THEN "refuse" ELSE "confirm"

SettleRead(h) ==
    /\ job[h].at = "settle"
    /\ job' = [job EXCEPT ![h].at = "commit",
                          ![h].verdict = Verdict(job[h].b, job[h].tok)]
    /\ dirty' = dirty \ {h}
    /\ UNCHANGED <<reservation, stripe, receipts, today, faults>>

\* The row was not found or needs no change: the transaction only read.
SettleNoChange(h) ==
    /\ job[h].at = "commit"
    /\ job[h].verdict \in {"missing", "unchanged"}
    /\ Ends(h)
    /\ dirty' = dirty \ {h}
    /\ UNCHANGED <<reservation, stripe, receipts, today, faults>>

\* Mutant: the default isolation level.
RivalsSameRow(h) == {k \in Handlers \ {h} : job[k].at = "commit" /\ job[k].b = job[h].b}

\* The open transactions that have read what h is about to commit: those on
\* the same row, and those that looked for conflicts where its stay lies.
Rivals(h) ==
    {k \in Handlers \ {h} :
        /\ job[k].at = "commit"
        /\ \/ job[k].b = job[h].b
           \/ /\ Live(job[k].b)
              /\ Clash(reservation[job[k].b].stay, reservation[job[h].b].stay)}

\* Mutants: a refused booking stays in EN_ATTENTE; the payment date is forgotten.
SettledKeepsWaiting(r, verdict, t) ==
    [r EXCEPT !.statut = IF verdict = "confirm" THEN "CONFIRMEE" ELSE "EN_ATTENTE",
              !.paymentStatus = IF verdict = "confirm" THEN "PAID" ELSE "PAID_CONFLICT",
              !.stripeSessionId = t,
              !.stripePaymentIntentId = t,
              !.paymentDate = "set"]
SettledUndated(r, verdict, t) ==
    [r EXCEPT !.statut = IF verdict = "confirm" THEN "CONFIRMEE" ELSE "REFUSEE",
              !.stripeSessionId = t,
              !.stripePaymentIntentId = t]

Settled(r, verdict, t) ==
    [r EXCEPT !.statut = IF verdict = "confirm" THEN "CONFIRMEE" ELSE "REFUSEE",
              !.paymentStatus = IF verdict = "confirm" THEN "PAID" ELSE "PAID_CONFLICT",
              !.stripeSessionId = t,
              !.stripePaymentIntentId = t,
              !.paymentDate = "set"]

\* The database may abort more transactions than it must: the locks by which it
\* tracks reads cover whole pages of an index, or the table.
SettleCommit(h) ==
    /\ job[h].at = "commit"
    /\ job[h].verdict \in {"confirm", "refuse"}
    /\ h \notin dirty
    /\ reservation' = [reservation EXCEPT ![job[h].b] = Settled(@, job[h].verdict, job[h].tok)]
    /\ \E extra \in SUBSET {k \in Handlers \ {h} : job[k].at = "commit"} :
        dirty' = dirty \cup Rivals(h) \cup extra
    /\ job' = [job EXCEPT ![h].at = "announce"]
    /\ UNCHANGED <<stripe, receipts, today, faults>>

\* Mutant: tried again without end.
SettleAbortForever(h) ==
    /\ job[h].at = "commit"
    /\ job[h].verdict \in {"confirm", "refuse"}
    /\ h \in dirty
    /\ dirty' = dirty \ {h}
    /\ job' = [job EXCEPT ![h].at = "settle", ![h].verdict = "none", ![h].tries = @ + 1]
    /\ UNCHANGED <<reservation, stripe, receipts, today, faults>>

\* Serialization failure (P2034): a session is tried once more, a card is not.
SettleAbort(h) ==
    /\ job[h].at = "commit"
    /\ job[h].verdict \in {"confirm", "refuse"}
    /\ h \in dirty
    /\ dirty' = dirty \ {h}
    /\ IF job[h].tok \in Sessions /\ job[h].tries = 0
       THEN job' = [job EXCEPT ![h].at = "settle", ![h].verdict = "none", ![h].tries = 1]
       ELSE Ends(h)
    /\ UNCHANGED <<reservation, stripe, receipts, today, faults>>

\* The row is read again after the commit; a confirmed one gets its receipt.
Announce(h) ==
    LET b == job[h].b
    IN  /\ job[h].at = "announce"
        /\ receipts' = IF reservation[b].statut = "CONFIRMEE" /\ receipts[b] < MaxReceipts
                       THEN [receipts EXCEPT ![b] = @ + 1]
                       ELSE receipts
        /\ Ends(h)
        /\ UNCHANGED <<reservation, stripe, dirty, today, faults>>

-----------------------------------------------------------------------------
(* cancelUnpaidBooking, and the cleanup after a failed payment: read and    *)
(* check the row, then delete it whatever it has become.                    *)

Unpaid(b) ==
    /\ reservation[b].statut = "EN_ATTENTE"
    /\ reservation[b].paymentStatus \notin {"PAY_AT_HOTEL", "PAID"}

RemoveRead(h, b) ==
    /\ Idle(h)
    /\ Unpaid(b)
    /\ Becomes(h, "remove", b, None)
    /\ UNCHANGED <<reservation, stripe, dirty, receipts, today, faults>>

\* checkout.session.async_payment_failed: only if the row names this session.
WebhookSessionFailed(h, t) ==
    /\ Idle(h)
    /\ stripe[t].state = "failed"
    /\ Unpaid(stripe[t].b)
    /\ reservation[stripe[t].b].stripeSessionId = t
    /\ Becomes(h, "cleanup", stripe[t].b, t)
    /\ UNCHANGED <<reservation, stripe, dirty, receipts, today, faults>>

\* payment_intent.payment_failed: only saved-card intents name their booking.
WebhookIntentFailed(h, t) ==
    /\ Idle(h)
    /\ stripe[t].state = "declined"
    /\ Unpaid(stripe[t].b)
    /\ Becomes(h, "cleanup", stripe[t].b, None)
    /\ UNCHANGED <<reservation, stripe, dirty, receipts, today, faults>>

Delete(h) ==
    /\ job[h].at \in {"remove", "cleanup"}
    /\ IF Live(job[h].b)
       THEN Write(job[h].b, Blank("DELETED"))
       ELSE UNCHANGED <<reservation, dirty>>
    /\ Ends(h)
    /\ UNCHANGED <<stripe, receipts, today, faults>>

-----------------------------------------------------------------------------
(* cancelBooking: read the row and apply the policy, then write ANNULEE     *)
(* whatever the row has become.                                             *)

CancellationAllowed(b) ==
    /\ reservation[b].statut \in Statuts \ (ClosedStatuses \cup {"BLOQUEE", "CONFIRMEE"})
    /\ today < reservation[b].stay.from
    /\ reservation[b].paymentStatus \notin {"PAID", "PAID_CONFLICT"}

CancelRead(h, b) ==
    /\ Idle(h)
    /\ CancellationAllowed(b)
    /\ Becomes(h, "cancel", b, None)
    /\ UNCHANGED <<reservation, stripe, dirty, receipts, today, faults>>

CancelWrite(h) ==
    LET b == job[h].b
    IN  /\ job[h].at = "cancel"
        /\ IF Live(b)
           THEN Write(b, [reservation[b] EXCEPT !.statut = "ANNULEE"])
           ELSE UNCHANGED <<reservation, dirty>>
        /\ Ends(h)
        /\ UNCHANGED <<stripe, receipts, today, faults>>

-----------------------------------------------------------------------------
(* The staff endpoints write what they are given, with no check.            *)

Patched(r, s, statut) == [r EXCEPT !.statut = statut, !.stay = s, !.editor = "staff"]

StaffCreate(b, s, statut) ==
    /\ Absent(b)
    /\ reservation' = [reservation EXCEPT ![b] = Patched(Blank(statut), s, statut)]
    /\ UNCHANGED <<stripe, job, dirty, receipts, today, faults>>

StaffUpdate(b, s, statut) ==
    /\ Live(b)
    /\ Write(b, Patched(reservation[b], s, statut))
    /\ UNCHANGED <<stripe, job, receipts, today, faults>>

StaffRemove(b) ==
    /\ Live(b)
    /\ Write(b, Blank("DELETED"))
    /\ UNCHANGED <<stripe, job, receipts, today, faults>>

Staff ==
    \E b \in Bookings, statut \in StaffStatuts :
        \/ \E s \in Stays :
            \/ StaffCreate(b, s, statut)
            \/ StaffUpdate(b, s, statut)
            \/ StaffUpdate(b, s, reservation[b].statut)   \* new dates or room only
        \/ StaffRemove(b)

-----------------------------------------------------------------------------
(* The environment: the customer at Stripe's page, the calendar, restarts.  *)

PayCheckout(t) ==
    /\ stripe[t].state = "open"
    /\ \E outcome \in {"captured"} \cup (IF AsyncMethods THEN {"processing"} ELSE {}) :
        stripe' = [stripe EXCEPT ![t].state = outcome]
    /\ UNCHANGED <<reservation, job, dirty, receipts, today, faults>>

ResolveDelayed(t) ==
    /\ stripe[t].state = "processing"
    /\ \E outcome \in {"captured", "failed"} :
        stripe' = [stripe EXCEPT ![t].state = outcome]
    /\ UNCHANGED <<reservation, job, dirty, receipts, today, faults>>

NextDay ==
    /\ today < Horizon
    /\ today' = today + 1
    /\ UNCHANGED <<reservation, stripe, job, dirty, receipts, faults>>

\* A restart, or an error thrown by an await, ends a handler where it is.
Lose(h) ==
    /\ ~Idle(h)
    /\ faults < MaxFaults
    /\ faults' = faults + 1
    /\ Ends(h)
    /\ dirty' = dirty \ {h}
    /\ UNCHANGED <<reservation, stripe, receipts, today>>

-----------------------------------------------------------------------------
Customer(h) ==
    \/ \E s \in Stays, pay \in {"PENDING", "PAY_AT_HOTEL"} : BookRead(h, s, pay)
    \/ \E b \in Bookings : CheckoutRead(h, b)
    \/ \E b \in Bookings : CardRead(h, b)
    \/ \E b \in Bookings : RemoveRead(h, b)
    \/ \E b \in Bookings : CancelRead(h, b)
    \/ \E t \in Sessions : SyncSummary(h, t)

Webhook(h) ==
    \/ \E t \in Sessions : WebhookCompleted(h, t)
    \/ \E t \in Sessions : WebhookSessionFailed(h, t)
    \/ \E t \in Cards : WebhookIntentFailed(h, t)

Finalize(h) ==
    \/ SettleRead(h)
    \/ SettleNoChange(h)
    \/ SettleCommit(h)
    \/ SettleAbort(h)
    \/ Announce(h)

\* What a handler that has begun does next.
Continue(h) ==
    \/ BookWrite(h)
    \/ BookFails(h)
    \/ CheckoutCreate(h)
    \/ CheckoutSave(h)
    \/ StripeFails(h)
    \/ CardCharge(h)
    \/ Finalize(h)
    \/ Delete(h)
    \/ CancelWrite(h)

Next ==
    \/ \E h \in Handlers : Customer(h) \/ Webhook(h) \/ Continue(h) \/ Lose(h)
    \/ \E t \in Sessions : PayCheckout(t) \/ ResolveDelayed(t)
    \/ Staff
    \/ NextDay

Spec == Init /\ [][Next]_vars

\* What the code's scheduling gives: every promise is settled, so a handler that
\* has begun goes on, and Stripe keeps delivering an event until it is accepted.
\* Nobody has to book, pay, cancel, edit, or be lost.
Fairness ==
    /\ \A h \in Handlers : WF_vars(Continue(h))
    /\ \A t \in Sessions : SF_vars(\E h \in Handlers : WebhookCompleted(h, t))

FairSpec == Spec /\ Fairness

-----------------------------------------------------------------------------
(* Properties. *)

\* Two bookings that customers paid their way to CONFIRMEE never share a night
\* of a room: the conflict query of finalizeReservationPayment and its
\* serializable isolation keep them apart although createBooking does not.
NoDoubleBooking ==
    \A b, c \in Bookings :
        b # c /\ Held(b) /\ Held(c) => ~Clash(reservation[b].stay, reservation[c].stay)

\* A row that carries a payment date names the Stripe payment it came from, that
\* payment was made for this very booking, and (with immediate methods) it was
\* captured; and no booking reaches CONFIRMEE without one unless staff put it there.
PaymentTraceable ==
    \A b \in Bookings :
        /\ Dated(b) =>
              LET t == reservation[b].stripePaymentIntentId
              IN  /\ t \in Tokens
                  /\ stripe[t].b = b
                  /\ stripe[t].state \in {"captured"} \cup
                        (IF AsyncMethods THEN {"processing", "failed"} ELSE {})
        /\ Held(b) => Dated(b)

\* A row with a payment date is past EN_ATTENTE for good (staff apart), so the
\* guards of cancelUnpaidBooking and of the failed-payment cleanup, which look at
\* statut and paymentStatus only, cannot pass on a row that was paid, not even
\* after a late createCheckoutSession has reset its paymentStatus.
PaidIsNeverUnpaid ==
    \A b \in Bookings :
        Dated(b) /\ ~ByStaff(b) => ~Unpaid(b)

\* A booking that was paid once gets one receipt at most, however often, from
\* wherever and in whatever order its payment is finalized, whatever sessions
\* were opened and cards declined beside it; unless staff edited the row, or a
\* createCheckoutSession that had begun before wrote a new session to the row
\* after the payment: then the paid session is not recognised any more.
Completed(t) == stripe[t].state \in {"processing", "captured", "failed"}
OnePayment(b) ==
    \A t, u \in Tokens :
        stripe[t].b = b /\ stripe[u].b = b /\ Completed(t) /\ Completed(u) => t = u
SingleReceipt ==
    \A b \in Bookings :
        Live(b) /\ ~ByStaff(b) /\ OnePayment(b) /\ reservation[b].superseded = "no" => receipts[b] <= 1

\* A closed or deleted booking stays so: a payment that was already being
\* finalized when the customer cancelled does not bring the booking back.
ClosedNeverReopens ==
    [][\A b \in Bookings :
        /\ ~ByStaff(b)'
        /\ reservation[b].statut \in ClosedStatuses \cup {"DELETED"}
        => reservation'[b].statut \in ClosedStatuses \cup {"DELETED"}]_vars

\* What an open transaction of finalizeReservationPayment may rely on as long as
\* nothing has marked it: its row is still open, and if it means to confirm, no
\* held booking has come to lie where its stay lies since its snapshot.
SnapshotHolds ==
    \A h \in Handlers :
        LET b == job[h].b
        IN  job[h].at = "commit" /\ job[h].verdict \in {"confirm", "refuse"} /\ h \notin dirty =>
              /\ reservation[b].statut \in Statuts \ ClosedStatuses
              /\ job[h].verdict = "confirm" =>
                    \A c \in Bookings \ {b} :
                        Held(c) => ~Clash(reservation[b].stay, reservation[c].stay)

\* What a handler holds on to while it works: the booking and, once it pays, a
\* Stripe object made for that booking; a session not yet handed to the customer
\* belongs to the one handler that made it.
Bindings ==
    /\ \A t \in Tokens :
        /\ stripe[t].state # "none" => stripe[t].b \in Bookings
        /\ stripe[t].state \in {"processing", "failed"} => AsyncMethods
    /\ \A h \in Handlers :
        /\ job[h].at \notin {"idle", "book"} => job[h].b \in Bookings
        /\ job[h].at \in {"settle", "commit", "announce"} =>
              /\ job[h].tok \in Tokens
              /\ stripe[job[h].tok].b = job[h].b
              /\ stripe[job[h].tok].state \in {"processing", "captured", "failed"}
        /\ job[h].at = "checkout_save" =>
              /\ job[h].tok \in Sessions
              /\ stripe[job[h].tok] = [state |-> "drafted", b |-> job[h].b]
              /\ \A k \in Handlers \ {h} :
                    job[k].at = "checkout_save" => job[k].tok # job[h].tok

\* The booking core implements the room calendar: a held booking occupies the
\* nights of its stay; one that is closed, deleted or taken over by staff has left.
PhaseOf(b) ==
    IF ByStaff(b) \/ reservation[b].statut \in ClosedStatuses \cup {"DELETED"}
    THEN "left"
    ELSE IF Held(b) THEN "staying" ELSE "waiting"

Calendar == INSTANCE RoomCalendar WITH
    Guests <- Bookings,
    Nights <- UNION {RoomNights(s) : s \in Stays},
    phase <- [b \in Bookings |-> PhaseOf(b)],
    nights <- [b \in Bookings |-> IF Held(b) THEN RoomNights(reservation[b].stay) ELSE {}]

ImplementsRoomCalendar == Calendar!CalendarSpec

\* A captured checkout session is always accounted for in the end: its booking
\* carries a payment date, or it was closed or deleted in the meantime.
SessionSettles ==
    \A t \in Sessions :
        stripe[t].state = "captured" ~>
            \E b \in Bookings :
                /\ b = stripe[t].b
                /\ \/ Dated(b)
                   \/ reservation[b].statut \in ClosedStatuses \cup {"DELETED"}

-----------------------------------------------------------------------------
(* What the code's messages promise and its await points do not keep. *)

\* "This reservation is already paid/confirmed and cannot be cancelled.": a booking
\* confirmed by payment is neither cancelled by its customer nor deleted as unpaid.
ConfirmedIsKept ==
    [][\A b \in Bookings :
        Held(b) => reservation'[b].statut \notin {"ANNULEE", "DELETED"}]_vars
=============================================================================
