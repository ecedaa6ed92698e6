---------------------------- MODULE Cancellation ----------------------------
(***************************************************************************)
(* The cancellation terms of one booking of ReservationService: what the   *)
(* preview shows and what cancelling records, while time passes, staff     *)
(* edit the table of cancellation conditions, the price of the room and    *)
(* the booking itself, and the booking may be paid.  The races between the *)
(* read and the write of cancelBooking are the subject of Booking; here a  *)
(* request is one step.                                                    *)
(*                                                                         *)
(* Time is in hours and money in cents.                                    *)
(***************************************************************************)
EXTENDS Integers

CONSTANTS
    Totals,       \* montantTotal the booking may have
    CheckIns,     \* hours its stay may begin at
    Conditions,   \* rows staff may put into the table of conditions
    Prices,       \* prices per night the room may have
    StaffStatuts, \* statuts staff may give the booking
    Tick,         \* hours from one step of the clock to the next (bound)
    Horizon,      \* the hour the clock stops at (bound)
    None

Statuts == {"EN_ATTENTE", "CONFIRMEE", "ANNULEE", "REFUSEE", "BLOQUEE", "TERMINEE"}
ConditionRows == [delaiLimiteHeures : Int, fraisAnnulation : Int]

\* None of the amounts is validated but as a number: any of them may be
\* zero or negative.
ASSUME AmountsAssumption ==
    /\ Totals \subseteq Int
    /\ Prices \subseteq Int
    /\ Conditions \subseteq ConditionRows
    /\ None \notin ConditionRows \cup Int
ASSUME TimeAssumption == CheckIns \subseteq Int /\ Tick \in Nat \ {0} /\ Horizon \in Nat
ASSUME StatutsAssumption == StaffStatuts \subseteq Statuts

VARIABLES
    now,
    conditions,   \* the table of conditions
    price,        \* prixParNuit of the room
    stay,         \* of the booking: montantTotal and dateArrivee
    statut,
    paymentStatus,
    preview,      \* the terms last shown to the customer
    summary       \* the terms of the refund summary mailed on cancelling

vars == <<now, conditions, price, stay, statut, paymentStatus, preview, summary>>

-----------------------------------------------------------------------------
(* evaluateCancellationPolicy.                                              *)

\* Mutant: the row with the shortest delay comes first.
ShortestDelay ==
    IF conditions = {} THEN {None}
    ELSE {p \in conditions : \A q \in conditions : p.delaiLimiteHeures <= q.delaiLimiteHeures}

\* findFirst, longest delay first: which of several with that delay is up to
\* the database; null if the table is empty.
FirstCondition ==
    IF conditions = {} THEN {None}
    ELSE {p \in conditions : \A q \in conditions : p.delaiLimiteHeures >= q.delaiLimiteHeures}

FreeUntil(p) == stay.checkIn - (IF p = None THEN 48 ELSE p.delaiLimiteHeures)

Closed == statut \in {"ANNULEE", "REFUSEE"}

\* Not closed, over, begun, blocked, confirmed or paid.
Allowed ==
    /\ statut = "EN_ATTENTE"
    /\ paymentStatus \notin {"PAID", "PAID_CONFLICT"}
    /\ now < stay.checkIn

Least(a, b) == IF a <= b THEN a ELSE b
Most(a, b) == IF a >= b THEN a ELSE b

\* Mutant: a negative fee is taken at its word.
PenaltyNegative(p) ==
    LET configured == IF p = None THEN price ELSE p.fraisAnnulation
    IN  Least(stay.total, IF configured # 0 THEN configured ELSE price)

\* The configured fee, or the price of a night if it is missing, zero or
\* negative, and never more than the total.
Penalty(p) ==
    LET configured == Most(0, IF p = None THEN price ELSE p.fraisAnnulation)
    IN  Least(stay.total, IF configured # 0 THEN configured ELSE price)

FullTerms(p) ==
    [allowed |-> TRUE, freeUntil |-> FreeUntil(p), type |-> "FULL",
     refund |-> stay.total, charge |-> 0]

LateTerms(p) ==
    LET refund == Most(0, stay.total - Penalty(p))
    IN  [allowed |-> TRUE, freeUntil |-> FreeUntil(p),
         type |-> IF refund <= 0 THEN "NONE" ELSE "PARTIAL",
         refund |-> refund,
         charge |-> stay.total - refund]

\* What is refused is refunded nothing and charged in full, or not at all if the
\* booking has been closed already.
RefusedTerms ==
    [allowed |-> FALSE, freeUntil |-> None, type |-> "NONE",
     refund |-> 0, charge |-> IF Closed THEN 0 ELSE stay.total]

\* Mutants: the deadline itself is late; late and early are confused.
TermsStrict(p) ==
    CASE ~Allowed -> RefusedTerms
      [] Allowed /\ now < FreeUntil(p) -> FullTerms(p)
      [] Allowed /\ now >= FreeUntil(p) -> LateTerms(p)
TermsConfused(p) ==
    CASE ~Allowed -> RefusedTerms
      [] Allowed /\ now > FreeUntil(p) -> FullTerms(p)
      [] Allowed /\ now <= FreeUntil(p) -> LateTerms(p)

Terms(p) ==
    CASE ~Allowed -> RefusedTerms
      [] Allowed /\ now <= FreeUntil(p) -> FullTerms(p)
      [] Allowed /\ now > FreeUntil(p) -> LateTerms(p)

OfferedType ==
    [allowed : {TRUE}, freeUntil : Int, type : {"FULL", "PARTIAL", "NONE"},
     refund : Int, charge : Int]
RefusedType ==
    [allowed : {FALSE}, freeUntil : {None}, type : {"NONE"}, refund : {0}, charge : Int]

TypeOK ==
    /\ now \in 0 .. Horizon + Tick
    /\ conditions \subseteq Conditions
    /\ price \in Prices
    /\ stay \in [total : Totals, checkIn : CheckIns]
    /\ statut \in Statuts
    /\ paymentStatus \in {"PENDING", "PAY_AT_HOTEL", "CHECKOUT_PENDING", "PAID", "PAID_CONFLICT"}
    /\ preview \in OfferedType \cup RefusedType \cup {None}
    /\ summary \in OfferedType \cup {None}

Init ==
    /\ now = 0
    /\ conditions = {}
    /\ price \in Prices
    /\ stay \in [total : Totals, checkIn : CheckIns]
    /\ statut = "EN_ATTENTE"
    /\ paymentStatus \in {"PENDING", "PAY_AT_HOTEL"}
    /\ preview = None
    /\ summary = None

-----------------------------------------------------------------------------
\* getCancellationPreview: shown whatever the statut, also that it is refused.
Preview ==
    /\ \E p \in FirstCondition : preview' = Terms(p)
    /\ UNCHANGED <<now, conditions, price, stay, statut, paymentStatus, summary>>

\* Mutants: the terms shown last are the terms applied; a request that is not
\* allowed is not turned down.
CancelAsShown ==
    /\ Allowed
    /\ preview # None
    /\ summary' = preview
    /\ statut' = "ANNULEE"
    /\ UNCHANGED <<now, conditions, price, stay, paymentStatus, preview>>
CancelAlways ==
    /\ \E p \in FirstCondition : summary' = Terms(p)
    /\ statut' = "ANNULEE"
    /\ UNCHANGED <<now, conditions, price, stay, paymentStatus, preview>>

\* cancelBooking: the terms are worked out anew, and turned down unless allowed.
Cancel ==
    /\ Allowed
    /\ \E p \in FirstCondition : summary' = Terms(p)
    /\ statut' = "ANNULEE"
    /\ UNCHANGED <<now, conditions, price, stay, paymentStatus, preview>>

\* The conditions are a table of their own, edited by staff at any time.
AddCondition(p) ==
    /\ conditions' = conditions \cup {p}
    /\ UNCHANGED <<now, price, stay, statut, paymentStatus, preview, summary>>

RemoveCondition(p) ==
    /\ conditions' = conditions \ {p}
    /\ UNCHANGED <<now, price, stay, statut, paymentStatus, preview, summary>>

UpdateCondition(p, q) ==
    /\ p \in conditions
    /\ conditions' = (conditions \ {p}) \cup {q}
    /\ UNCHANGED <<now, price, stay, statut, paymentStatus, preview, summary>>

ChangePrice(n) ==
    /\ price' = n
    /\ UNCHANGED <<now, conditions, stay, statut, paymentStatus, preview, summary>>

\* ReservationService.update, of the amount and the arrival; the other fields
\* are the subject of Booking.
Update(total, checkIn) ==
    /\ stay' = [total |-> total, checkIn |-> checkIn]
    /\ UNCHANGED <<now, conditions, price, statut, paymentStatus, preview, summary>>

SetStatut(s) ==
    /\ statut' = s
    /\ UNCHANGED <<now, conditions, price, stay, paymentStatus, preview, summary>>

\* createCheckoutSession resets paymentStatus, whatever it was.
OpenCheckout ==
    /\ statut = "EN_ATTENTE"
    /\ paymentStatus' = "CHECKOUT_PENDING"
    /\ UNCHANGED <<now, conditions, price, stay, statut, preview, summary>>

\* finalizeReservationPayment: confirmed, or refused if the nights are taken.
Pay ==
    /\ ~Closed /\ statut # "TERMINEE"
    /\ \/ statut' = "CONFIRMEE" /\ paymentStatus' = "PAID"
       \/ statut' = "REFUSEE" /\ paymentStatus' = "PAID_CONFLICT"
    /\ UNCHANGED <<now, conditions, price, stay, preview, summary>>

Pass ==
    /\ now <= Horizon
    /\ now' = now + Tick
    /\ UNCHANGED <<conditions, price, stay, statut, paymentStatus, preview, summary>>

Next ==
    \/ Preview
    \/ Cancel
    \/ \E p \in Conditions : AddCondition(p) \/ RemoveCondition(p)
    \/ \E p, q \in Conditions : UpdateCondition(p, q)
    \/ \E n \in Prices : ChangePrice(n)
    \/ \E total \in Totals, checkIn \in CheckIns : Update(total, checkIn)
    \/ \E s \in StaffStatuts : SetStatut(s)
    \/ OpenCheckout
    \/ Pay
    \/ Pass

Spec == Init /\ [][Next]_vars

-----------------------------------------------------------------------------
(* Properties. *)

\* What the service never checks: the amounts it was given are not negative.
SaneAmounts == stay.total >= 0 /\ price >= 0

\* Whatever staff put into the table and whatever the room costs by now, refund
\* and charge make up the total, but for a booking closed already, of which
\* neither is anything; only what is refunded is called a refund, and free means
\* free.  Whatever the fees are, negative ones too, both parts lie between nothing
\* and the total, unless the total or the price of the night is negative itself.
TermsBalance ==
    \A p \in FirstCondition :
        LET t == Terms(p)
        IN  /\ t.refund + t.charge = (IF Closed THEN 0 ELSE stay.total)
            /\ t.type = "NONE" => t.refund = 0
            /\ t.type = "PARTIAL" => t.refund > 0
            /\ t.type = "FULL" => t.charge = 0
            /\ SaneAmounts => t.refund >= 0 /\ t.charge >= 0

\* Waiting never pays: as time passes the refund of the same condition does not grow.
RefundNeverGrows ==
    [][now' > now /\ SaneAmounts =>
        \A p \in FirstCondition : Terms(p)'.refund <= Terms(p).refund]_vars

\* In a table that is not empty, one more condition never prolongs the time in
\* which cancelling is free: the longest delay is the one that counts.
MoreConditionsNoLater ==
    [][conditions # {} /\ conditions \subseteq conditions' /\ stay' = stay =>
        \A p \in FirstCondition, q \in FirstCondition' : FreeUntil(q) <= FreeUntil(p)]_vars

\* A customer who was shown that cancelling is free until some hour, and cancels
\* by that hour, pays nothing unless staff have brought the deadline forward.
PreviewKept ==
    [][/\ summary' # summary
       /\ preview # None
       /\ preview.type = "FULL"
       /\ now <= preview.freeUntil
       /\ \A p \in FirstCondition : FreeUntil(p) >= preview.freeUntil
       => summary'.charge = 0]_vars

\* A preview shown before the deadline is worth nothing after it: who cancels
\* late a booking that costs something is charged something, if the condition has
\* a fee or the night a price.
LateIsCharged ==
    [][/\ summary' # summary
       /\ stay.total > 0
       /\ \A p \in FirstCondition :
            /\ now > FreeUntil(p)
            /\ price > 0 \/ (p # None /\ p.fraisAnnulation > 0)
       => summary'.charge > 0]_vars
=============================================================================
