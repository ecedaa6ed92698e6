--------------------------- MODULE PaymentMethods ---------------------------
(***************************************************************************)
(* The saved cards of one account: the table of payment methods, the       *)
(* account's customer at Stripe with the default card Stripe holds for it, *)
(* and the requests of AccountService that keep the two in step.           *)
(*                                                                         *)
(* A request is a chain of steps, one per await.  A transaction of the     *)
(* default isolation level is two of them: its first statements choose the *)
(* rows it will write (an UPDATE ... WHERE sees what was committed when it *)
(* began), its commit writes them.  A setup session saves one card, and    *)
(* the card has the session's name.  A request about another account's     *)
(* session or card, or of an unverified account, is turned down and is not *)
(* a step.                                                                 *)
(***************************************************************************)
EXTENDS Naturals

CONSTANTS
    Cards,       \* setup sessions at Stripe, and the card each of them saves
    Customers,   \* customers Stripe may create
    Handlers,    \* requests in flight at once (bound)
    MaxFaults,   \* requests lost to a restart or to an error of Stripe (bound)
    None

ASSUME NoneAssumption == None \notin Cards /\ None \notin Customers
ASSUME BoundsAssumption == MaxFaults \in Nat

VARIABLES
    row,         \* the table; createdAt is kept as the cards saved before
    customer,    \* account.stripeCustomerId
    stripe,      \* sessions, attached cards, customers and their default card
    job,         \* the requests
    crossed,     \* requests another commit has crossed since they first read
    ordered,     \* whether the last word on the default card was not crossed
    calm,        \* whether requests have come one at a time so far
    behind,      \* whether a changed default has not reached Stripe since
    faults

vars == <<row, customer, stripe, job, crossed, ordered, calm, behind, faults>>

-----------------------------------------------------------------------------
(* The table. *)

NoRow == [saved |-> FALSE, isDefault |-> FALSE, older |-> {}]
Saved(c) == row[c].saved
Rows == {c \in Cards : Saved(c)}
Defaults == {c \in Rows : row[c].isDefault}

\* The row of c as it is written now: createdAt is set once, on creation.
Written(c, default) ==
    [saved |-> TRUE, isDefault |-> default, older |-> IF Saved(c) THEN row[c].older ELSE Rows]

\* The table with the cards of out no longer default and the card c the default.
Claimed(c, out) ==
    [d \in Cards |-> IF d = c THEN Written(c, TRUE)
                     ELSE IF d \in out THEN [row[d] EXCEPT !.isDefault = FALSE]
                     ELSE row[d]]

\* The table without the card c and with the card f, if any, as the default.
Removed(c, f) ==
    [d \in Cards |-> IF d = c THEN NoRow
                     ELSE [row[d] EXCEPT !.isDefault = @ \/ d = f, !.older = @ \ {c}]]

\* The remaining card that was saved first: orderBy createdAt asc.
Oldest(c) == {d \in Rows \ {c} : row[d].older \subseteq {c}}

-----------------------------------------------------------------------------
(* The requests. *)

Quiet == [at |-> "idle", op |-> "none", c |-> None, cust |-> None, want |-> FALSE,
          was |-> FALSE, new |-> FALSE, out |-> {}, next |-> None]

Jobs == [at : {"idle", "customer", "customer_create", "customer_save", "session", "method",
               "attach", "open", "commit", "sync", "detach"},
         op : {"none", "setup", "confirm", "update", "remove"},
         c : Cards \cup {None}, cust : Customers \cup {None},
         want : BOOLEAN,         \* shouldBeDefault
         was : BOOLEAN,          \* existing.isDefault, as read
         new : BOOLEAN,          \* whether the row is to be created
         out : SUBSET Cards,     \* the default cards the transaction saw
         next : Cards \cup {None}]  \* the card to hand to Stripe as the default

StripeStates == {"none", "open", "complete"}

TypeOK ==
    /\ row \in [Cards -> [saved : BOOLEAN, isDefault : BOOLEAN, older : SUBSET Cards]]
    /\ \A c \in Cards : row[c].older \subseteq Rows /\ (Saved(c) \/ row[c] = NoRow)
    /\ customer \in Customers \cup {None}
    /\ stripe \in [session : [Cards -> [state : StripeStates, cust : Customers \cup {None}, want : BOOLEAN]],
                   holder : [Cards -> Customers \cup {"loose", "detached"}],
                   customers : SUBSET Customers,
                   default : [Customers -> Cards \cup {None}]]
    /\ job \in [Handlers -> Jobs]
    /\ crossed \subseteq Handlers
    /\ ordered \in BOOLEAN /\ calm \in BOOLEAN /\ behind \in BOOLEAN
    /\ faults \in 0 .. MaxFaults

Init ==
    /\ row = [c \in Cards |-> NoRow]
    /\ customer = None
    /\ stripe = [session |-> [c \in Cards |-> [state |-> "none", cust |-> None, want |-> FALSE]],
                 holder |-> [c \in Cards |-> "loose"],
                 customers |-> {},
                 default |-> [k \in Customers |-> None]]
    /\ job = [h \in Handlers |-> Quiet]
    /\ crossed = {}
    /\ ordered = TRUE
    /\ calm = TRUE
    /\ behind = FALSE
    /\ faults = 0

Idle(h) == job[h].at = "idle"
At(h, at, op) == job[h].at = at /\ job[h].op = op
Step(h, j) == job' = [job EXCEPT ![h] = j]
Moves(h, at) == Step(h, [job[h] EXCEPT !.at = at])
Ends(h) == Step(h, Quiet)

\* A request begins to read the table with a view to writing it, or gives up.
Reads(h) == crossed' = crossed \ {h}
OtherReaders(h) ==
    {g \in Handlers \ {h} : job[g].at = "commit" \/ At(g, "open", "remove")}

Tables == <<row, crossed, ordered>>

Begins(h, j) ==
    /\ Idle(h)
    /\ Step(h, j)
    /\ calm' = (calm /\ \A g \in Handlers : Idle(g))

\* A commit: the default is in order after it if nothing crossed it, and it
\* either says anew which card is the default or found the table in order.
Commits(h, claims) ==
    /\ crossed' = (crossed \ {h}) \cup OtherReaders(h)
    /\ ordered' = (h \notin crossed /\ (ordered \/ claims))

-----------------------------------------------------------------------------
(* createPaymentMethodSetupSession and ensureStripeCustomer. *)

\* dto.isDefault ?? account.paymentMethods.length === 0.
ShouldBeDefault(asked) == IF asked = "unsaid" THEN Rows = {} ELSE asked = "yes"

\* A request takes a name c that no other has for the session it will make.
BeginSetup(h, c) ==
    /\ stripe.session[c].state = "none"
    /\ \A g \in Handlers : job[g].c # c
    /\ \E asked \in {"yes", "no", "unsaid"} :
        Begins(h, [Quiet EXCEPT !.at = "customer", !.op = "setup", !.c = c,
                                !.want = ShouldBeDefault(asked)])
    /\ UNCHANGED <<Tables, customer, stripe, behind, faults>>

AfterCustomer(h) == IF job[h].op = "setup" THEN "session" ELSE "method"

\* Mutant: the customer is not looked for first.
FindCustomerBlind(h) ==
    /\ job[h].at = "customer"
    /\ Step(h, IF stripe.customers # Customers
               THEN [job[h] EXCEPT !.at = "customer_create"]
               ELSE [job[h] EXCEPT !.at = AfterCustomer(h), !.cust = customer])
    /\ UNCHANGED <<Tables, customer, stripe, calm, behind, faults>>

FindCustomer(h) ==
    /\ job[h].at = "customer"
    /\ Step(h, IF customer = None
               THEN [job[h] EXCEPT !.at = "customer_create"]
               ELSE [job[h] EXCEPT !.at = AfterCustomer(h), !.cust = customer])
    /\ UNCHANGED <<Tables, customer, stripe, calm, behind, faults>>

CreateCustomer(h) ==
    /\ job[h].at = "customer_create"
    /\ \E k \in Customers \ stripe.customers :
        /\ stripe' = [stripe EXCEPT !.customers = @ \cup {k}]
        /\ Step(h, [job[h] EXCEPT !.at = "customer_save", !.cust = k])
    /\ UNCHANGED <<Tables, customer, calm, behind, faults>>

SaveCustomer(h) ==
    /\ job[h].at = "customer_save"
    /\ customer' = job[h].cust
    /\ Moves(h, AfterCustomer(h))
    /\ UNCHANGED <<Tables, stripe, calm, behind, faults>>

CreateSession(h) ==
    /\ At(h, "session", "setup")
    /\ stripe' = [stripe EXCEPT !.session[job[h].c] =
                    [state |-> "open", cust |-> job[h].cust, want |-> job[h].want]]
    /\ Ends(h)
    /\ UNCHANGED <<Tables, customer, calm, behind, faults>>

\* Stripe: the customer enters the card, which is attached then or later.
CompleteSession(c) ==
    /\ stripe.session[c].state = "open"
    /\ \E k \in {"loose", stripe.session[c].cust} :
        stripe' = [stripe EXCEPT !.session[c].state = "complete", !.holder[c] = k]
    /\ UNCHANGED <<Tables, customer, job, calm, behind, faults>>

-----------------------------------------------------------------------------
(* confirmPaymentMethodSetupSession: the page that does it may be loaded   *)
(* again at any time.                                                      *)

BeginConfirm(h, c) ==
    /\ stripe.session[c].state = "complete"
    /\ Begins(h, [Quiet EXCEPT !.at = "customer", !.op = "confirm", !.c = c,
                               !.want = stripe.session[c].want])
    /\ UNCHANGED <<Tables, customer, stripe, behind, faults>>

\* Mutant: a card without a customer is taken for attached.
RetrieveMethodTrusting(h) ==
    /\ At(h, "method", "confirm")
    /\ IF stripe.holder[job[h].c] \in {job[h].cust, "loose"} THEN Moves(h, "open") ELSE Ends(h)
    /\ UNCHANGED <<Tables, customer, stripe, calm, behind, faults>>

\* The card is retrieved; one of another customer is refused.
RetrieveMethod(h) ==
    /\ At(h, "method", "confirm")
    /\ LET holder == stripe.holder[job[h].c] IN
        CASE holder = job[h].cust -> Moves(h, "open")
          [] holder \in {"loose", "detached"} -> Moves(h, "attach")
          [] OTHER -> Ends(h)
    /\ UNCHANGED <<Tables, customer, stripe, calm, behind, faults>>

\* Stripe refuses to attach a card again that was detached.
Attach(h) ==
    /\ At(h, "attach", "confirm")
    /\ \/ /\ stripe.holder[job[h].c] = "loose"
          /\ stripe' = [stripe EXCEPT !.holder[job[h].c] = job[h].cust]
          /\ Moves(h, "open")
       \/ /\ stripe.holder[job[h].c] # "loose"
          /\ Ends(h)
          /\ UNCHANGED stripe
    /\ UNCHANGED <<Tables, customer, calm, behind, faults>>

\* Mutant: a confirmed card always becomes the default.
OpenConfirmAlways(h) ==
    /\ At(h, "open", "confirm")
    /\ LET c == job[h].c IN
        Step(h, [job[h] EXCEPT !.at = "commit", !.new = ~Saved(c), !.want = TRUE, !.out = Defaults])
    /\ Reads(h)
    /\ UNCHANGED <<row, ordered, customer, stripe, calm, behind, faults>>

OpenConfirm(h) ==
    /\ At(h, "open", "confirm")
    /\ LET c == job[h].c IN
        Step(h, [job[h] EXCEPT !.at = "commit", !.new = ~Saved(c), !.was = row[c].isDefault,
                               !.want = @ \/ Rows = {},
                               !.out = IF job[h].want THEN Defaults ELSE {}])
    /\ Reads(h)
    /\ UNCHANGED <<row, ordered, customer, stripe, calm, behind, faults>>

\* An insert of a row that is there by now, or an update of one that is gone,
\* fails the transaction.
RollsBack(h) == job[h].new = Saved(job[h].c)

CommitConfirm(h) ==
    /\ At(h, "commit", "confirm")
    /\ ~RollsBack(h)
    /\ LET c == job[h].c IN
        /\ row' = IF job[h].want \/ job[h].was
                  THEN Claimed(c, job[h].out)
                  ELSE [row EXCEPT ![c] = Written(c, FALSE)]
        /\ IF row'[c].isDefault
           THEN Step(h, [Quiet EXCEPT !.at = "sync", !.op = "confirm", !.c = c, !.next = c])
           ELSE Ends(h)
    /\ Commits(h, stripe.session[job[h].c].want)
    /\ UNCHANGED <<customer, stripe, calm, behind, faults>>

-----------------------------------------------------------------------------
(* updatePaymentMethod, with isDefault true: anything else changes nothing. *)

BeginUpdate(h, c) ==
    /\ Saved(c)
    /\ Begins(h, [Quiet EXCEPT !.at = "open", !.op = "update", !.c = c])
    /\ UNCHANGED <<Tables, customer, stripe, behind, faults>>

OpenUpdate(h) ==
    /\ At(h, "open", "update")
    /\ Step(h, [job[h] EXCEPT !.at = "commit", !.out = Defaults \ {job[h].c}])
    /\ Reads(h)
    /\ UNCHANGED <<row, ordered, customer, stripe, calm, behind, faults>>

CommitUpdate(h) ==
    /\ At(h, "commit", "update")
    /\ ~RollsBack(h)
    /\ row' = Claimed(job[h].c, job[h].out)
    /\ Step(h, [Quiet EXCEPT !.at = "sync", !.op = "update", !.c = job[h].c, !.next = job[h].c])
    /\ Commits(h, TRUE)
    /\ UNCHANGED <<customer, stripe, calm, behind, faults>>

-----------------------------------------------------------------------------
(* removePaymentMethod: whether the card was the default is read before    *)
(* the transaction.                                                        *)

BeginRemove(h, c) ==
    /\ Saved(c)
    /\ Begins(h, [Quiet EXCEPT !.at = "open", !.op = "remove", !.c = c, !.was = row[c].isDefault])
    /\ Reads(h)
    /\ UNCHANGED <<row, ordered, customer, stripe, behind, faults>>

\* Mutant: the next default is not chosen.
OpenRemoveOnly(h) ==
    /\ At(h, "open", "remove")
    /\ Moves(h, "commit")
    /\ UNCHANGED <<Tables, customer, stripe, calm, behind, faults>>

\* The card is deleted and, if it was the default, the next one chosen.
OpenRemove(h) ==
    /\ At(h, "open", "remove")
    /\ \E f \in IF job[h].was /\ Oldest(job[h].c) # {} THEN Oldest(job[h].c) ELSE {None} :
        Step(h, [job[h] EXCEPT !.at = "commit", !.next = f])
    /\ UNCHANGED <<Tables, customer, stripe, calm, behind, faults>>

CommitRemove(h) ==
    /\ At(h, "commit", "remove")
    /\ ~RollsBack(h)
    /\ job[h].next \in Rows \cup {None}
    /\ row' = Removed(job[h].c, job[h].next)
    /\ Step(h, [job[h] EXCEPT !.at = IF job[h].was THEN "sync" ELSE "detach", !.was = FALSE])
    /\ Commits(h, FALSE)
    /\ UNCHANGED <<customer, stripe, calm, behind, faults>>

\* The transaction of a confirmation, an update or a removal fails.
Rollback(h) ==
    /\ job[h].at = "commit"
    /\ \/ RollsBack(h)
       \/ job[h].op = "remove" /\ job[h].next \in Cards \ Rows
    /\ Ends(h)
    /\ Reads(h)
    /\ UNCHANGED <<row, ordered, customer, stripe, calm, behind, faults>>

-----------------------------------------------------------------------------
(* syncStripeDefaultPaymentMethod; the detachment of a removed card. *)

AfterSync(h) == IF job[h].op = "remove" THEN Moves(h, "detach") ELSE Ends(h)

Accepts(c) == c \in {d \in Cards : stripe.holder[d] = customer} \cup {None}

\* Mutant: Stripe is told of a new default only when there is one.
SyncSome(h) ==
    /\ job[h].at = "sync"
    /\ IF job[h].next = None \/ ~Accepts(job[h].next)
       THEN UNCHANGED stripe
       ELSE stripe' = [stripe EXCEPT !.default[customer] = job[h].next]
    /\ AfterSync(h)
    /\ behind' = FALSE
    /\ UNCHANGED <<Tables, customer, calm, faults>>

Sync(h) ==
    /\ job[h].at = "sync"
    /\ \/ /\ Accepts(job[h].next)
          /\ stripe' = [stripe EXCEPT !.default[customer] = job[h].next]
          /\ AfterSync(h)
          /\ behind' = FALSE
       \/ /\ ~Accepts(job[h].next)   \* Stripe refuses, the request throws
          /\ Ends(h)
          /\ behind' = TRUE
          /\ UNCHANGED stripe
    /\ UNCHANGED <<Tables, customer, calm, faults>>

\* A failure is logged and forgotten.
Detach(h) ==
    /\ At(h, "detach", "remove")
    /\ \/ stripe' = [stripe EXCEPT !.holder[job[h].c] = "detached"]
       \/ UNCHANGED stripe
    /\ Ends(h)
    /\ UNCHANGED <<Tables, customer, calm, behind, faults>>

\* The process restarts, or Stripe answers with an error: what was awaited
\* is done or not, the rest is not.
Fault(h) ==
    /\ ~Idle(h)
    /\ faults < MaxFaults
    /\ faults' = faults + 1
    /\ behind' = (behind \/ job[h].at = "sync")
    /\ Ends(h)
    /\ Reads(h)
    /\ UNCHANGED <<row, ordered, customer, stripe, calm>>

-----------------------------------------------------------------------------
Request(h) ==
    \E c \in Cards : BeginSetup(h, c) \/ BeginConfirm(h, c) \/ BeginUpdate(h, c) \/ BeginRemove(h, c)

Work(h) ==
    \/ FindCustomer(h) \/ CreateCustomer(h) \/ SaveCustomer(h) \/ CreateSession(h)
    \/ RetrieveMethod(h) \/ Attach(h) \/ OpenConfirm(h) \/ CommitConfirm(h)
    \/ OpenUpdate(h) \/ CommitUpdate(h)
    \/ OpenRemove(h) \/ CommitRemove(h) \/ Rollback(h)
    \/ Sync(h) \/ Detach(h)

Next ==
    \/ \E h \in Handlers : Request(h) \/ Work(h) \/ Fault(h)
    \/ \E c \in Cards : CompleteSession(c)

Spec == Init /\ [][Next]_vars

-----------------------------------------------------------------------------
(* Properties. *)

\* Exactly one of the saved cards is the default, once the last word on the
\* default was not crossed by another commit: confirmations, updates and
\* removals that run one after the other keep it so, a crash at any point
\* does not break it, and a choice of a default repairs what a race broke.
OneDefault == ordered => Rows = {} \/ \E c \in Cards : Defaults = {c}

\* With requests one at a time, Stripe's default card is the default card of the
\* table whenever nothing is in flight, whatever requests are lost, but for one
\* window: a request lost between the commit that changed the default and
\* syncStripeDefaultPaymentMethod leaves Stripe behind, until the default is
\* chosen anew or moves again, which makes up for it.
StripeInStep ==
    (calm /\ ~behind /\ customer # None /\ \A h \in Handlers : Idle(h)) =>
        Defaults = {stripe.default[customer]} \ {None}

\* With requests one at a time, and however many of them are lost, the account
\* keeps the customer its setup sessions were made for: no card it entered is
\* refused as another customer's.
SessionsOfCustomer ==
    calm => \A c \in Cards : stripe.session[c].state # "none" => stripe.session[c].cust = customer

\* With requests one at a time, every saved card is attached to the account's
\* customer at Stripe, so that it can be charged: attached before it is saved,
\* deleted before it is detached, whatever is lost in between.
SavedIsAttached == calm => \A c \in Rows : stripe.holder[c] = customer

\* A card in good order stops being the default only by its own removal or by
\* a request that claims the default for another card.
DefaultStays ==
    [][\A c \in Cards :
        (ordered /\ ordered' /\ Defaults = {c} /\ Defaults' # {c}) =>
            \/ ~Saved(c)'
            \/ \E h \in Handlers :
                /\ job[h].at = "commit" /\ job[h].c # c
                /\ \/ job[h].op = "update"
                   \/ (job[h].op = "confirm" /\ stripe.session[job[h].c].want)]_vars
=============================================================================
