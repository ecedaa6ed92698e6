----------------------------- MODULE Reminders -----------------------------
(***************************************************************************)
(* The two loops of NotificationService that a timer starts: the reminders *)
(* before a stay and the review requests after it.  A loop takes a list of *)
(* bookings in one query and then, for one booking after the other, looks  *)
(* for a notification of its own in the account's inbox, writes one, and   *)
(* mails.  The inbox is its only memory: what is not in it is sent (again).*)
(*                                                                         *)
(* The timer starts the loops whether or not the last round has ended: as  *)
(* many rounds may be under way as there are Loops of a kind.              *)
(***************************************************************************)
EXTENDS Integers, FiniteSets

CONSTANTS
    Bookings,
    AccountOf, HotelOf,  \* the account and the hotel of each booking
    TakenFor,            \* hotels whose reminders are taken for those of a hotel
    CheckInLoops,        \* rounds of sendCheckInReminders at once (bound)
    ReviewLoops,         \* rounds of sendPostStayReviewRequests at once (bound)
    Ahead,               \* 24 hours, in steps of the clock
    Lookback,            \* 7 days, in steps of the clock
    CheckIns,            \* the times a stay may begin; each lasts one step
    Horizon,             \* the last time (bound)
    MaxSent,             \* notifications and mails are counted up to this (bound)
    MaxEvents            \* changes by customers and staff, and broken rounds (bound)

Loops == CheckInLoops \cup ReviewLoops
Accounts == {AccountOf[b] : b \in Bookings}
Hotels == {HotelOf[b] : b \in Bookings}
Statuts == {"EN_ATTENTE", "CONFIRMEE", "ANNULEE", "TERMINEE"}

ASSUME LoopsAssumption == CheckInLoops \cap ReviewLoops = {}
ASSUME HotelsAssumption == \A h \in Hotels : h \in TakenFor[h]
ASSUME TimesAssumption ==
    /\ Ahead \in Nat /\ Lookback \in Nat /\ Horizon \in Nat
    /\ MaxSent \in Nat \ {0} /\ MaxEvents \in Nat
    /\ CheckIns \subseteq Nat

VARIABLES
    now,
    booking,   \* statut, begin, and whether it has been reviewed
    account,   \* whether it is active and wants notifications of reservations
    inbox,     \* how many notifications of each text the accounts have
    mailed,    \* how many mails have been sent with each text
    loop,      \* the rounds under way
    rounds,    \* kinds of loop that completed a round since the clock last moved
    due,       \* bookings to be reminded of, all the time since the clock last moved
    tidied,    \* the texts of which an account has deleted a notification
    raced,     \* the texts looked for while another round was about to write them
    events     \* changes and broken rounds so far

vars == <<now, booking, account, inbox, mailed, loop, rounds, due, tidied, raced, events>>

-----------------------------------------------------------------------------
\* What a notification says: "at <hotel> is on <day>" and "review request <code>",
\* each to one account.
ReminderText(b, from) == [kind |-> "reminder", account |-> AccountOf[b], hotel |-> HotelOf[b], from |-> from]
ReviewText(b) == [kind |-> "review", booking |-> b]

Texts == {ReminderText(b, from) : b \in Bookings, from \in CheckIns} \cup {ReviewText(b) : b \in Bookings}

\* That a notification says u is taken to say t: a reminder does when it contains
\* "at <hotel> is on <day>", that is, when the name of its hotel is this hotel's
\* name, in capitals or not, or ends with it after an "at", as "Flat North" with
\* "North".
Covers(u, t) ==
    \/ u = t
    \/ /\ u.kind = "reminder" /\ t.kind = "reminder"
       /\ u.account = t.account /\ u.from = t.from
       /\ u.hotel \in TakenFor[t.hotel]

To(b) == booking[b].from + 1

\* Mutant: only what has begun is asked for.
RemindTooLate == {b \in Bookings :
    /\ booking[b].statut = "CONFIRMEE"
    /\ now >= booking[b].from /\ booking[b].from <= now + Ahead}

\* The bookings that sendCheckInReminders asks for.
ToRemind == {b \in Bookings :
    /\ booking[b].statut = "CONFIRMEE"
    /\ now < booking[b].from /\ booking[b].from <= now + Ahead}

\* The bookings that sendPostStayReviewRequests asks for.
ToAsk == {b \in Bookings :
    /\ booking[b].statut \in {"CONFIRMEE", "TERMINEE"}
    /\ now - Lookback <= To(b) /\ To(b) < now
    /\ ~booking[b].reviewed}

\* A booking on the list of a round, with the text that belongs to it.
Entry(b, text) == [b |-> b, text |-> text]
Entries == {Entry(b, text) : b \in Bookings, text \in Texts}

Quiet == [at |-> "idle", list |-> {}, cur |-> {}]

TypeOK ==
    /\ now \in 0 .. Horizon
    /\ booking \in [Bookings -> [statut : Statuts, from : CheckIns, reviewed : BOOLEAN]]
    /\ account \in [Accounts -> [actif : BOOLEAN, wants : BOOLEAN]]
    /\ inbox \in [Texts -> 0 .. MaxSent]
    /\ mailed \in [Texts -> 0 .. MaxSent]
    /\ loop \in [Loops -> [at : {"idle", "look", "notify", "mail"},
                           list : SUBSET Entries,
                           cur : SUBSET Entries]]
    /\ rounds \subseteq {"reminder", "review"}
    /\ due \subseteq Bookings
    /\ tidied \subseteq Texts
    /\ raced \subseteq Texts
    /\ events \in 0 .. MaxEvents

Init ==
    /\ now = 0
    /\ booking \in [Bookings -> [statut : {"EN_ATTENTE", "CONFIRMEE"}, from : CheckIns, reviewed : {FALSE}]]
    /\ account = [a \in Accounts |-> [actif |-> TRUE, wants |-> TRUE]]
    /\ inbox = [t \in Texts |-> 0]
    /\ mailed = [t \in Texts |-> 0]
    /\ loop = [r \in Loops |-> Quiet]
    /\ rounds = {}
    /\ due = {}
    /\ tidied = {}
    /\ raced = {}
    /\ events = 0

Happens == events < MaxEvents /\ events' = events + 1

Kind(r) == IF r \in CheckInLoops THEN "reminder" ELSE "review"
Goes(r, at) == loop' = [loop EXCEPT ![r].at = at]
\* On to the next entry of the list.
Drops(r, e) == loop' = [loop EXCEPT ![r] = [at |-> "look", list |-> @.list \ {e}, cur |-> {}]]
\* It is not there: the entry is written next, perhaps by two rounds at once.
Takes(r, e) ==
    /\ loop' = [loop EXCEPT ![r].at = "notify", ![r].cur = {e}]
    /\ raced' = IF \E s \in Loops : loop[s].at = "notify" /\ \E d \in loop[s].cur : d.text = e.text
                THEN raced \cup {e.text}
                ELSE raced
AddOne(f, t) == [f EXCEPT ![t] = IF @ < MaxSent THEN @ + 1 ELSE @]

-----------------------------------------------------------------------------
(* A round.                                                                 *)

Begin(r) ==
    /\ loop[r].at = "idle"
    /\ loop' = [loop EXCEPT ![r] =
          [at |-> "look",
           list |-> IF r \in CheckInLoops
                    THEN {Entry(b, ReminderText(b, booking[b].from)) : b \in ToRemind}
                    ELSE {Entry(b, ReviewText(b)) : b \in ToAsk},
           cur |-> {}]]
    /\ UNCHANGED <<now, booking, account, inbox, mailed, rounds, due, tidied, raced, events>>

\* Mutant: whatever is on the list is sent.
LookAway(r) ==
    /\ loop[r].at = "look"
    /\ \E e \in loop[r].list : Takes(r, e)
    /\ UNCHANGED <<now, booking, account, inbox, mailed, rounds, due, tidied, events>>

\* Is it in the inbox already?
Look(r) ==
    /\ loop[r].at = "look"
    /\ \E e \in loop[r].list :
          IF \E u \in Texts : inbox[u] > 0 /\ Covers(u, e.text)
          THEN Drops(r, e) /\ UNCHANGED raced
          ELSE Takes(r, e)
    /\ UNCHANGED <<now, booking, account, inbox, mailed, rounds, due, tidied, events>>

\* notifyAccount: nothing for an account that is closed or does not want it.
NotifyCheckIn(r) ==
    /\ r \in CheckInLoops
    /\ loop[r].at = "notify"
    /\ \E e \in loop[r].cur :
          LET a == account[AccountOf[e.b]]
          IN  IF a.actif /\ a.wants
              THEN inbox' = AddOne(inbox, e.text) /\ Goes(r, "mail")
              ELSE Drops(r, e) /\ UNCHANGED inbox
    /\ UNCHANGED <<now, booking, account, mailed, rounds, due, tidied, raced, events>>

\* A review request is put into the inbox first, whatever the account is.
NotifyReview(r) ==
    /\ r \in ReviewLoops
    /\ loop[r].at = "notify"
    /\ \E e \in loop[r].cur :
          /\ inbox' = AddOne(inbox, e.text)
          /\ IF account[AccountOf[e.b]].actif THEN Goes(r, "mail") ELSE Drops(r, e)
    /\ UNCHANGED <<now, booking, account, mailed, rounds, due, tidied, raced, events>>

\* A mail that cannot be sent is logged and forgotten.
Mail(r) ==
    /\ loop[r].at = "mail"
    /\ \E e \in loop[r].cur :
          /\ mailed' = AddOne(mailed, e.text) \/ UNCHANGED mailed
          /\ Drops(r, e)
    /\ UNCHANGED <<now, booking, account, inbox, rounds, due, tidied, raced, events>>

Finish(r) ==
    /\ loop[r].at = "look"
    /\ loop[r].list = {}
    /\ loop' = [loop EXCEPT ![r] = Quiet]
    /\ rounds' = rounds \cup {Kind(r)}
    /\ UNCHANGED <<now, booking, account, inbox, mailed, due, tidied, raced, events>>

\* A query throws, which ends the round, or the server restarts.
Break(r) ==
    /\ loop[r].at # "idle"
    /\ Happens
    /\ loop' = [loop EXCEPT ![r] = Quiet]
    /\ UNCHANGED <<now, booking, account, inbox, mailed, rounds, due, tidied, raced>>

Restart ==
    /\ \E r \in Loops : loop[r].at # "idle"
    /\ Happens
    /\ loop' = [r \in Loops |-> Quiet]
    /\ UNCHANGED <<now, booking, account, inbox, mailed, rounds, due, tidied, raced>>

-----------------------------------------------------------------------------
(* Customers, staff and the clock.                                          *)

Changes(b, row) ==
    /\ Happens
    /\ booking' = [booking EXCEPT ![b] = row]
    /\ due' = due \ {b}
    /\ UNCHANGED <<now, account, inbox, mailed, loop, rounds, tidied, raced>>

SetStatut(b, s) == s # booking[b].statut /\ Changes(b, [booking[b] EXCEPT !.statut = s])
Move(b, from) == from # booking[b].from /\ Changes(b, [booking[b] EXCEPT !.from = from])
\* Its review is written or removed.
Review(b) == Changes(b, [booking[b] EXCEPT !.reviewed = ~@])

SetAccount(a, actif, wants) ==
    /\ account[a] # [actif |-> actif, wants |-> wants]
    /\ Happens
    /\ account' = [account EXCEPT ![a] = [actif |-> actif, wants |-> wants]]
    /\ due' = {b \in due : AccountOf[b] # a}
    /\ UNCHANGED <<now, booking, inbox, mailed, loop, rounds, tidied, raced>>

\* The account deletes one of its notifications.
DeleteNotification(t) ==
    /\ inbox[t] > 0
    /\ Happens
    /\ inbox' = [inbox EXCEPT ![t] = @ - 1]
    /\ tidied' = tidied \cup {t}
    /\ UNCHANGED <<now, booking, account, mailed, loop, rounds, due, raced>>

\* The clock moves when a round of each kind, begun since it last did, has ended:
\* the timer goes off every 15 minutes, and a step of the clock is hours.
Tick ==
    /\ now < Horizon
    /\ \A r \in Loops : loop[r].at = "idle"
    /\ rounds = {"reminder", "review"}
    /\ now' = now + 1
    /\ rounds' = {}
    /\ due' = {b \in Bookings :
                  /\ booking[b].statut = "CONFIRMEE"
                  /\ now' < booking[b].from /\ booking[b].from <= now' + Ahead
                  /\ account[AccountOf[b]] = [actif |-> TRUE, wants |-> TRUE]}
    /\ UNCHANGED <<booking, account, inbox, mailed, loop, tidied, raced, events>>

Next ==
    \/ \E r \in Loops :
        \/ Begin(r)
        \/ Look(r)
        \/ NotifyCheckIn(r)
        \/ NotifyReview(r)
        \/ Mail(r)
        \/ Finish(r)
        \/ Break(r)
    \/ Restart
    \/ \E b \in Bookings :
        \/ \E s \in Statuts : SetStatut(b, s)
        \/ \E from \in CheckIns : Move(b, from)
        \/ Review(b)
    \/ \E a \in Accounts, actif, wants \in BOOLEAN : SetAccount(a, actif, wants)
    \/ \E t \in Texts : DeleteNotification(t)
    \/ Tick

Spec == Init /\ [][Next]_vars

-----------------------------------------------------------------------------
(* Properties, for any number of rounds at a time.                          *)

\* Nobody is mailed the same thing twice, whatever rounds overlap or break off and
\* whatever bookings are moved, cancelled and confirmed again.  Two things undo it:
\* that the account deletes the notification, which is all the service remembers,
\* and that a second round looks for it after a first found it missing and before
\* that one has written it.
MailedOnce == \A t \in Texts : t \notin tidied \cup raced => mailed[t] <= 1

\* There is, or was until its account deleted it, a notification that is taken for t.
Found(t) == \E u \in Texts : Covers(u, t) /\ (inbox[u] > 0 \/ u \in tidied)

\* A confirmed booking that stays as it is, of an account that wants to hear of
\* it, has a reminder in the inbox, or one that the service takes for it, once a
\* full round has passed since it came within a day of its check-in, though
\* bookings of one day share a reminder.
RemindedInTime == [][now' > now => \A b \in due : Found(ReminderText(b, booking[b].from))]_vars
=============================================================================
