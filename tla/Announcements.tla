--------------------------- MODULE Announcements ---------------------------
(***************************************************************************)
(* What customers are told: NotificationService's notices and the mails    *)
(* that go with them, for new hotels and offers, for a booking's status    *)
(* and receipt, and for a complaint; ReclamationService, whose updates are *)
(* announced; MailService, which does without its store of templates when  *)
(* the table was missing at its start.                                     *)
(*                                                                         *)
(* A request is a job with one delivery per recipient; a delivery is a     *)
(* chain of steps, one per await that reads or writes a table or sends the *)
(* mail.  The deliveries of a job run side by side and the job waits for   *)
(* all of them.  There is one complaint.  The calls that announce a        *)
(* booking's status are those of Booking; here they may name any status.   *)
(***************************************************************************)
EXTENDS Naturals

CONSTANTS
    Accounts,
    Willing,     \* those that have asked for promotions
    Guests,      \* those whose bookings are announced
    Owner,       \* the customer who complains
    Statuses,    \* booking statuses that are announced
    Promotions,  \* "hotel", "offer", or both: what is announced to everyone
    Statuts,     \* statuses that staff give to the complaint
    Reponses,    \* answers that staff write to it
    Handlers,    \* requests in flight at once (bound)
    MaxFaults,   \* statements that fail, and restarts (bound)
    MaxEdits,    \* changes of an account by its customer or by staff (bound)
    None

ASSUME AccountsAssumption == Owner \in Accounts /\ Willing \subseteq Accounts /\ Guests \subseteq Accounts
ASSUME PromotionsAssumption == Promotions \subseteq {"hotel", "offer"}
ASSUME NoneAssumption == None \notin Accounts /\ None \notin Reponses
ASSUME FaultsAssumption == MaxFaults \in Nat /\ MaxEdits \in Nat

VARIABLES
    account,    \* what holds of each: actif; the preferences of the profile, or what stands for them
    store,      \* whether the table of templates is there, and what the service believes
    complaint,
    job,
    delivery,   \* of each job to each account
    rows,       \* ghost: notifications each job has put into each inbox
    steady,     \* ghost: accounts wanted all through a job, and what each lacks all through
    told,       \* the complaint's status in the customer's newest notification
    crossed,    \* ghost: complaint requests that overlapped another
    settled,    \* ghost: whether the last change of status was told uncrossed
    faults, edits

vars == <<account, store, complaint, job, delivery, rows, steady, told, crossed, settled,
          faults, edits>>

StatutsReclamation == {"OUVERTE", "EN_COURS", "RESOLUE", "FERMEE"}
ASSUME StatutsAssumption == Statuts \subseteq StatutsReclamation
Complaints == {"received", "updating", "updated"}
Topics == {"hotel", "offer", "status", "receipt"} \cup Complaints

\* The templates of the messages; a status that is neither confirmed nor
\* cancelled goes out with the first of them.
Slug(j) ==
    CASE j.topic = "hotel" -> "promotion.new-destination"
      [] j.topic = "offer" -> "promotion.new-offer"
      [] j.topic = "status" /\ j.statut = "ANNULEE" -> "reservation.cancelled"
      [] j.topic = "status" /\ j.statut # "ANNULEE" -> "reservation.confirmed"
      [] j.topic = "receipt" -> "reservation.payment-receipt"
      [] j.topic = "received" -> "complaint.received"
      [] j.topic = "updated" /\ j.statut = "FERMEE" -> "complaint.closed"
      [] OTHER -> "complaint.updated"

Promotion(j) == j.topic \in {"hotel", "offer"}
BypassPreferences(j) == j.topic \in Complaints \cup {"receipt"}
MailOnly(j) == j.topic = "receipt"
Alerts(j) == j.topic \in {"hotel", "received"}

Quiet == [at |-> "idle", topic |-> "status", statut |-> None, reponse |-> None]
NoDelivery == [a \in Accounts |-> "none"]
Ended == {"none", "done", "failed"}
Traits == {"actif", "promotion", "reservation", "likes"}
Conditions == {"actif", "promotion", "likes"}
NoSteady == [wanted |-> {}, lacks |-> [a \in Accounts |-> {}]]

TypeOK ==
    /\ account \in [Accounts -> SUBSET Traits]
    /\ store \in [table : BOOLEAN, flag : {"up", "down"}]
    /\ store.flag = "up" => store.table
    /\ complaint \in [statut : StatutsReclamation \cup {"none", "removed"}, reponse : Reponses \cup {None}]
    /\ job \in [Handlers -> [at : {"idle", "recipients", "write", "deliver", "alert"}, topic : Topics,
                             statut : Statuses \cup StatutsReclamation \cup {None},
                             reponse : Reponses \cup {None}]]
    /\ delivery \in [Handlers -> [Accounts -> {"account", "row", "mail"} \cup Ended]]
    /\ \A h \in Handlers : job[h].at # "deliver" => delivery[h] = NoDelivery
    /\ rows \in [Handlers -> [Accounts -> 0 .. 2]]
    /\ steady \in [Handlers -> [wanted : SUBSET Accounts, lacks : [Accounts -> SUBSET Conditions]]]
    /\ told \in StatutsReclamation \cup {None}
    /\ crossed \subseteq Handlers /\ settled \in BOOLEAN
    /\ faults \in 0 .. MaxFaults /\ edits \in 0 .. MaxEdits

Init ==
    /\ account = [a \in Accounts |-> IF a \in Willing THEN Traits ELSE Traits \ {"promotion"}]
    /\ store \in {[table |-> TRUE, flag |-> "up"], [table |-> FALSE, flag |-> "down"]}
    /\ complaint = [statut |-> "none", reponse |-> None]
    /\ job = [h \in Handlers |-> Quiet]
    /\ delivery = [h \in Handlers |-> NoDelivery]
    /\ rows = [h \in Handlers |-> [a \in Accounts |-> 0]]
    /\ steady = [h \in Handlers |-> NoSteady]
    /\ told = None /\ crossed = {} /\ settled = TRUE
    /\ faults = 0 /\ edits = 0

Idle(h) == job[h].at = "idle"
At(h, at) == job[h].at = at
Tells == <<told, crossed, settled, complaint>>
Bounds == <<faults, edits>>

Wanted(a) == Conditions \subseteq account[a]

\* The job h ends, and with it what is kept about it.
Ends(h) ==
    /\ job' = [job EXCEPT ![h] = Quiet]
    /\ delivery' = [delivery EXCEPT ![h] = NoDelivery]
    /\ rows' = [rows EXCEPT ![h] = [a \in Accounts |-> 0]]
    /\ steady' = [steady EXCEPT ![h] = NoSteady]
    /\ crossed' = crossed \ {h}

-----------------------------------------------------------------------------
(* The jobs.                                                               *)

Starts(h, j, to) ==
    /\ Idle(h)
    /\ job' = [job EXCEPT ![h] = j]
    /\ delivery' = [delivery EXCEPT ![h] = [a \in Accounts |-> IF a \in to THEN "account" ELSE "none"]]

\* HotelService.create and OffreService.create, once the row is written.
AnnouncePromotion(h, topic) ==
    /\ Starts(h, [Quiet EXCEPT !.at = "recipients", !.topic = topic], {})
    /\ steady' = [steady EXCEPT ![h] = [wanted |-> {a \in Accounts : Wanted(a)},
                                        lacks |-> [a \in Accounts |-> Conditions \ account[a]]]]
    /\ UNCHANGED <<account, store, rows, Tells, Bounds>>

\* Mutant: an account without preferred destinations is offered none.
RecipientsWithoutLikes(h) ==
    /\ At(h, "recipients")
    /\ job' = [job EXCEPT ![h].at = "deliver"]
    /\ delivery' = [delivery EXCEPT ![h] =
                      [a \in Accounts |-> IF "actif" \in account[a] /\ "likes" \notin account[a]
                                       THEN "account" ELSE "none"]]
    /\ UNCHANGED <<account, store, rows, steady, Tells, Bounds>>

\* notifyNewHotel, notifyNewOffer: active accounts with no preferred
\* destinations, or with this one.
Recipients(h) ==
    /\ At(h, "recipients")
    /\ job' = [job EXCEPT ![h].at = "deliver"]
    /\ delivery' = [delivery EXCEPT ![h] =
                      [a \in Accounts |-> IF {"actif", "likes"} \subseteq account[a] THEN "account" ELSE "none"]]
    /\ UNCHANGED <<account, store, rows, steady, Tells, Bounds>>

AnnounceStatus(h, a, statut) ==
    /\ Starts(h, [Quiet EXCEPT !.at = "deliver", !.statut = statut], {a})
    /\ UNCHANGED <<account, store, rows, steady, Tells, Bounds>>

SendPaymentReceipt(h, a) ==
    /\ Starts(h, [Quiet EXCEPT !.at = "deliver", !.topic = "receipt"], {a})
    /\ UNCHANGED <<account, store, rows, steady, Tells, Bounds>>

-----------------------------------------------------------------------------
(* The complaint.                                                          *)

OnComplaint(g) == ~Idle(g) /\ job[g].topic \in Complaints
Crossing(h) ==
    LET others == {g \in Handlers \ {h} : OnComplaint(g)}
    IN  crossed' = IF others = {} THEN crossed \ {h} ELSE crossed \cup others \cup {h}

\* The request may name a status; the table's default is OUVERTE.
CreateComplaint(h, statut) ==
    /\ complaint.statut = "none"
    /\ complaint' = [complaint EXCEPT !.statut = statut]
    /\ Starts(h, [Quiet EXCEPT !.at = "deliver", !.topic = "received", !.statut = statut], {Owner})
    /\ settled' = FALSE /\ Crossing(h)
    /\ UNCHANGED <<account, store, rows, steady, told, Bounds>>

\* update: the complaint as it is before.
ReadComplaint(h) ==
    /\ complaint.statut \in StatutsReclamation
    /\ Starts(h, [at |-> "write", topic |-> "updating",
                  statut |-> complaint.statut, reponse |-> complaint.reponse], {})
    /\ Crossing(h)
    /\ UNCHANGED <<account, store, complaint, rows, steady, told, settled, Bounds>>

\* Mutant: only a new answer is announced.
ShouldNotifyAnswer(h, statut, reponse, new) == reponse # None /\ job[h].reponse # new.reponse

\* The request names a status or an answer, and what is now there differs from
\* what was read before the write.
ShouldNotify(h, statut, reponse, new) ==
    /\ statut # None \/ reponse # None
    /\ job[h].statut # new.statut \/ job[h].reponse # new.reponse

\* A request that names neither changes other fields.
WriteComplaint(h, statut, reponse) ==
    /\ At(h, "write") /\ complaint.statut \in StatutsReclamation
    /\ LET new == [statut |-> IF statut = None THEN complaint.statut ELSE statut,
                   reponse |-> IF reponse = None THEN complaint.reponse ELSE reponse]
       IN  /\ complaint' = new
           /\ \/ /\ ShouldNotify(h, statut, reponse, new)
                 /\ job' = [job EXCEPT ![h] = [at |-> "deliver", topic |-> "updated",
                                               statut |-> new.statut, reponse |-> None]]
                 /\ delivery' = [delivery EXCEPT ![h][Owner] = "account"]
                 /\ settled' = FALSE
                 /\ UNCHANGED <<rows, steady, crossed>>
              \/ /\ ~ShouldNotify(h, statut, reponse, new)
                 /\ settled' = (settled /\ (h \notin crossed \/ new = complaint))
                 /\ Ends(h)
    /\ UNCHANGED <<account, store, told, Bounds>>

MissComplaint(h) ==
    /\ At(h, "write") /\ complaint.statut = "removed"
    /\ Ends(h)
    /\ UNCHANGED <<account, store, told, settled, complaint, Bounds>>

RemoveComplaint ==
    /\ complaint.statut \in StatutsReclamation
    /\ complaint' = [statut |-> "removed", reponse |-> None]
    /\ UNCHANGED <<account, store, job, delivery, rows, steady, told, crossed, settled, Bounds>>

-----------------------------------------------------------------------------
(* notifyAccount: one delivery.                                            *)

Delivers(h, a, stage) == At(h, "deliver") /\ delivery[h][a] = stage
Moves(h, a, stage) == delivery' = [delivery EXCEPT ![h][a] = stage]

\* The preferences are those of the account as it is read here.
Allows(a, j) ==
    \/ BypassPreferences(j)
    \/ (IF Promotion(j) THEN "promotion" ELSE "reservation") \in account[a]

ReadAccount(h, a) ==
    /\ Delivers(h, a, "account")
    /\ Moves(h, a, IF "actif" \notin account[a] \/ ~Allows(a, job[h]) THEN "done"
                   ELSE IF MailOnly(job[h]) THEN "mail" ELSE "row")
    /\ UNCHANGED <<account, store, job, rows, steady, Tells, Bounds>>

CreateRow(h, a) ==
    /\ Delivers(h, a, "row")
    /\ Moves(h, a, "mail")
    /\ rows' = [rows EXCEPT ![h][a] = @ + 1]
    /\ IF job[h].topic \in Complaints
       THEN told' = job[h].statut /\ settled' = (h \notin crossed)
       ELSE UNCHANGED <<told, settled>>
    /\ UNCHANGED <<account, store, job, steady, crossed, complaint, Bounds>>

\* A statement of the delivery fails before the notification is written: the
\* whole job will.
FailRow(h, a) ==
    /\ faults < MaxFaults /\ faults' = faults + 1
    /\ delivery[h][a] \in {"account", "row"}
    /\ Moves(h, a, "failed")
    /\ UNCHANGED <<account, store, job, rows, steady, Tells, edits>>

\* sendTemplate.  Whether the mail goes out makes no difference here: a failure
\* is logged, no more.  The defaults it first writes never touch subject, body
\* or isActive of a template that is there, and are left out.
SendMail(h, a) ==
    /\ Delivers(h, a, "mail")
    /\ Moves(h, a, "done")
    /\ UNCHANGED <<account, store, job, rows, steady, Tells, Bounds>>

AllEnded(h) == At(h, "deliver") /\ \A a \in Accounts : delivery[h][a] \in Ended

\* Promise.all is over.  A new hotel and a new complaint alert the staff.
FinishDeliveries(h) ==
    /\ AllEnded(h)
    /\ IF Alerts(job[h]) /\ \A a \in Accounts : delivery[h][a] # "failed"
       THEN /\ job' = [job EXCEPT ![h].at = "alert"]
            /\ delivery' = [delivery EXCEPT ![h] = NoDelivery]
            /\ UNCHANGED <<rows, steady, crossed>>
       ELSE Ends(h)
    /\ UNCHANGED <<account, store, told, settled, complaint, Bounds>>

SendAlert(h) ==
    /\ At(h, "alert")
    /\ Ends(h)
    /\ UNCHANGED <<account, store, told, settled, complaint, Bounds>>

-----------------------------------------------------------------------------
(* Accounts, the table of templates, restarts.                             *)

\* A customer's preferences, a staff member's switch.
ChangeAccount(a) ==
    /\ edits < MaxEdits /\ edits' = edits + 1
    /\ \E trait \in Traits : account' =
         [account EXCEPT ![a] = IF trait \in @ THEN @ \ {trait} ELSE @ \cup {trait}]
    /\ steady' = [h \in Handlers |->
                    [wanted |-> {b \in steady[h].wanted : Wanted(b)'},
                     lacks |-> [b \in Accounts |-> steady[h].lacks[b] \ account'[b]]]]
    /\ UNCHANGED <<store, job, delivery, rows, Tells, faults>>

\* The migration that creates the table: the running service does not notice.
Migrate ==
    /\ ~store.table
    /\ store' = [store EXCEPT !.table = TRUE]
    /\ UNCHANGED <<account, job, delivery, rows, steady, Tells, Bounds>>

\* Mutant: the service takes the table for granted.
RestartBlind ==
    /\ faults < MaxFaults /\ faults' = faults + 1
    /\ store' = [store EXCEPT !.flag = "up"]
    /\ job' = [h \in Handlers |-> Quiet]
    /\ delivery' = [h \in Handlers |-> NoDelivery]
    /\ rows' = [h \in Handlers |-> [a \in Accounts |-> 0]]
    /\ steady' = [h \in Handlers |-> NoSteady]
    /\ crossed' = {}
    /\ UNCHANGED <<account, told, settled, complaint, edits>>

\* Requests are lost; onModuleInit looks for the table.
Restart ==
    /\ faults < MaxFaults /\ faults' = faults + 1
    /\ store' = [store EXCEPT !.flag = IF store.table THEN "up" ELSE "down"]
    /\ job' = [h \in Handlers |-> Quiet]
    /\ delivery' = [h \in Handlers |-> NoDelivery]
    /\ rows' = [h \in Handlers |-> [a \in Accounts |-> 0]]
    /\ steady' = [h \in Handlers |-> NoSteady]
    /\ crossed' = {}
    /\ UNCHANGED <<account, told, settled, complaint, edits>>

-----------------------------------------------------------------------------
Next ==
    \/ \E h \in Handlers :
         \/ \E topic \in Promotions : AnnouncePromotion(h, topic)
         \/ \E s \in Statuts \cup {"OUVERTE"} : CreateComplaint(h, s)
         \/ Recipients(h) \/ ReadComplaint(h) \/ MissComplaint(h)
         \/ \E s \in Statuts \cup {None}, r \in Reponses \cup {None} : WriteComplaint(h, s, r)
         \/ FinishDeliveries(h) \/ SendAlert(h)
         \/ \E a \in Guests : \/ SendPaymentReceipt(h, a)
                              \/ \E s \in Statuses : AnnounceStatus(h, a, s)
         \/ \E a \in Accounts :
              \/ ReadAccount(h, a) \/ CreateRow(h, a) \/ FailRow(h, a)
              \/ SendMail(h, a)
    \/ \E a \in Accounts : ChangeAccount(a)
    \/ RemoveComplaint \/ Migrate \/ Restart

Spec == Init /\ [][Next]_vars

-----------------------------------------------------------------------------
(* Properties.                                                             *)

\* When the last change of the complaint's status was told by a request that
\* no other overlapped, the customer's newest notification names the status
\* the complaint has; requests that compared it with a stale copy, found the
\* account closed or broke off have not told it.
ComplaintTold ==
    settled /\ complaint.statut \in StatutsReclamation => told = complaint.statut

\* When all deliveries of a new hotel or offer have ended, every account that
\* was active, interested and willing all through has exactly one
\* notification of it, unless a statement of its own delivery failed; and
\* none has any that lacked one of the three all through.
PromotionReaches ==
    \A h \in Handlers : Promotion(job[h]) /\ AllEnded(h) =>
        /\ \A a \in steady[h].wanted : delivery[h][a] = "failed" \/ (delivery[h][a] = "done" /\ rows[h][a] = 1)
        /\ \A a \in Accounts : steady[h].lacks[a] # {} => rows[h][a] = 0

\* mail.defaults.ts of reservation.confirmed: "Sent when a reservation becomes
\* confirmed."  With the store of templates at hand, no mail of another status
\* is written from it.  notifyReservationStatusUpdate does so all the same.
ConfirmedMailIsTrue ==
    \A h \in Handlers, a \in Accounts :
        /\ store.flag = "up" /\ Delivers(h, a, "mail") /\ Slug(job[h]) = "reservation.confirmed"
        => job[h].statut = "CONFIRMEE"
=============================================================================
