------------------------ MODULE AnnouncementsProofs ------------------------
(***************************************************************************)
(* What customers are told, for any number of accounts, requests, failures *)
(* and changes: a promotion reaches those who want it, once; the customer  *)
(* knows the complaint's status.                                           *)
(***************************************************************************)
EXTENDS Announcements, TLAPS

JobRows == [at : {"idle", "recipients", "write", "deliver", "alert"}, topic : Topics,
            statut : Statuses \cup StatutsReclamation \cup {None},
            reponse : Reponses \cup {None}]
Deliveries == [Accounts -> {"account", "row", "mail"} \cup Ended]
Inbox == [Accounts -> 0 .. 2]
Steadies == [wanted : SUBSET Accounts, lacks : [Accounts -> SUBSET Conditions]]
Stores == [table : BOOLEAN, flag : {"up", "down"}]
NoRows == [a \in Accounts |-> 0]

\* The parts of the type invariant.
TypedAccounts == account \in [Accounts -> SUBSET Traits]
TypedStore == store \in Stores /\ (store.flag = "up" => store.table)
TypedTells ==
    /\ complaint \in [statut : StatutsReclamation \cup {"none", "removed"}, reponse : Reponses \cup {None}]
    /\ told \in StatutsReclamation \cup {None}
    /\ crossed \subseteq Handlers /\ settled \in BOOLEAN
TypedJobs ==
    /\ job \in [Handlers -> JobRows]
    /\ delivery \in [Handlers -> Deliveries]
    /\ rows \in [Handlers -> Inbox]
    /\ steady \in [Handlers -> Steadies]
TypedBounds == faults \in 0 .. MaxFaults /\ edits \in 0 .. MaxEdits

\* A delivery writes one notification, and a job about the complaint names one of
\* its statuses.
Sound(h) ==
    /\ job[h].at # "deliver" => delivery[h] = NoDelivery
    /\ job[h].at \in {"idle", "recipients", "write"} => rows[h] = NoRows
    /\ \A a \in Accounts : delivery[h][a] \in {"account", "row"} => rows[h][a] = 0
    /\ OnComplaint(h) => job[h].statut \in StatutsReclamation

Typed ==
    /\ TypedAccounts /\ TypedStore /\ TypedTells /\ TypedJobs /\ TypedBounds
    /\ \A h \in Handlers : Sound(h)

LEMMA TypedIsTypeOK == Typed => TypeOK
BY DEF Typed, TypedAccounts, TypedStore, TypedTells, TypedJobs, TypedBounds, Sound, TypeOK,
   JobRows, Deliveries, Inbox, Steadies, Stores

-----------------------------------------------------------------------------
(* What is written of one job.                                             *)

LEMMA Emptied ==
    /\ Quiet \in JobRows /\ NoDelivery \in Deliveries /\ NoRows \in Inbox /\ NoSteady \in Steadies
    /\ Quiet.at = "idle" /\ Quiet.topic = "status" /\ Quiet.statut = None /\ Quiet.reponse = None
    /\ \A a \in Accounts : NoDelivery[a] = "none" /\ NoRows[a] = 0
<1>1. Quiet \in JobRows
    BY DEF Quiet, JobRows, Topics
<1>2. NoDelivery \in Deliveries /\ NoRows \in Inbox
    BY DEF NoDelivery, Deliveries, Ended, NoRows, Inbox
<1>3. NoSteady \in Steadies
    BY DEF NoSteady, Steadies
<1> QED
    BY <1>1, <1>2, <1>3 DEF Quiet, NoDelivery, NoRows

Puts(h, j, d, r, s) ==
    /\ job' = [job EXCEPT ![h] = j] /\ delivery' = [delivery EXCEPT ![h] = d]
    /\ rows' = [rows EXCEPT ![h] = r] /\ steady' = [steady EXCEPT ![h] = s]

LEMMA PutsOne ==
    ASSUME TypedJobs, NEW h \in Handlers, NEW j \in JobRows, NEW d \in Deliveries, NEW r \in Inbox,
           NEW s \in Steadies, Puts(h, j, d, r, s)
    PROVE  /\ TypedJobs'
           /\ job'[h] = j /\ delivery'[h] = d /\ rows'[h] = r /\ steady'[h] = s
           /\ \A g \in Handlers : g # h =>
                job'[g] = job[g] /\ delivery'[g] = delivery[g] /\ rows'[g] = rows[g] /\ steady'[g] = steady[g]
BY DEF Puts, TypedJobs

\* What a job is left as is put there again.
LEMMA PutsSame ==
    ASSUME TypedJobs, NEW h \in Handlers
    PROVE  /\ job[h] \in JobRows /\ delivery[h] \in Deliveries /\ rows[h] \in Inbox /\ steady[h] \in Steadies
           /\ job = [job EXCEPT ![h] = job[h]] /\ delivery = [delivery EXCEPT ![h] = delivery[h]]
           /\ rows = [rows EXCEPT ![h] = rows[h]] /\ steady = [steady EXCEPT ![h] = steady[h]]
BY DEF TypedJobs

\* What may become of a job: it ends; it begins, with deliveries to make, a complaint
\* to write or recipients to look for; it finds them; it goes on to its deliveries
\* from writing the complaint; it makes one step of one delivery; it alerts.
Over(j, d, r, s) == j = Quiet /\ d = NoDelivery /\ r = NoRows /\ s = NoSteady
Begun(h, j, d) ==
    /\ Idle(h) \/ At(h, "write")
    /\ ~Promotion(j) /\ (j.topic \in Complaints => j.statut \in StatutsReclamation)
    /\ \/ j.at = "deliver" /\ \A a \in Accounts : d[a] \in {"account", "none"}
       \/ j.at = "write" /\ d = NoDelivery
Announced(h, j, d, s) ==
    /\ Idle(h) /\ j.at = "recipients" /\ Promotion(j) /\ j.topic \notin Complaints /\ d = NoDelivery
    /\ s.wanted = {a \in Accounts : Wanted(a)}
    /\ \A a \in Accounts : s.lacks[a] = Conditions \ account[a]
Addressed(h, j, d) ==
    /\ At(h, "recipients") /\ j.at = "deliver" /\ j.topic = job[h].topic /\ j.statut = job[h].statut
    /\ \A a \in Accounts : d[a] = IF {"actif", "likes"} \subseteq account[a] THEN "account" ELSE "none"
Delivered(h, j, d, r) ==
    /\ At(h, "deliver") /\ j = job[h]
    /\ \E a \in Accounts :
         /\ \A b \in Accounts : b # a => d[b] = delivery[h][b] /\ r[b] = rows[h][b]
         /\ delivery[h][a] \notin Ended
         /\ \/ d[a] = "failed" /\ r[a] = rows[h][a]
            \/ delivery[h][a] = "account" /\ d[a] = "done" /\ r[a] = rows[h][a]
               /\ ("actif" \notin account[a] \/ ~Allows(a, job[h]))
            \/ delivery[h][a] = "account" /\ d[a] \in {"mail", "row"} /\ r[a] = rows[h][a]
               /\ "actif" \in account[a] /\ Allows(a, job[h]) /\ (d[a] = "mail" <=> MailOnly(job[h]))
            \/ delivery[h][a] = "row" /\ d[a] = "mail" /\ r[a] = rows[h][a] + 1
            \/ delivery[h][a] = "mail" /\ d[a] = "done" /\ r[a] = rows[h][a]
Alerted(h, j, d) ==
    At(h, "deliver") /\ j.at = "alert" /\ j.topic = job[h].topic /\ j.statut = job[h].statut /\ d = NoDelivery

Turn(h, j, d, r, s) ==
    \/ Over(j, d, r, s)
    \/ Begun(h, j, d) /\ r = rows[h] /\ s = steady[h]
    \/ Announced(h, j, d, s) /\ r = rows[h]
    \/ Addressed(h, j, d) /\ r = rows[h] /\ s = steady[h]
    \/ Delivered(h, j, d, r) /\ s = steady[h]
    \/ Alerted(h, j, d) /\ r = rows[h] /\ s = steady[h]

Turned(h) ==
    \E j \in JobRows, d \in Deliveries, r \in Inbox, s \in Steadies :
        Puts(h, j, d, r, s) /\ Turn(h, j, d, r, s)

LEMMA EndTurns ==
    ASSUME NEW h \in Handlers, Ends(h)
    PROVE  Turned(h)
<1>1. Puts(h, Quiet, NoDelivery, NoRows, NoSteady)
    BY DEF Ends, Puts, NoRows
<1>2. Turn(h, Quiet, NoDelivery, NoRows, NoSteady)
    BY DEF Turn, Over
<1> QED
    BY <1>1, <1>2, Emptied DEF Turned

\* A job that begins.
LEMMA StartTurns ==
    ASSUME TypedJobs, NEW h \in Handlers, NEW j \in JobRows, NEW to \in SUBSET Accounts,
           Starts(h, j, to), UNCHANGED <<rows, steady>>, ~Promotion(j),
           j.topic \in Complaints => j.statut \in StatutsReclamation,
           j.at = "deliver" \/ (j.at = "write" /\ to = {})
    PROVE  Turned(h)
<1>1. PICK d : d = [a \in Accounts |-> IF a \in to THEN "account" ELSE "none"]
    OBVIOUS
<1>2. d \in Deliveries /\ (\A a \in Accounts : d[a] \in {"account", "none"}) /\ (to = {} => d = NoDelivery)
    BY <1>1 DEF Deliveries, Ended, NoDelivery
<1>3. Puts(h, j, d, rows[h], steady[h]) /\ Idle(h)
    BY <1>1, PutsSame DEF Starts, Puts
<1>4. Turn(h, j, d, rows[h], steady[h])
    BY <1>2, <1>3 DEF Turn, Begun
<1> QED
    BY <1>2, <1>3, <1>4, PutsSame DEF Turned

LEMMA AnnouncementTurns ==
    ASSUME TypedJobs, NEW h \in Handlers,
           \/ \E topic \in Promotions : AnnouncePromotion(h, topic)
           \/ Recipients(h)
    PROVE  Turned(h)
<1>1. ASSUME NEW topic \in Promotions, AnnouncePromotion(h, topic) PROVE Turned(h)
  <2>1. PICK j : j = [Quiet EXCEPT !.at = "recipients", !.topic = topic]
      OBVIOUS
  <2>2. j \in JobRows /\ j.at = "recipients" /\ Promotion(j) /\ j.topic \notin Complaints
    <3>1. topic \in {"hotel", "offer"}
        BY PromotionsAssumption
    <3> QED
        BY <2>1, <3>1, Emptied DEF JobRows, Topics, Promotion, Complaints
  <2>3. PICK s : s = [wanted |-> {a \in Accounts : Wanted(a)},
                      lacks |-> [a \in Accounts |-> Conditions \ account[a]]]
      OBVIOUS
  <2>4. s \in Steadies
      BY <2>3 DEF Steadies
  <2>5. s.wanted = {a \in Accounts : Wanted(a)} /\ \A a \in Accounts : s.lacks[a] = Conditions \ account[a]
      BY <2>3
  <2>6. Idle(h) /\ Puts(h, j, NoDelivery, rows[h], s)
      BY <1>1, <2>1, <2>3, PutsSame DEF AnnouncePromotion, Starts, Puts, NoDelivery
  <2>7. Turn(h, j, NoDelivery, rows[h], s)
      BY <2>2, <2>5, <2>6 DEF Turn, Announced
  <2> QED
      BY <2>2, <2>4, <2>6, <2>7, PutsSame, Emptied DEF Turned
<1>2. CASE Recipients(h)
  <2>1. PICK j : j = [job[h] EXCEPT !.at = "deliver"]
      OBVIOUS
  <2>2. PICK d : d = [a \in Accounts |-> IF {"actif", "likes"} \subseteq account[a] THEN "account" ELSE "none"]
      OBVIOUS
  <2>3. j \in JobRows /\ j.at = "deliver" /\ j.topic = job[h].topic /\ j.statut = job[h].statut
      BY <2>1, PutsSame DEF JobRows
  <2>4. d \in Deliveries
      BY <2>2 DEF Deliveries, Ended
  <2>5. At(h, "recipients") /\ Puts(h, j, d, rows[h], steady[h])
      BY <1>2, <2>1, <2>2, PutsSame DEF Recipients, Puts, TypedJobs
  <2>6. \A a \in Accounts : d[a] = IF {"actif", "likes"} \subseteq account[a] THEN "account" ELSE "none"
      BY <2>2
  <2>7. Turn(h, j, d, rows[h], steady[h])
      BY <2>3, <2>5, <2>6 DEF Turn, Addressed
  <2> QED
      BY <2>3, <2>4, <2>5, <2>7, PutsSame DEF Turned
<1> QED
    BY <1>1, <1>2

LEMMA BookingTurns ==
    ASSUME TypedJobs, NEW h \in Handlers, NEW a \in Guests,
           SendPaymentReceipt(h, a) \/ \E s \in Statuses : AnnounceStatus(h, a, s)
    PROVE  Turned(h)
<1> {a} \in SUBSET Accounts
    BY AccountsAssumption
<1>1. CASE SendPaymentReceipt(h, a)
  <2>1. PICK j : j = [Quiet EXCEPT !.at = "deliver", !.topic = "receipt"]
      OBVIOUS
  <2>2. j \in JobRows /\ j.at = "deliver" /\ ~Promotion(j) /\ j.topic \notin Complaints
      BY <2>1, Emptied DEF JobRows, Topics, Promotion, Complaints
  <2> QED
      BY <1>1, <2>1, <2>2, StartTurns DEF SendPaymentReceipt
<1>2. ASSUME NEW s \in Statuses, AnnounceStatus(h, a, s) PROVE Turned(h)
  <2>1. PICK j : j = [Quiet EXCEPT !.at = "deliver", !.statut = s]
      OBVIOUS
  <2>2. j \in JobRows /\ j.at = "deliver" /\ ~Promotion(j) /\ j.topic \notin Complaints
      BY <2>1, Emptied DEF JobRows, Topics, Promotion, Complaints
  <2> QED
      BY <1>2, <2>1, <2>2, StartTurns DEF AnnounceStatus
<1> QED
    BY <1>1, <1>2

LEMMA CreateComplaintTurns ==
    ASSUME TypedJobs, NEW h \in Handlers, NEW s \in Statuts \cup {"OUVERTE"}, CreateComplaint(h, s)
    PROVE  /\ Turned(h) /\ s \in StatutsReclamation
           /\ job'[h].at = "deliver" /\ job'[h].topic = "received" /\ job'[h].statut = s
<1> s \in StatutsReclamation
    BY StatutsAssumption DEF StatutsReclamation
<1>1. PICK j : j = [Quiet EXCEPT !.at = "deliver", !.topic = "received", !.statut = s]
    OBVIOUS
<1>2. j \in JobRows /\ j.at = "deliver" /\ ~Promotion(j) /\ j.topic = "received" /\ j.statut = s
    BY <1>1, Emptied DEF JobRows, Topics, Promotion, Complaints
<1>3. Starts(h, j, {Owner}) /\ UNCHANGED <<rows, steady>> /\ {Owner} \in SUBSET Accounts
    BY <1>1, AccountsAssumption DEF CreateComplaint
<1>4. job'[h] = j
    BY <1>3 DEF Starts, TypedJobs
<1> QED
    BY <1>2, <1>3, <1>4, StartTurns

LEMMA ReadComplaintTurns ==
    ASSUME TypedJobs, TypedTells, NEW h \in Handlers, ReadComplaint(h)
    PROVE  /\ Turned(h)
           /\ job'[h].at = "write" /\ job'[h].topic = "updating" /\ job'[h].statut = complaint.statut
<1>1. PICK j : j = [at |-> "write", topic |-> "updating",
                    statut |-> complaint.statut, reponse |-> complaint.reponse]
    OBVIOUS
<1>2. complaint.statut \in StatutsReclamation /\ complaint.reponse \in Reponses \cup {None}
    BY DEF ReadComplaint, TypedTells
<1>3. j \in JobRows /\ j.at = "write" /\ ~Promotion(j) /\ j.topic = "updating" /\ j.statut = complaint.statut
    BY <1>1, <1>2 DEF JobRows, Topics, Promotion, Complaints
<1>4. Starts(h, j, {}) /\ UNCHANGED <<rows, steady>> /\ {} \in SUBSET Accounts
    BY <1>1 DEF ReadComplaint
<1>5. job'[h] = j
    BY <1>4 DEF Starts, TypedJobs
<1> QED
    BY <1>2, <1>3, <1>4, <1>5, StartTurns

\* A complaint that is written is announced, or it has the status that was read.
LEMMA WriteComplaintTurns ==
    ASSUME Typed, NEW h \in Handlers, NEW statut \in Statuts \cup {None}, NEW reponse \in Reponses \cup {None},
           WriteComplaint(h, statut, reponse)
    PROVE  /\ Turned(h)
           /\ complaint' \in [statut : StatutsReclamation, reponse : Reponses \cup {None}]
           /\ \/ /\ settled' = FALSE /\ crossed' = crossed
                 /\ job'[h].at = "deliver" /\ job'[h].topic = "updated" /\ job'[h].statut = complaint'.statut
              \/ /\ Ends(h)
                 /\ settled' = (settled /\ (h \notin crossed \/ complaint' = complaint))
                 /\ complaint'.statut \in {complaint.statut, job[h].statut}
<1>1. PICK new : new = [statut |-> IF statut = None THEN complaint.statut ELSE statut,
                        reponse |-> IF reponse = None THEN complaint.reponse ELSE reponse]
    OBVIOUS
<1>2. new \in [statut : StatutsReclamation, reponse : Reponses \cup {None}]
    BY <1>1, StatutsAssumption DEF Typed, TypedTells, WriteComplaint
<1>3. complaint' = new /\ At(h, "write")
    BY <1>1 DEF WriteComplaint
<1>4. CASE /\ ShouldNotify(h, statut, reponse, new)
           /\ job' = [job EXCEPT ![h] = [at |-> "deliver", topic |-> "updated",
                                         statut |-> new.statut, reponse |-> None]]
           /\ delivery' = [delivery EXCEPT ![h][Owner] = "account"]
           /\ settled' = FALSE
           /\ UNCHANGED <<rows, steady, crossed>>
  <2>1. PICK j : j = [at |-> "deliver", topic |-> "updated", statut |-> new.statut, reponse |-> None]
      OBVIOUS
  <2>2. j \in JobRows /\ j.at = "deliver" /\ ~Promotion(j) /\ j.topic = "updated" /\ j.statut = new.statut
      BY <1>2, <2>1 DEF JobRows, Topics, Promotion, Complaints
  <2>3. PICK d : d = [delivery[h] EXCEPT ![Owner] = "account"]
      OBVIOUS
  <2>4. d \in Deliveries /\ \A a \in Accounts : d[a] \in {"account", "none"}
    <3>1. delivery[h] = NoDelivery
        BY <1>3 DEF Typed, Sound, At
    <3> QED
        BY <2>3, <3>1, Emptied DEF Deliveries, Ended
  <2>5. Puts(h, j, d, rows[h], steady[h])
      BY <1>4, <2>1, <2>3, PutsSame DEF Puts, Typed, TypedJobs
  <2>6. Turn(h, j, d, rows[h], steady[h])
      BY <1>2, <1>3, <2>2, <2>4 DEF Turn, Begun
  <2>7. Turned(h)
      BY <2>2, <2>4, <2>5, <2>6, PutsSame DEF Turned, Typed
  <2>8. job'[h] = j
      BY <1>4, <2>1 DEF Typed, TypedJobs
  <2> QED
      BY <1>2, <1>3, <1>4, <2>2, <2>7, <2>8
<1>5. CASE /\ ~ShouldNotify(h, statut, reponse, new)
           /\ settled' = (settled /\ (h \notin crossed \/ new = complaint))
           /\ Ends(h)
  <2>1. new.statut \in {complaint.statut, job[h].statut}
      BY <1>1, <1>5 DEF ShouldNotify
  <2> QED
      BY <1>2, <1>3, <1>5, <2>1, EndTurns
<1> QED
    BY <1>1, <1>4, <1>5 DEF WriteComplaint

\* One step of one delivery.
LEMMA DeliveryTurns ==
    ASSUME Typed, NEW h \in Handlers, NEW a \in Accounts,
           ReadAccount(h, a) \/ CreateRow(h, a) \/ FailRow(h, a) \/ SendMail(h, a)
    PROVE  Turned(h)
<1>1. /\ TypedJobs /\ job[h] \in JobRows /\ delivery[h] \in Deliveries /\ rows[h] \in Inbox
      /\ steady[h] \in Steadies /\ Sound(h)
    BY PutsSame DEF Typed
<1>2. delivery[h][a] \notin Ended /\ At(h, "deliver") /\ job' = job /\ steady' = steady
  <2>1. delivery[h][a] \in {"account", "row", "mail"}
      BY DEF ReadAccount, CreateRow, FailRow, SendMail, Delivers
  <2>2. job[h].at = "deliver"
    <3>1. delivery[h] # NoDelivery
        BY <2>1, Emptied
    <3> QED
        BY <1>1, <3>1 DEF Sound
  <2> QED
      BY <2>1, <2>2 DEF Ended, At, ReadAccount, CreateRow, FailRow, SendMail
<1>3. ASSUME NEW stage \in {"row", "mail"} \cup Ended, NEW r \in Inbox,
             Moves(h, a, stage), rows' = [rows EXCEPT ![h] = r],
             \A b \in Accounts : b # a => r[b] = rows[h][b],
             \/ stage = "failed" /\ r[a] = rows[h][a]
             \/ delivery[h][a] = "account" /\ stage = "done" /\ r[a] = rows[h][a]
                /\ ("actif" \notin account[a] \/ ~Allows(a, job[h]))
             \/ delivery[h][a] = "account" /\ stage \in {"mail", "row"} /\ r[a] = rows[h][a]
                /\ "actif" \in account[a] /\ Allows(a, job[h]) /\ (stage = "mail" <=> MailOnly(job[h]))
             \/ delivery[h][a] = "row" /\ stage = "mail" /\ r[a] = rows[h][a] + 1
             \/ delivery[h][a] = "mail" /\ stage = "done" /\ r[a] = rows[h][a]
      PROVE  Turned(h)
  <2>1. PICK d : d = [delivery[h] EXCEPT ![a] = stage]
      OBVIOUS
  <2>2. d \in Deliveries /\ d[a] = stage /\ \A b \in Accounts : b # a => d[b] = delivery[h][b]
      BY <1>1, <2>1 DEF Deliveries
  <2>3. Puts(h, job[h], d, r, steady[h])
      BY <1>1, <1>2, <1>3, <2>1, PutsSame DEF Puts, Moves, TypedJobs
  <2>4. Delivered(h, job[h], d, r)
      BY <1>2, <1>3, <2>2 DEF Delivered
  <2> QED
      BY <1>1, <1>3, <2>2, <2>3, <2>4 DEF Turned, Turn
<1>4. rows = [rows EXCEPT ![h] = rows[h]]
    BY <1>1, PutsSame
<1>5. CASE ReadAccount(h, a)
  <2>1. PICK stage : stage = IF "actif" \notin account[a] \/ ~Allows(a, job[h]) THEN "done"
                             ELSE IF MailOnly(job[h]) THEN "mail" ELSE "row"
      OBVIOUS
  <2>2. stage \in {"row", "mail"} \cup Ended
      BY <2>1 DEF Ended
  <2>3. delivery[h][a] = "account" /\ Moves(h, a, stage) /\ rows' = rows
      BY <1>5, <2>1 DEF ReadAccount, Delivers
  <2> QED
      BY <1>1, <1>3, <1>4, <2>1, <2>2, <2>3
<1>6. CASE CreateRow(h, a)
  <2>1. PICK r : r = [rows[h] EXCEPT ![a] = rows[h][a] + 1]
      OBVIOUS
  <2>2. delivery[h][a] = "row" /\ Moves(h, a, "mail") /\ rows' = [rows EXCEPT ![h] = r]
      BY <1>6, <2>1 DEF CreateRow, Delivers, Typed, TypedJobs
  <2>3. rows[h][a] = 0
      BY <1>1, <2>2 DEF Sound
  <2>4. r \in Inbox /\ r[a] = rows[h][a] + 1 /\ \A b \in Accounts : b # a => r[b] = rows[h][b]
      BY <1>1, <2>1, <2>3 DEF Inbox
  <2> QED
      BY <1>3, <2>2, <2>4 DEF Ended
<1>7. CASE FailRow(h, a)
    BY <1>1, <1>3, <1>4, <1>7 DEF FailRow, Ended
<1>8. CASE SendMail(h, a)
    BY <1>1, <1>3, <1>4, <1>8 DEF SendMail, Delivers, Ended
<1> QED
    BY <1>5, <1>6, <1>7, <1>8

LEMMA FinishTurns ==
    ASSUME TypedJobs, NEW h \in Handlers, FinishDeliveries(h) \/ SendAlert(h) \/ MissComplaint(h)
    PROVE  Turned(h)
<1>1. CASE SendAlert(h) \/ MissComplaint(h)
    BY <1>1, EndTurns DEF SendAlert, MissComplaint
<1>2. CASE FinishDeliveries(h) /\ Ends(h)
    BY <1>2, EndTurns
<1>3. CASE /\ At(h, "deliver")
           /\ job' = [job EXCEPT ![h].at = "alert"] /\ delivery' = [delivery EXCEPT ![h] = NoDelivery]
           /\ UNCHANGED <<rows, steady>>
  <2>1. PICK j : j = [job[h] EXCEPT !.at = "alert"]
      OBVIOUS
  <2>2. j \in JobRows /\ j.at = "alert" /\ j.topic = job[h].topic /\ j.statut = job[h].statut
      BY <2>1, PutsSame DEF JobRows
  <2>3. Puts(h, j, NoDelivery, rows[h], steady[h])
      BY <1>3, <2>1, PutsSame DEF Puts, TypedJobs
  <2>4. Turn(h, j, NoDelivery, rows[h], steady[h])
      BY <1>3, <2>2 DEF Turn, Alerted
  <2> QED
      BY <2>2, <2>3, <2>4, PutsSame, Emptied DEF Turned
<1> QED
    BY <1>1, <1>2, <1>3 DEF FinishDeliveries, AllEnded

-----------------------------------------------------------------------------
(* Types.                                                                  *)

\* The steps of requests.
Work(h) ==
    \/ \E topic \in Promotions : AnnouncePromotion(h, topic)
    \/ \E s \in Statuts \cup {"OUVERTE"} : CreateComplaint(h, s)
    \/ Recipients(h) \/ ReadComplaint(h) \/ MissComplaint(h)
    \/ \E s \in Statuts \cup {None}, r \in Reponses \cup {None} : WriteComplaint(h, s, r)
    \/ FinishDeliveries(h) \/ SendAlert(h)
    \/ \E a \in Guests : \/ SendPaymentReceipt(h, a)
                         \/ \E s \in Statuses : AnnounceStatus(h, a, s)
    \/ \E a \in Accounts :
         \/ ReadAccount(h, a) \/ CreateRow(h, a) \/ FailRow(h, a)
         \/ SendMail(h, a)

LEMMA WorkTurns ==
    ASSUME Typed, NEW h \in Handlers, Work(h)
    PROVE  Turned(h)
BY AnnouncementTurns, CreateComplaintTurns, ReadComplaintTurns, WriteComplaintTurns, FinishTurns,
   BookingTurns, DeliveryTurns DEF Work, Typed

LEMMA SoundTurn ==
    ASSUME Typed, NEW h \in Handlers, Turned(h)
    PROVE  TypedJobs' /\ \A g \in Handlers : Sound(g)'
<1>1. PICK j \in JobRows, d \in Deliveries, r \in Inbox, s \in Steadies :
         Puts(h, j, d, r, s) /\ Turn(h, j, d, r, s)
    BY DEF Turned
<1>2. /\ TypedJobs'
      /\ job'[h] = j /\ delivery'[h] = d /\ rows'[h] = r
      /\ \A g \in Handlers : g # h =>
           job'[g] = job[g] /\ delivery'[g] = delivery[g] /\ rows'[g] = rows[g]
    BY <1>1, PutsOne DEF Typed
<1>3. ASSUME NEW g \in Handlers, g # h PROVE Sound(g)'
  <2>1. Sound(g)
      BY DEF Typed
  <2> QED
      BY <1>2, <1>3, <2>1 DEF Sound, OnComplaint, Idle
<1>4. Sound(h) /\ delivery[h] \in Deliveries /\ rows[h] \in Inbox
    BY PutsSame DEF Typed
<1>5. /\ j.at # "deliver" => d = NoDelivery
      /\ j.at \in {"idle", "recipients", "write"} => r = NoRows
      /\ \A a \in Accounts : d[a] \in {"account", "row"} => r[a] = 0
      /\ j.at # "idle" /\ j.topic \in Complaints => j.statut \in StatutsReclamation
  <2>1. CASE Over(j, d, r, s)
      BY <2>1, Emptied DEF Over
  <2>2. CASE Begun(h, j, d) /\ r = rows[h]
      BY <1>4, <2>2, Emptied DEF Begun, Sound, Idle, At
  <2>3. CASE Announced(h, j, d, s) /\ r = rows[h]
      BY <1>4, <2>3, Emptied DEF Announced, Sound, Idle
  <2>4. CASE Addressed(h, j, d) /\ r = rows[h]
      BY <1>4, <2>4, Emptied DEF Addressed, Sound, At, OnComplaint, Idle
  <2>5. CASE Delivered(h, j, d, r)
    <3>1. j = job[h] /\ job[h].at = "deliver"
        BY <2>5 DEF Delivered, At
    <3>2. \A a \in Accounts : d[a] \in {"account", "row"} => r[a] = 0
        BY <1>4, <2>5 DEF Delivered, Sound, Ended
    <3> QED
        BY <1>4, <3>1, <3>2 DEF Sound, OnComplaint, Idle
  <2>6. CASE Alerted(h, j, d) /\ r = rows[h]
      BY <1>4, <2>6, Emptied DEF Alerted, Sound, At, OnComplaint, Idle
  <2> QED
      BY <1>1, <2>1, <2>2, <2>3, <2>4, <2>5, <2>6 DEF Turn
<1>6. Sound(h)'
    BY <1>2, <1>5 DEF Sound, OnComplaint, Idle
<1> QED
    BY <1>2, <1>3, <1>6

LEMMA WorkStore ==
    ASSUME NEW h \in Handlers, Work(h)
    PROVE  store' = store
<1>1. ASSUME NEW a \in Accounts, ReadAccount(h, a) \/ CreateRow(h, a) \/ FailRow(h, a) \/ SendMail(h, a)
      PROVE  store' = store
    BY <1>1 DEF ReadAccount, CreateRow, FailRow, SendMail
<1>2. ASSUME NEW s \in Statuts \cup {None}, NEW r \in Reponses \cup {None}, WriteComplaint(h, s, r)
      PROVE  store' = store
    BY <1>2 DEF WriteComplaint
<1>3. ASSUME NEW a \in Guests, SendPaymentReceipt(h, a) \/ \E s \in Statuses : AnnounceStatus(h, a, s)
      PROVE  store' = store
    BY <1>3 DEF SendPaymentReceipt, AnnounceStatus
<1>4. ASSUME \/ \E topic \in Promotions : AnnouncePromotion(h, topic)
             \/ \E s \in Statuts \cup {"OUVERTE"} : CreateComplaint(h, s)
             \/ Recipients(h) \/ ReadComplaint(h) \/ MissComplaint(h)
             \/ FinishDeliveries(h) \/ SendAlert(h)
      PROVE  store' = store
    BY <1>4 DEF AnnouncePromotion, Recipients, CreateComplaint, ReadComplaint, MissComplaint,
       FinishDeliveries, SendAlert
<1> QED
    BY <1>1, <1>2, <1>3, <1>4 DEF Work

\* Requests write to no account, and only a failure is counted.
LEMMA WorkBounds ==
    ASSUME TypedBounds, NEW h \in Handlers, Work(h)
    PROVE  TypedBounds' /\ account' = account
<1>1. ASSUME NEW a \in Accounts, FailRow(h, a)
      PROVE  TypedBounds' /\ account' = account
    BY <1>1, FaultsAssumption DEF FailRow, TypedBounds
<1>2. ASSUME UNCHANGED <<faults, edits, account>>
      PROVE  TypedBounds' /\ account' = account
    BY <1>2 DEF TypedBounds
<1>3. ASSUME NEW a \in Accounts, ReadAccount(h, a) \/ CreateRow(h, a) \/ SendMail(h, a)
      PROVE  UNCHANGED <<faults, edits, account>>
    BY <1>3 DEF ReadAccount, CreateRow, SendMail, Bounds
<1>4. ASSUME NEW s \in Statuts \cup {None}, NEW r \in Reponses \cup {None}, WriteComplaint(h, s, r)
      PROVE  UNCHANGED <<faults, edits, account>>
    BY <1>4 DEF WriteComplaint, Bounds
<1>5. ASSUME NEW a \in Guests, SendPaymentReceipt(h, a) \/ \E s \in Statuses : AnnounceStatus(h, a, s)
      PROVE  UNCHANGED <<faults, edits, account>>
    BY <1>5 DEF SendPaymentReceipt, AnnounceStatus, Bounds
<1>6. ASSUME \/ \E topic \in Promotions : AnnouncePromotion(h, topic)
             \/ \E s \in Statuts \cup {"OUVERTE"} : CreateComplaint(h, s)
             \/ Recipients(h) \/ ReadComplaint(h) \/ MissComplaint(h)
             \/ FinishDeliveries(h) \/ SendAlert(h)
      PROVE  UNCHANGED <<faults, edits, account>>
    BY <1>6 DEF AnnouncePromotion, Recipients, CreateComplaint, ReadComplaint, MissComplaint,
       FinishDeliveries, SendAlert, Bounds
<1> QED
    BY <1>1, <1>2, <1>3, <1>4, <1>5, <1>6 DEF Work

\* What the steps of requests do to the complaint and to what is told of it.
Silent(h) ==
    /\ UNCHANGED Tells
    /\ OnComplaint(h)' => OnComplaint(h) /\ job'[h].statut = job[h].statut
    /\ job'[h].at # "write"

LEMMA WorkTells ==
    ASSUME Typed, NEW h \in Handlers, Work(h)
    PROVE  \/ Silent(h)
           \/ Ends(h) /\ UNCHANGED <<told, settled, complaint>>
           \/ \E s \in Statuts \cup {"OUVERTE"} : CreateComplaint(h, s)
           \/ ReadComplaint(h)
           \/ \E s \in Statuts \cup {None}, r \in Reponses \cup {None} : WriteComplaint(h, s, r)
           \/ \E a \in Accounts : CreateRow(h, a)
<1>1. job[h] \in JobRows
    BY PutsSame DEF Typed
<1>2. ASSUME NEW topic \in Promotions, AnnouncePromotion(h, topic) PROVE Silent(h)
  <2>1. PICK j : j = [Quiet EXCEPT !.at = "recipients", !.topic = topic]
      OBVIOUS
  <2>2. j.topic = topic /\ topic \notin Complaints /\ j.at # "write"
      BY <2>1, PromotionsAssumption, Emptied DEF JobRows, Complaints
  <2>3. job'[h] = j
      BY <1>2, <2>1 DEF AnnouncePromotion, Starts, Typed, TypedJobs
  <2> QED
      BY <1>2, <2>2, <2>3 DEF AnnouncePromotion, Silent, OnComplaint
<1>3. ASSUME NEW a \in Guests, SendPaymentReceipt(h, a) PROVE Silent(h)
  <2>1. PICK j : j = [Quiet EXCEPT !.at = "deliver", !.topic = "receipt"]
      OBVIOUS
  <2>2. j.topic \notin Complaints /\ j.at # "write"
      BY <2>1, Emptied DEF JobRows, Complaints
  <2>3. job'[h] = j
      BY <1>3, <2>1 DEF SendPaymentReceipt, Starts, Typed, TypedJobs
  <2> QED
      BY <1>3, <2>2, <2>3 DEF SendPaymentReceipt, Silent, OnComplaint
<1>4. ASSUME NEW a \in Guests, NEW s \in Statuses, AnnounceStatus(h, a, s) PROVE Silent(h)
  <2>1. PICK j : j = [Quiet EXCEPT !.at = "deliver", !.statut = s]
      OBVIOUS
  <2>2. j.topic \notin Complaints /\ j.at # "write"
      BY <2>1, Emptied DEF JobRows, Complaints
  <2>3. job'[h] = j
      BY <1>4, <2>1 DEF AnnounceStatus, Starts, Typed, TypedJobs
  <2> QED
      BY <1>4, <2>2, <2>3 DEF AnnounceStatus, Silent, OnComplaint
<1>5. ASSUME NEW a \in Accounts, ReadAccount(h, a) \/ FailRow(h, a) \/ SendMail(h, a) PROVE Silent(h)
  <2>1. delivery[h] # NoDelivery
      BY <1>5, Emptied DEF ReadAccount, FailRow, SendMail, Delivers
  <2>2. job[h].at # "write"
      BY <2>1 DEF Typed, Sound
  <2> QED
      BY <1>5, <2>2 DEF ReadAccount, FailRow, SendMail, Silent, OnComplaint, Idle
<1>6. ASSUME NEW at \in {"deliver", "alert"}, job' = [job EXCEPT ![h].at = at], UNCHANGED Tells,
             At(h, "recipients") \/ At(h, "deliver")
      PROVE  Silent(h)
  <2>1. PICK j : j = [job[h] EXCEPT !.at = at]
      OBVIOUS
  <2>2. j.at = at /\ j.topic = job[h].topic /\ j.statut = job[h].statut
      BY <1>1, <2>1 DEF JobRows
  <2>3. job'[h] = j
      BY <1>6, <2>1 DEF Typed, TypedJobs
  <2> QED
      BY <1>6, <2>2, <2>3 DEF Silent, OnComplaint, Idle, At
<1>7. CASE Recipients(h)
    BY <1>6, <1>7 DEF Recipients
<1>8. CASE FinishDeliveries(h)
  <2>1. \/ Ends(h) /\ UNCHANGED <<told, settled, complaint>>
        \/ job' = [job EXCEPT ![h].at = "alert"] /\ UNCHANGED Tells /\ At(h, "deliver")
      BY <1>8 DEF FinishDeliveries, AllEnded, Tells
  <2> QED
      BY <1>6, <2>1
<1>9. CASE SendAlert(h) \/ MissComplaint(h)
    BY <1>9 DEF SendAlert, MissComplaint
<1> QED
    BY <1>2, <1>3, <1>4, <1>5, <1>7, <1>8, <1>9 DEF Work

LEMMA CrossingTyped ==
    ASSUME crossed \subseteq Handlers, NEW h \in Handlers, Crossing(h)
    PROVE  crossed' \subseteq Handlers
BY DEF Crossing

LEMMA TypedTellsStep ==
    ASSUME Typed, NEW h \in Handlers, Work(h)
    PROVE  TypedTells'
<1>1. TypedTells /\ Sound(h) /\ job[h] \in JobRows
    BY PutsSame DEF Typed
<1>2. CASE Silent(h)
    BY <1>1, <1>2 DEF Silent, Tells, TypedTells
<1>3. CASE Ends(h) /\ UNCHANGED <<told, settled, complaint>>
    BY <1>1, <1>3 DEF Ends, TypedTells
<1>4. ASSUME NEW s \in Statuts \cup {"OUVERTE"}, CreateComplaint(h, s) PROVE TypedTells'
  <2>1. complaint' = [complaint EXCEPT !.statut = s] /\ settled' = FALSE /\ told' = told /\ Crossing(h)
      BY <1>4 DEF CreateComplaint
  <2>2. s \in StatutsReclamation
      BY StatutsAssumption DEF StatutsReclamation
  <2> QED
      BY <1>1, <2>1, <2>2, CrossingTyped DEF TypedTells
<1>5. CASE ReadComplaint(h)
    BY <1>1, <1>5, CrossingTyped DEF ReadComplaint, TypedTells
<1>6. ASSUME NEW s \in Statuts \cup {None}, NEW r \in Reponses \cup {None}, WriteComplaint(h, s, r)
      PROVE  TypedTells'
  <2>1. complaint' \in [statut : StatutsReclamation, reponse : Reponses \cup {None}]
      BY <1>6, WriteComplaintTurns
  <2>2. settled' \in BOOLEAN /\ crossed' \subseteq Handlers
      BY <1>1, <1>6, WriteComplaintTurns DEF Ends, TypedTells
  <2>3. told' = told
      BY <1>6 DEF WriteComplaint
  <2> QED
      BY <1>1, <2>1, <2>2, <2>3 DEF TypedTells
<1>7. ASSUME NEW a \in Accounts, CreateRow(h, a) PROVE TypedTells'
  <2>1. job[h].at = "deliver"
      BY <1>7 DEF CreateRow, Delivers, At
  <2>2. job[h].topic \in Complaints => job[h].statut \in StatutsReclamation
      BY <1>1, <2>1 DEF Sound, OnComplaint, Idle
  <2>3. complaint' = complaint /\ crossed' = crossed
      BY <1>7 DEF CreateRow
  <2>4. told' \in {told} \cup StatutsReclamation /\ settled' \in BOOLEAN
      BY <1>1, <1>7, <2>2 DEF CreateRow, TypedTells
  <2> QED
      BY <1>1, <2>3, <2>4 DEF TypedTells
<1> QED
    BY <1>2, <1>3, <1>4, <1>5, <1>6, <1>7, WorkTells

LEMMA TypedWork ==
    ASSUME Typed, NEW h \in Handlers, Work(h)
    PROVE  Typed'
<1>1. TypedJobs' /\ \A g \in Handlers : Sound(g)'
    BY WorkTurns, SoundTurn
<1>2. TypedStore'
    BY WorkStore DEF Typed, TypedStore
<1>3. TypedBounds' /\ TypedAccounts'
    BY WorkBounds DEF Typed, TypedAccounts
<1> QED
    BY <1>1, <1>2, <1>3, TypedTellsStep DEF Typed

\* The other steps.
LEMMA TypedChangeAccount ==
    ASSUME Typed, NEW a \in Accounts, ChangeAccount(a)
    PROVE  /\ Typed'
           /\ UNCHANGED <<store, job, delivery, rows, told, crossed, settled, complaint>>
           /\ \A h \in Handlers :
                /\ steady'[h].wanted = {b \in steady[h].wanted : Wanted(b)'}
                /\ \A b \in Accounts : steady'[h].lacks[b] = steady[h].lacks[b] \ account'[b]
<1>1. /\ UNCHANGED <<store, job, delivery, rows, told, crossed, settled, complaint, faults>>
      /\ edits \in Nat /\ edits < MaxEdits /\ edits' = edits + 1
      /\ steady' = [h \in Handlers |->
                      [wanted |-> {b \in steady[h].wanted : Wanted(b)'},
                       lacks |-> [b \in Accounts |-> steady[h].lacks[b] \ account'[b]]]]
    BY DEF ChangeAccount, Tells, Typed, TypedBounds
<1>2. TypedAccounts'
    BY DEF ChangeAccount, Typed, TypedAccounts
<1>3. TypedStore' /\ TypedTells' /\ TypedBounds'
    BY <1>1, FaultsAssumption DEF Typed, TypedStore, TypedTells, TypedBounds
<1>4. steady' \in [Handlers -> Steadies]
  <2>1. ASSUME NEW h \in Handlers
        PROVE  /\ {b \in steady[h].wanted : Wanted(b)'} \subseteq Accounts
               /\ [b \in Accounts |-> steady[h].lacks[b] \ account'[b]] \in [Accounts -> SUBSET Conditions]
    <3>1. steady[h] \in Steadies
        BY DEF Typed, TypedJobs
    <3> QED
        BY <3>1 DEF Steadies
  <2> QED
      BY <1>1, <2>1 DEF Steadies
<1>5. TypedJobs'
    BY <1>1, <1>4 DEF Typed, TypedJobs
<1>6. \A h \in Handlers : Sound(h)'
    BY <1>1 DEF Typed, Sound, OnComplaint, Idle
<1> QED
    BY <1>1, <1>2, <1>3, <1>5, <1>6 DEF Typed

LEMMA TypedRestart ==
    ASSUME Typed, Restart
    PROVE  /\ Typed' /\ UNCHANGED <<account, told, settled, complaint>> /\ crossed' = {}
           /\ \A h \in Handlers : job'[h] = Quiet /\ delivery'[h] = NoDelivery /\ rows'[h] = NoRows
<1>1. /\ UNCHANGED <<account, told, settled, complaint, edits>> /\ crossed' = {}
      /\ faults \in Nat /\ faults < MaxFaults /\ faults' = faults + 1
      /\ job' = [h \in Handlers |-> Quiet]
      /\ delivery' = [h \in Handlers |-> NoDelivery]
      /\ rows' = [h \in Handlers |-> NoRows]
      /\ steady' = [h \in Handlers |-> NoSteady]
    BY DEF Restart, Typed, TypedBounds, NoRows
<1>2. TypedJobs'
    BY <1>1, Emptied DEF TypedJobs
<1>3. \A h \in Handlers : Sound(h)'
    BY <1>1, Emptied DEF Sound, OnComplaint, Idle
<1>4. TypedStore'
    BY DEF Restart, Typed, TypedStore, Stores
<1>5. TypedAccounts' /\ TypedTells' /\ TypedBounds'
    BY <1>1, FaultsAssumption DEF Typed, TypedAccounts, TypedTells, TypedBounds
<1> QED
    BY <1>1, <1>2, <1>3, <1>4, <1>5 DEF Typed

LEMMA TypedRemove ==
    ASSUME Typed, RemoveComplaint \/ Migrate
    PROVE  /\ Typed' /\ UNCHANGED <<account, job, delivery, rows, steady, told, crossed, settled>>
           /\ complaint' = complaint \/ complaint'.statut = "removed"
<1>1. UNCHANGED <<account, job, delivery, rows, steady, told, crossed, settled, faults, edits>>
    BY DEF RemoveComplaint, Migrate, Tells, Bounds
<1>2. TypedStore'
  <2>1. CASE RemoveComplaint
      BY <1>1, <2>1 DEF RemoveComplaint, Typed, TypedStore
  <2>2. CASE Migrate
      BY <1>1, <2>2 DEF Migrate, Typed, TypedStore, Stores
  <2> QED
      BY <2>1, <2>2
<1>3. TypedTells' /\ (complaint' = complaint \/ complaint'.statut = "removed")
  <2>1. CASE RemoveComplaint
      BY <1>1, <2>1 DEF RemoveComplaint, Typed, TypedTells
  <2>2. CASE Migrate
      BY <1>1, <2>2 DEF Migrate, Tells, Typed, TypedTells
  <2> QED
      BY <2>1, <2>2
<1>4. TypedAccounts' /\ TypedJobs' /\ TypedBounds'
    BY <1>1 DEF Typed, TypedAccounts, TypedJobs, TypedBounds
<1>5. \A h \in Handlers : Sound(h)'
    BY <1>1 DEF Typed, Sound, OnComplaint, Idle
<1> QED
    BY <1>1, <1>2, <1>3, <1>4, <1>5 DEF Typed

LEMMA TypedInit == Init => Typed
<1> SUFFICES ASSUME Init PROVE Typed
    OBVIOUS
<1>1. TypedAccounts
    BY DEF Init, TypedAccounts, Traits
<1>2. TypedStore
  <2>1. CASE store = [table |-> TRUE, flag |-> "up"]
      BY <2>1 DEF TypedStore, Stores
  <2>2. CASE store = [table |-> FALSE, flag |-> "down"]
      BY <2>2 DEF TypedStore, Stores
  <2> QED
      BY <2>1, <2>2 DEF Init
<1>3. TypedTells
    BY DEF Init, TypedTells
<1>4. /\ job = [h \in Handlers |-> Quiet] /\ delivery = [h \in Handlers |-> NoDelivery]
      /\ rows = [h \in Handlers |-> NoRows] /\ steady = [h \in Handlers |-> NoSteady]
    BY DEF Init, NoRows
<1>5. TypedJobs
    BY <1>4, Emptied DEF TypedJobs
<1>6. \A h \in Handlers : Sound(h)
    BY <1>4, Emptied DEF Sound, OnComplaint, Idle
<1>7. TypedBounds
    BY FaultsAssumption DEF Init, TypedBounds
<1> QED
    BY <1>1, <1>2, <1>3, <1>5, <1>6, <1>7 DEF Typed

\* Next, by who takes the step.
LEMMA NextSteps ==
    ASSUME [Next]_vars
    PROVE  \/ \E h \in Handlers : Work(h)
           \/ \E a \in Accounts : ChangeAccount(a)
           \/ RemoveComplaint \/ Migrate \/ Restart
           \/ UNCHANGED vars
BY DEF Next, Work

LEMMA TypedStep == Typed /\ [Next]_vars => Typed'
<1> SUFFICES ASSUME Typed, [Next]_vars PROVE Typed'
    OBVIOUS
<1>1. CASE UNCHANGED vars
    BY <1>1 DEF vars, Typed, TypedAccounts, TypedStore, TypedTells, TypedJobs, TypedBounds, Sound,
       OnComplaint, Idle
<1> QED
    BY <1>1, NextSteps, TypedWork, TypedChangeAccount, TypedRemove, TypedRestart

\* The tables, the jobs and their deliveries keep their form; in particular no
\* delivery of a job puts a second notification into an inbox.
THEOREM AnnouncementsTypeCorrect == Spec => []TypeOK
<1>1. Spec => []Typed
    BY TypedInit, TypedStep, PTL DEF Spec
<1> QED
    BY <1>1, TypedIsTypeOK, PTL

-----------------------------------------------------------------------------
(* Who a promotion reaches.                                                *)

\* Of a promotion: whoever is wanted all through has not been passed over, and
\* whoever lacked something all through has not got past where it is asked for.
Reached(h) ==
    /\ \A a \in Accounts : steady[h].lacks[a] \cap account[a] = {}
    /\ \A a \in steady[h].wanted : Wanted(a)
    /\ At(h, "deliver") =>
        /\ \A a \in Accounts :
             /\ delivery[h][a] # "none" => steady[h].lacks[a] \cap {"actif", "likes"} = {}
             /\ delivery[h][a] \in {"row", "mail"} \/ rows[h][a] # 0 => steady[h].lacks[a] = {}
        /\ \A a \in steady[h].wanted :
             /\ delivery[h][a] # "none"
             /\ delivery[h][a] \in {"mail", "done"} => rows[h][a] = 1

ReachInv == \A h \in Handlers : Promotion(job[h]) => Reached(h)

LEMMA ReachTurn ==
    ASSUME Typed, ReachInv, NEW h \in Handlers, Turned(h), account' = account
    PROVE  ReachInv'
<1>1. PICK j \in JobRows, d \in Deliveries, r \in Inbox, s \in Steadies :
         Puts(h, j, d, r, s) /\ Turn(h, j, d, r, s)
    BY DEF Turned
<1>2. /\ job'[h] = j /\ delivery'[h] = d /\ rows'[h] = r /\ steady'[h] = s
      /\ \A g \in Handlers : g # h =>
           job'[g] = job[g] /\ delivery'[g] = delivery[g] /\ rows'[g] = rows[g] /\ steady'[g] = steady[g]
    BY <1>1, PutsOne DEF Typed
<1>3. ASSUME NEW g \in Handlers, g # h, Promotion(job'[g]) PROVE Reached(g)'
  <2>1. Reached(g)
      BY <1>2, <1>3 DEF ReachInv
  <2> QED
      BY <1>2, <1>3, <2>1 DEF Reached, At, Wanted
<1>4. ASSUME Promotion(j)
      PROVE  /\ \A a \in Accounts : s.lacks[a] \cap account[a] = {}
             /\ \A a \in s.wanted : Wanted(a)
             /\ j.at = "deliver" =>
                 /\ \A a \in Accounts :
                      /\ d[a] # "none" => s.lacks[a] \cap {"actif", "likes"} = {}
                      /\ d[a] \in {"row", "mail"} \/ r[a] # 0 => s.lacks[a] = {}
                 /\ \A a \in s.wanted :
                      /\ d[a] # "none"
                      /\ d[a] \in {"mail", "done"} => r[a] = 1
  <2>1. Sound(h) /\ steady[h] \in Steadies /\ delivery[h] \in Deliveries /\ s.wanted \subseteq Accounts
      BY PutsSame DEF Typed, Steadies
  <2>2. ~Over(j, d, r, s) /\ ~Begun(h, j, d)
      BY <1>4, Emptied DEF Over, Begun, Promotion
  <2>3. CASE Announced(h, j, d, s)
      BY <2>3, <2>1 DEF Announced
  <2>4. CASE Addressed(h, j, d) /\ r = rows[h] /\ s = steady[h]
    <3>1. Reached(h) /\ rows[h] = NoRows
        BY <1>4, <2>1, <2>4 DEF Addressed, Promotion, ReachInv, Sound, At
    <3>2. \A a \in Accounts : s.lacks[a] \cap account[a] = {} /\ r[a] = 0
        BY <2>4, <3>1, Emptied DEF Reached
    <3>3. \A a \in s.wanted : Wanted(a) /\ d[a] = "account"
        BY <2>1, <2>4, <3>1 DEF Reached, Addressed, Wanted, Conditions
    <3>4. \A a \in Accounts : d[a] \in {"account", "none"} /\ (d[a] # "none" => {"actif", "likes"} \subseteq account[a])
        BY <2>4 DEF Addressed
    <3> QED
        BY <3>2, <3>3, <3>4
  <2>5. CASE Delivered(h, j, d, r) /\ s = steady[h]
    <3>1. j = job[h] /\ Reached(h) /\ At(h, "deliver")
        BY <1>4, <2>5 DEF Delivered, ReachInv
    <3>2. PICK a \in Accounts :
            /\ \A b \in Accounts : b # a => d[b] = delivery[h][b] /\ r[b] = rows[h][b]
            /\ delivery[h][a] \notin Ended
            /\ \/ d[a] = "failed" /\ r[a] = rows[h][a]
               \/ delivery[h][a] = "account" /\ d[a] = "done" /\ r[a] = rows[h][a]
                  /\ ("actif" \notin account[a] \/ ~Allows(a, job[h]))
               \/ delivery[h][a] = "account" /\ d[a] \in {"mail", "row"} /\ r[a] = rows[h][a]
                  /\ "actif" \in account[a] /\ Allows(a, job[h]) /\ (d[a] = "mail" <=> MailOnly(job[h]))
               \/ delivery[h][a] = "row" /\ d[a] = "mail" /\ r[a] = rows[h][a] + 1
               \/ delivery[h][a] = "mail" /\ d[a] = "done" /\ r[a] = rows[h][a]
        BY <2>5 DEF Delivered
    <3>3. ~MailOnly(job[h]) /\ (Allows(a, job[h]) <=> "promotion" \in account[a])
        BY <1>4, <3>1 DEF Promotion, MailOnly, Allows, BypassPreferences, Complaints
    <3>4. delivery[h][a] # "none" /\ steady[h].lacks[a] \subseteq Conditions
        BY <2>1, <3>2 DEF Ended, Steadies
    <3>5. s.lacks[a] \cap account[a] = {} /\ s.lacks[a] \cap {"actif", "likes"} = {}
        BY <2>5, <3>1, <3>4 DEF Reached
    <3>6. (d[a] \in {"row", "mail"} \/ r[a] # 0) => s.lacks[a] = {}
      <4>1. CASE r[a] = rows[h][a] /\ rows[h][a] # 0
          BY <2>5, <3>1, <4>1 DEF Reached
      <4>2. CASE delivery[h][a] = "account" /\ d[a] = "row"
        <5>1. "promotion" \notin s.lacks[a]
            BY <3>2, <3>3, <3>5, <4>2
        <5> QED
            BY <2>5, <3>4, <3>5, <5>1 DEF Conditions
      <4>3. CASE delivery[h][a] \in {"row", "mail"}
          BY <2>5, <3>1, <4>3 DEF Reached
      <4> QED
          BY <3>2, <3>3, <4>1, <4>2, <4>3
    <3>7. a \in s.wanted => d[a] # "none" /\ (d[a] \in {"mail", "done"} => r[a] = 1)
      <4> SUFFICES ASSUME a \in s.wanted PROVE d[a] # "none" /\ (d[a] \in {"mail", "done"} => r[a] = 1)
          OBVIOUS
      <4>1. Wanted(a) /\ (delivery[h][a] \in {"mail", "done"} => rows[h][a] = 1)
          BY <2>5, <3>1 DEF Reached
      <4>2. "actif" \in account[a] /\ Allows(a, job[h])
          BY <3>3, <4>1 DEF Wanted, Conditions
      <4>3. delivery[h][a] = "row" => rows[h][a] = 0
          BY <2>1 DEF Sound
      <4> QED
          BY <3>2, <3>3, <4>1, <4>2, <4>3
    <3>8. \A b \in Accounts : b # a =>
            /\ d[b] # "none" => s.lacks[b] \cap {"actif", "likes"} = {}
            /\ d[b] \in {"row", "mail"} \/ r[b] # 0 => s.lacks[b] = {}
            /\ b \in s.wanted => d[b] # "none" /\ (d[b] \in {"mail", "done"} => r[b] = 1)
        BY <2>5, <3>1, <3>2 DEF Reached
    <3>9. (\A b \in Accounts : s.lacks[b] \cap account[b] = {}) /\ \A b \in s.wanted : Wanted(b)
        BY <2>5, <3>1 DEF Reached
    <3> QED
        BY <2>1, <3>5, <3>6, <3>7, <3>8, <3>9
  <2>6. CASE Alerted(h, j, d) /\ s = steady[h]
    <3>1. Reached(h)
        BY <1>4, <2>6 DEF Alerted, Promotion, ReachInv
    <3> QED
        BY <2>6, <3>1 DEF Alerted, Reached
  <2> QED
      BY <1>1, <2>2, <2>3, <2>4, <2>5, <2>6 DEF Turn
<1>5. Promotion(j) => Reached(h)'
    BY <1>2, <1>4 DEF Reached, At, Wanted
<1> QED
    BY <1>2, <1>3, <1>5 DEF ReachInv

LEMMA ReachChange ==
    ASSUME Typed, ReachInv, NEW c \in Accounts, ChangeAccount(c)
    PROVE  ReachInv'
<1>1. /\ UNCHANGED <<job, delivery, rows>>
      /\ \A h \in Handlers :
           /\ steady'[h].wanted = {b \in steady[h].wanted : Wanted(b)'}
           /\ \A b \in Accounts : steady'[h].lacks[b] = steady[h].lacks[b] \ account'[b]
    BY TypedChangeAccount
<1>2. ASSUME NEW h \in Handlers, Promotion(job'[h]) PROVE Reached(h)'
  <2>1. Reached(h)
      BY <1>1, <1>2 DEF ReachInv
  <2>2. /\ \A a \in Accounts : steady'[h].lacks[a] \cap account'[a] = {}
        /\ \A a \in Accounts : steady'[h].lacks[a] \subseteq steady[h].lacks[a]
        /\ \A a \in steady'[h].wanted : a \in steady[h].wanted /\ Wanted(a)'
      BY <1>1
  <2>3. At(h, "deliver")' => At(h, "deliver")
      BY <1>1 DEF At
  <2>4. ASSUME At(h, "deliver"), NEW a \in Accounts
        PROVE  /\ delivery'[h][a] # "none" => steady'[h].lacks[a] \cap {"actif", "likes"} = {}
               /\ delivery'[h][a] \in {"row", "mail"} \/ rows'[h][a] # 0 => steady'[h].lacks[a] = {}
      BY <1>1, <2>1, <2>2, <2>4 DEF Reached
  <2>5. ASSUME At(h, "deliver"), NEW a \in steady'[h].wanted
        PROVE  delivery'[h][a] # "none" /\ (delivery'[h][a] \in {"mail", "done"} => rows'[h][a] = 1)
      BY <1>1, <2>1, <2>2, <2>5 DEF Reached
  <2> QED
      BY <2>2, <2>3, <2>4, <2>5 DEF Reached
<1> QED
    BY <1>2 DEF ReachInv

LEMMA ReachStep == Typed /\ ReachInv /\ [Next]_vars => ReachInv'
<1> SUFFICES ASSUME Typed, ReachInv, [Next]_vars PROVE ReachInv'
    OBVIOUS
<1>1. ASSUME UNCHANGED <<account, job, delivery, rows, steady>> PROVE ReachInv'
    BY <1>1 DEF ReachInv, Reached, At, Wanted
<1>2. ASSUME NEW h \in Handlers, Work(h) PROVE ReachInv'
    BY <1>2, WorkTurns, WorkBounds, ReachTurn DEF Typed
<1>3. CASE Restart
    BY <1>3, TypedRestart, Emptied DEF ReachInv, Promotion
<1>4. CASE RemoveComplaint \/ Migrate
    BY <1>1, <1>4 DEF RemoveComplaint, Migrate
<1>5. CASE UNCHANGED vars
    BY <1>1, <1>5 DEF vars
<1> QED
    BY <1>2, <1>3, <1>4, <1>5, NextSteps, ReachChange

\* Whoever is active, interested and willing from the announcement of a hotel or an
\* offer to the end of its deliveries has one notification of it, unless a statement
\* of his delivery failed; whoever lacks one of the three all through has none.
THEOREM PromotionReachesHolds == Spec => []PromotionReaches
<1>1. Init => ReachInv
    BY Emptied DEF Init, ReachInv, Promotion
<1>2. Typed /\ ReachInv => PromotionReaches
  <2> SUFFICES ASSUME Typed, ReachInv, NEW h \in Handlers, Promotion(job[h]), AllEnded(h)
               PROVE  /\ \A a \in steady[h].wanted :
                           delivery[h][a] = "failed" \/ (delivery[h][a] = "done" /\ rows[h][a] = 1)
                      /\ \A a \in Accounts : steady[h].lacks[a] # {} => rows[h][a] = 0
      BY DEF PromotionReaches
  <2>1. Reached(h) /\ At(h, "deliver") /\ (\A a \in Accounts : delivery[h][a] \in Ended)
        /\ steady[h].wanted \subseteq Accounts
      BY PutsSame DEF ReachInv, AllEnded, Typed, Steadies
  <2> QED
      BY <2>1 DEF Reached, Ended
<1> QED
    BY <1>1, <1>2, TypedInit, TypedStep, ReachStep, PTL DEF Spec

-----------------------------------------------------------------------------
(* What the customer knows of the complaint.                                *)

\* A request that no other has overlapped is alone with the complaint, and what it
\* has read or written of its status is still so.
Uncrossed(h) ==
    OnComplaint(h) /\ h \notin crossed =>
        /\ \A g \in Handlers : g # h => ~OnComplaint(g)
        /\ complaint.statut \in StatutsReclamation => complaint.statut = job[h].statut

Writing(h) == At(h, "write") => OnComplaint(h)

ToldInv == ComplaintTold /\ \A h \in Handlers : Uncrossed(h) /\ Writing(h)

\* A request begins to do with the complaint.
LEMMA CrossingStep ==
    ASSUME NEW h \in Handlers, Crossing(h), \A g \in Handlers : g # h => job'[g] = job[g],
           \A g \in Handlers : Uncrossed(g), ~OnComplaint(h),
           complaint'.statut \in StatutsReclamation => complaint'.statut = job'[h].statut
    PROVE  \A g \in Handlers : Uncrossed(g)'
<1> DEFINE others == {g \in Handlers \ {h} : OnComplaint(g)}
<1>1. \A g \in Handlers : g # h => (OnComplaint(g)' <=> OnComplaint(g))
    BY DEF OnComplaint, Idle
<1>2. CASE others = {}
    BY <1>1, <1>2 DEF Uncrossed
<1>3. CASE others # {}
  <2>1. crossed' = crossed \cup others \cup {h}
      BY <1>3 DEF Crossing
  <2> QED
      BY <1>1, <2>1 DEF Uncrossed
<1> QED
    BY <1>2, <1>3

LEMMA ToldWork ==
    ASSUME Typed, ToldInv, NEW h \in Handlers, Work(h)
    PROVE  ToldInv'
<1>1. \A g \in Handlers : g # h => job'[g] = job[g]
  <2>1. PICK j \in JobRows, d \in Deliveries, r \in Inbox, s \in Steadies : Puts(h, j, d, r, s)
      BY WorkTurns DEF Turned
  <2> QED
      BY <2>1, PutsOne DEF Typed
<1>2. \A g \in Handlers : g # h => (OnComplaint(g)' <=> OnComplaint(g)) /\ Writing(g)'
    BY <1>1 DEF OnComplaint, Idle, Writing, At, ToldInv
<1>3. \A g \in Handlers : Uncrossed(g) /\ Writing(g)
    BY DEF ToldInv
<1>4. CASE Silent(h)
  <2>1. complaint' = complaint /\ crossed' = crossed /\ Writing(h)' /\ ComplaintTold'
      BY <1>4 DEF Silent, Tells, Writing, At, ToldInv, ComplaintTold
  <2>2. ASSUME NEW g \in Handlers PROVE Uncrossed(g)'
    <3>1. CASE g = h
        BY <1>2, <1>3, <1>4, <2>1, <3>1 DEF Silent, Uncrossed
    <3>2. CASE g # h
        BY <1>1, <1>2, <1>3, <1>4, <2>1, <3>2 DEF Silent, Uncrossed
    <3> QED
        BY <3>1, <3>2
  <2> QED
      BY <1>2, <2>1, <2>2 DEF ToldInv
<1>5. ASSUME Ends(h)
      PROVE  job'[h] = Quiet /\ ~OnComplaint(h)' /\ Writing(h)' /\ crossed' = crossed \ {h}
  <2>1. job'[h] = Quiet
      BY <1>5 DEF Ends, Typed, TypedJobs
  <2> QED
      BY <1>5, <2>1, Emptied DEF Ends, OnComplaint, Idle, Writing, At
<1>6. CASE Ends(h) /\ UNCHANGED <<told, settled, complaint>>
  <2>1. ComplaintTold'
      BY <1>6 DEF ComplaintTold, ToldInv
  <2>2. \A g \in Handlers : Uncrossed(g)'
      BY <1>1, <1>2, <1>3, <1>5, <1>6 DEF Uncrossed
  <2> QED
      BY <1>2, <1>5, <1>6, <2>1, <2>2 DEF ToldInv
<1>7. ASSUME NEW s \in Statuts \cup {"OUVERTE"}, CreateComplaint(h, s) PROVE ToldInv'
  <2>1. complaint' = [complaint EXCEPT !.statut = s] /\ settled' = FALSE /\ Crossing(h) /\ Idle(h)
      BY <1>7 DEF CreateComplaint, Starts
  <2>2. complaint'.statut = s
      BY <2>1 DEF Typed, TypedTells
  <2>3. job'[h].at = "deliver" /\ job'[h].statut = s
      BY <1>7, CreateComplaintTurns DEF Typed
  <2>4. \A g \in Handlers : Uncrossed(g)'
      BY <1>1, <1>3, <2>1, <2>2, <2>3, CrossingStep DEF OnComplaint
  <2>5. Writing(h)' /\ ComplaintTold'
      BY <2>1, <2>3 DEF Writing, At, ComplaintTold
  <2> QED
      BY <1>2, <2>4, <2>5 DEF ToldInv
<1>8. CASE ReadComplaint(h)
  <2>1. UNCHANGED <<complaint, settled, told>> /\ Crossing(h) /\ Idle(h)
      BY <1>8 DEF ReadComplaint, Starts
  <2>2. job'[h].at = "write" /\ job'[h].topic = "updating" /\ job'[h].statut = complaint.statut
      BY <1>8, ReadComplaintTurns DEF Typed
  <2>3. \A g \in Handlers : Uncrossed(g)'
      BY <1>1, <1>3, <2>1, <2>2, CrossingStep DEF OnComplaint
  <2>4. Writing(h)' /\ ComplaintTold'
      BY <2>1, <2>2 DEF Writing, OnComplaint, Idle, Complaints, ComplaintTold, ToldInv
  <2> QED
      BY <1>2, <2>3, <2>4 DEF ToldInv
<1>9. ASSUME NEW s \in Statuts \cup {None}, NEW r \in Reponses \cup {None}, WriteComplaint(h, s, r)
      PROVE  ToldInv'
  <2>1. OnComplaint(h) /\ complaint.statut \in StatutsReclamation /\ told' = told
      BY <1>3, <1>9 DEF WriteComplaint, Writing
  <2>2. CASE /\ settled' = FALSE /\ crossed' = crossed
             /\ job'[h].at = "deliver" /\ job'[h].statut = complaint'.statut
    <3>1. ComplaintTold' /\ Writing(h)'
        BY <2>2 DEF ComplaintTold, Writing, At
    <3>2. ASSUME NEW g \in Handlers PROVE Uncrossed(g)'
      <4>1. CASE g = h
          BY <1>2, <1>3, <2>1, <2>2, <4>1 DEF Uncrossed
      <4>2. CASE g # h
          BY <1>2, <1>3, <2>1, <2>2, <4>2 DEF Uncrossed
      <4> QED
          BY <4>1, <4>2
    <3> QED
        BY <1>2, <3>1, <3>2 DEF ToldInv
  <2>3. CASE /\ Ends(h)
             /\ settled' = (settled /\ (h \notin crossed \/ complaint' = complaint))
             /\ complaint'.statut \in {complaint.statut, job[h].statut}
    <3>1. ComplaintTold'
      <4>1. CASE complaint' = complaint
          BY <2>1, <2>3, <4>1 DEF ComplaintTold, ToldInv
      <4>2. CASE h \notin crossed
        <5>1. complaint'.statut = complaint.statut
            BY <1>3, <2>1, <2>3, <4>2 DEF Uncrossed
        <5> QED
            BY <2>1, <2>3, <5>1 DEF ComplaintTold, ToldInv
      <4>3. CASE settled' = FALSE
          BY <4>3 DEF ComplaintTold
      <4> QED
          BY <2>3, <4>1, <4>2, <4>3
    <3>2. \A g \in Handlers : Uncrossed(g)'
        BY <1>1, <1>2, <1>3, <1>5, <2>1, <2>3 DEF Uncrossed
    <3> QED
        BY <1>2, <1>5, <2>3, <3>1, <3>2 DEF ToldInv
  <2> QED
      BY <1>9, <2>2, <2>3, WriteComplaintTurns
<1>10. ASSUME NEW a \in Accounts, CreateRow(h, a) PROVE ToldInv'
  <2>1. job' = job /\ crossed' = crossed /\ complaint' = complaint /\ At(h, "deliver")
      BY <1>10 DEF CreateRow, Delivers
  <2>2. \A g \in Handlers : Uncrossed(g)' /\ Writing(g)'
      BY <1>3, <2>1 DEF Uncrossed, Writing, OnComplaint, Idle, At
  <2>3. CASE job[h].topic \in Complaints /\ told' = job[h].statut /\ settled' = (h \notin crossed)
    <3>1. OnComplaint(h)
        BY <2>1, <2>3 DEF OnComplaint, Idle, At
    <3> QED
        BY <1>3, <2>1, <2>2, <2>3, <3>1 DEF Uncrossed, ComplaintTold, ToldInv
  <2>4. CASE UNCHANGED <<told, settled>>
      BY <2>1, <2>2, <2>4 DEF ComplaintTold, ToldInv
  <2> QED
      BY <1>10, <2>3, <2>4 DEF CreateRow
<1> QED
    BY <1>4, <1>6, <1>7, <1>8, <1>9, <1>10, WorkTells

LEMMA ToldStep == Typed /\ ToldInv /\ [Next]_vars => ToldInv'
<1> SUFFICES ASSUME Typed, ToldInv, [Next]_vars PROVE ToldInv'
    OBVIOUS
<1>1. ASSUME UNCHANGED <<job, told, crossed, settled>>,
             complaint' = complaint \/ complaint'.statut = "removed"
      PROVE  ToldInv'
    BY <1>1 DEF ToldInv, ComplaintTold, Uncrossed, Writing, OnComplaint, Idle, At, StatutsReclamation
<1>2. CASE RemoveComplaint \/ Migrate
    BY <1>1, <1>2, TypedRemove
<1>3. ASSUME NEW a \in Accounts, ChangeAccount(a) PROVE ToldInv'
    BY <1>1, <1>3, TypedChangeAccount
<1>4. CASE UNCHANGED vars
    BY <1>1, <1>4 DEF vars
<1>5. CASE Restart
  <2>1. \A h \in Handlers : Uncrossed(h)' /\ Writing(h)'
      BY <1>5, TypedRestart, Emptied DEF Uncrossed, Writing, OnComplaint, Idle, At
  <2> QED
      BY <1>5, <2>1, TypedRestart DEF ToldInv, ComplaintTold
<1> QED
    BY <1>2, <1>3, <1>4, <1>5, NextSteps, ToldWork

\* The customer's newest notification names the status of the complaint whenever the
\* last change of it was told by a request that no other overlapped: the comparison
\* with what was read, the write and the notice then agree.
THEOREM ComplaintToldHolds == Spec => []ComplaintTold
<1>1. Init => ToldInv
    BY Emptied DEF Init, ToldInv, ComplaintTold, Uncrossed, Writing, OnComplaint, Idle, At,
       StatutsReclamation
<1>2. ToldInv => ComplaintTold
    BY DEF ToldInv
<1> QED
    BY <1>1, <1>2, TypedInit, TypedStep, ToldStep, PTL DEF Spec
=============================================================================
