-------------------------- MODULE RemindersProofs --------------------------
(***************************************************************************)
(* However many rounds are under way at once, reminders reach the inbox in *)
(* time; and a text that no two rounds raced for is mailed at most once.   *)
(***************************************************************************)
EXTENDS Reminders, TLAPS

\* The entry of a due booking on the list of a round.
DueEntry(b) == Entry(b, ReminderText(b, booking[b].from))
\* A notification that says t is there, or was until its account deleted it.
Held(t) == inbox[t] > 0 \/ t \in tidied

TypedTable ==
    /\ now \in Nat
    /\ booking \in [Bookings -> [statut : Statuts, from : CheckIns, reviewed : BOOLEAN]]
    /\ account \in [Accounts -> [actif : BOOLEAN, wants : BOOLEAN]]
    /\ inbox \in [Texts -> Nat]
    /\ mailed \in [Texts -> Nat]
    /\ tidied \subseteq Texts
    /\ raced \subseteq Texts
    /\ due \subseteq Bookings

\* A round looks at one entry at a time, and its texts are of its kind.
TypedRounds ==
    /\ loop \in [Loops -> [at : {"idle", "look", "notify", "mail"},
                           list : SUBSET Entries, cur : SUBSET Entries]]
    /\ \A r \in Loops :
        /\ \A e \in loop[r].list \cup loop[r].cur : e.text.kind = Kind(r)
        /\ loop[r].at \in {"notify", "mail"} =>
              \E e \in loop[r].list : loop[r].cur = {e}

\* A due booking still is what made it due; and unless its reminder is in the
\* inbox, no round has ended since, and every round under way has it on its list.
DueInv ==
    /\ \A b \in due :
        /\ booking[b].statut = "CONFIRMEE"
        /\ now < booking[b].from /\ booking[b].from <= now + Ahead
        /\ account[AccountOf[b]].actif /\ account[AccountOf[b]].wants
    /\ \A b \in due :
        \/ Found(ReminderText(b, booking[b].from))
        \/ /\ "reminder" \notin rounds
           /\ \A r \in CheckInLoops : loop[r].at # "idle" => DueEntry(b) \in loop[r].list
    /\ \A r \in Loops : loop[r].at = "mail" => \A e \in loop[r].cur : Held(e.text)

TimeInv == TypedTable /\ TypedRounds /\ DueInv

-----------------------------------------------------------------------------
LEMMA TextsKnown ==
    ASSUME NEW b \in Bookings, NEW from \in CheckIns
    PROVE  /\ ReminderText(b, from) \in Texts /\ ReminderText(b, from).kind = "reminder"
           /\ ReviewText(b) \in Texts /\ ReviewText(b).kind = "review"
BY DEF Texts, ReminderText, ReviewText

LEMMA EntriesKnown ==
    ASSUME NEW b \in Bookings, NEW t \in Texts
    PROVE  Entry(b, t) \in Entries /\ Entry(b, t).b = b /\ Entry(b, t).text = t
BY DEF Entries, Entry

LEMMA EntryFields ==
    ASSUME NEW e \in Entries
    PROVE  e.b \in Bookings /\ e.text \in Texts /\ e = Entry(e.b, e.text)
BY DEF Entries, Entry

LEMMA OneMore ==
    ASSUME NEW f \in [Texts -> Nat], NEW t \in Texts
    PROVE  /\ AddOne(f, t) \in [Texts -> Nat]
           /\ AddOne(f, t)[t] > 0
           /\ AddOne(f, t)[t] <= f[t] + 1
           /\ \A u \in Texts : u # t => AddOne(f, t)[u] = f[u]
           /\ \A u \in Texts : f[u] > 0 => AddOne(f, t)[u] > 0
BY TimesAssumption DEF AddOne

\* What says t is taken to say t.
LEMMA HeldIsFound ==
    ASSUME NEW t \in Texts
    PROVE  /\ Held(t) => Found(t)
           /\ Held(t)' => Found(t)'
BY DEF Held, Found, Covers

LEMMA FoundStays ==
    ASSUME NEW t, Found(t), tidied \subseteq tidied',
           \A u \in Texts : inbox[u] > 0 => inbox'[u] > 0 \/ u \in tidied'
    PROVE  Found(t)'
BY DEF Found

-----------------------------------------------------------------------------
LEMMA TimeInit == Init => TimeInv
<1> SUFFICES ASSUME Init PROVE TimeInv
    OBVIOUS
<1>1. TypedTable
    BY DEF Init, TypedTable, Statuts
<1>2. TypedRounds
    BY DEF Init, TypedRounds, Quiet
<1>3. DueInv
    BY DEF Init, DueInv, Quiet
<1> QED
    BY <1>1, <1>2, <1>3 DEF TimeInv

\* Nothing that a due booking depends on has changed.
LEMMA DueStays ==
    ASSUME TimeInv, TypedRounds', UNCHANGED <<now, booking, account, due, rounds, tidied>>,
           \A t \in Texts : inbox[t] > 0 => inbox'[t] > 0,
           \A b \in due, r \in CheckInLoops :
              \/ Found(ReminderText(b, booking[b].from))'
              \/ DueEntry(b) \in loop[r].list => DueEntry(b) \in loop'[r].list,
           \A r \in CheckInLoops : loop'[r].at # "idle" =>
              \/ loop[r].at # "idle"
              \/ \A b \in due : DueEntry(b) \in loop'[r].list,
           \A r \in Loops : loop'[r].at = "mail" =>
              \/ loop[r].at = "mail" /\ loop'[r].cur = loop[r].cur
              \/ \A e \in loop'[r].cur : inbox'[e.text] > 0
    PROVE  DueInv'
<1>1. \A b \in due' :
        /\ booking'[b].statut = "CONFIRMEE"
        /\ now' < booking'[b].from /\ booking'[b].from <= now' + Ahead
        /\ account'[AccountOf[b]].actif /\ account'[AccountOf[b]].wants
    BY DEF TimeInv, DueInv
<1>2. ASSUME NEW b \in due
      PROVE  \/ Found(ReminderText(b, booking[b].from))'
             \/ /\ "reminder" \notin rounds
                /\ \A r \in CheckInLoops : loop'[r].at # "idle" => DueEntry(b) \in loop'[r].list
  <2>1. b \in Bookings /\ booking[b].from \in CheckIns
      BY DEF TimeInv, TypedTable
  <2>2. PICK t \in Texts : t = ReminderText(b, booking[b].from)
      BY <2>1, TextsKnown
  <2>3. CASE Found(t)
    <3>1. Found(t)'
        BY <2>3, FoundStays
    <3>2. ReminderText(b, booking[b].from)' = t
        BY <2>2 DEF ReminderText
    <3> QED
        BY <3>1, <3>2 DEF Found
  <2>4. CASE ~Found(t)
    <3>1. "reminder" \notin rounds
        BY <2>2, <2>4 DEF TimeInv, DueInv
    <3>2. \A r \in CheckInLoops : loop[r].at # "idle" => DueEntry(b) \in loop[r].list
        BY <2>2, <2>4 DEF TimeInv, DueInv
    <3> QED
        BY <3>1, <3>2
  <2> QED
      BY <2>3, <2>4
<1>3. ASSUME NEW b \in due
      PROVE  DueEntry(b)' = DueEntry(b)
    BY DEF DueEntry, ReminderText, Entry
<1>4. ASSUME NEW r \in Loops, loop'[r].at = "mail", NEW e \in loop'[r].cur
      PROVE  Held(e.text)'
  <2>1. CASE loop[r].at = "mail" /\ loop'[r].cur = loop[r].cur
    <3>1. PICK t : t = e.text
        OBVIOUS
    <3>2. e \in Entries
        BY <2>1, <1>4 DEF TimeInv, TypedRounds
    <3>3. t \in Texts
        BY <3>1, <3>2, EntryFields
    <3>4. Held(t)
        BY <2>1, <1>4, <3>1 DEF TimeInv, DueInv
    <3> QED
        BY <3>1, <3>3, <3>4 DEF Held
  <2>2. CASE \A d \in loop'[r].cur : inbox'[d.text] > 0
      BY <2>2, <1>4 DEF Held
  <2> QED
      BY <2>1, <2>2, <1>4
<1> QED
    BY <1>1, <1>2, <1>3, <1>4 DEF DueInv, Held, Found

LEMMA TimeBegin ==
    ASSUME TimeInv, NEW r \in Loops, Begin(r)
    PROVE  TimeInv'
<1> DEFINE list == IF r \in CheckInLoops
                   THEN {Entry(b, ReminderText(b, booking[b].from)) : b \in ToRemind}
                   ELSE {Entry(b, ReviewText(b)) : b \in ToAsk}
<1>1. /\ loop[r].at = "idle"
      /\ loop' = [loop EXCEPT ![r] = [at |-> "look", list |-> list, cur |-> {}]]
      /\ UNCHANGED <<now, booking, account, inbox, mailed, rounds, due, tidied, raced>>
    BY DEF Begin
<1>2. TypedTable'
    BY <1>1 DEF TimeInv, TypedTable
<1>3. \A e \in list : e \in Entries /\ e.text.kind = Kind(r)
  <2>1. CASE r \in CheckInLoops
    <3> SUFFICES ASSUME NEW b \in ToRemind
                 PROVE  /\ Entry(b, ReminderText(b, booking[b].from)) \in Entries
                        /\ Entry(b, ReminderText(b, booking[b].from)).text.kind = "reminder"
        BY <2>1 DEF Kind
    <3>1. b \in Bookings /\ booking[b].from \in CheckIns
        BY DEF ToRemind, TimeInv, TypedTable
    <3> QED
        BY <3>1, TextsKnown, EntriesKnown
  <2>2. CASE r \notin CheckInLoops
    <3> SUFFICES ASSUME NEW b \in ToAsk
                 PROVE  /\ Entry(b, ReviewText(b)) \in Entries
                        /\ Entry(b, ReviewText(b)).text.kind = "review"
        BY <2>2 DEF Kind
    <3>1. b \in Bookings /\ booking[b].from \in CheckIns
        BY DEF ToAsk, TimeInv, TypedTable
    <3> QED
        BY <3>1, TextsKnown, EntriesKnown
  <2> QED
      BY <2>1, <2>2
<1>4. TypedRounds'
    BY <1>1, <1>3 DEF TimeInv, TypedRounds, Kind
<1>5. r \in CheckInLoops => \A b \in due : DueEntry(b) \in list
    BY DEF DueEntry, ToRemind, TimeInv, TypedTable, DueInv
<1>6. loop'[r] = [at |-> "look", list |-> list, cur |-> {}]
      /\ \A s \in Loops : s # r => loop'[s] = loop[s]
    BY <1>1 DEF TimeInv, TypedRounds
<1>7. \A s \in CheckInLoops : s \in Loops
    BY DEF Loops
<1>8. \A b \in due, s \in CheckInLoops : DueEntry(b) \in loop[s].list => DueEntry(b) \in loop'[s].list
    BY <1>5, <1>6, <1>7
<1>9. \A s \in CheckInLoops : loop'[s].at # "idle" =>
          loop[s].at # "idle" \/ \A b \in due : DueEntry(b) \in loop'[s].list
    BY <1>5, <1>6, <1>7
<1>10. \A s \in Loops : loop'[s].at = "mail" => loop[s].at = "mail" /\ loop'[s].cur = loop[s].cur
    BY <1>6
<1>11. DueInv'
    BY <1>1, <1>4, <1>8, <1>9, <1>10, DueStays
<1> QED
    BY <1>2, <1>4, <1>11 DEF TimeInv

LEMMA TimeLook ==
    ASSUME TimeInv, NEW r \in Loops, Look(r)
    PROVE  TimeInv'
<1>1. PICK e \in loop[r].list :
          \/ /\ \E u \in Texts : inbox[u] > 0 /\ Covers(u, e.text)
             /\ Drops(r, e) /\ UNCHANGED raced
          \/ Takes(r, e)
    BY DEF Look
<1>2. /\ loop[r].at = "look"
      /\ UNCHANGED <<now, booking, account, inbox, mailed, rounds, due, tidied>>
    BY DEF Look
<1>3. TypedTable'
  <2>1. e.text \in Texts
      BY EntryFields DEF TimeInv, TypedRounds
  <2>2. raced' \subseteq Texts
      BY <1>1, <2>1 DEF Takes, TimeInv, TypedTable
  <2> QED
      BY <1>2, <2>2 DEF TimeInv, TypedTable
<1>4. TypedRounds'
    BY <1>1 DEF TimeInv, TypedRounds, Drops, Takes, Kind
<1>5. /\ \A s \in Loops : s # r => loop'[s] = loop[s]
      /\ loop'[r].at \in {"look", "notify"}
      /\ \/ loop'[r].list = loop[r].list
         \/ Found(e.text) /\ loop'[r].list = loop[r].list \ {e}
  <2>1. CASE (\E u \in Texts : inbox[u] > 0 /\ Covers(u, e.text)) /\ Drops(r, e)
    <3>2. Found(e.text)
        BY <2>1 DEF Found
    <3>1. loop' = [loop EXCEPT ![r] = [at |-> "look", list |-> loop[r].list \ {e}, cur |-> {}]]
        BY <2>1 DEF Drops
    <3> QED
        BY <3>1, <3>2 DEF TimeInv, TypedRounds
  <2>2. CASE Takes(r, e)
      BY <2>2 DEF Takes, TimeInv, TypedRounds
  <2> QED
      BY <1>1, <2>1, <2>2
<1>6. \A s \in CheckInLoops : s \in Loops
    BY DEF Loops
<1>7. ASSUME NEW b \in due, NEW s \in CheckInLoops
      PROVE  \/ Found(ReminderText(b, booking[b].from))'
             \/ DueEntry(b) \in loop[s].list => DueEntry(b) \in loop'[s].list
  <2>1. b \in Bookings /\ booking[b].from \in CheckIns
      BY DEF TimeInv, TypedTable
  <2>2. PICK t \in Texts : t = ReminderText(b, booking[b].from)
      BY <2>1, TextsKnown
  <2>3. DueEntry(b) = e => e.text = t
      BY <2>1, <2>2, EntriesKnown DEF DueEntry
  <2>4. ReminderText(b, booking[b].from)' = t
      BY <1>2, <2>2 DEF ReminderText
  <2>5. Found(t) => Found(t)'
      BY <1>2, FoundStays
  <2>6. Found(t)' => Found(ReminderText(b, booking[b].from))'
      BY <2>4 DEF Found
  <2>7. CASE DueEntry(b) = e
      BY <1>5, <1>6, <2>3, <2>5, <2>6, <2>7
  <2> QED
      BY <1>5, <1>6, <2>7
<1>8. \A s \in CheckInLoops : loop'[s].at # "idle" => loop[s].at # "idle"
    BY <1>2, <1>5, <1>6
<1>9. \A s \in Loops : loop'[s].at = "mail" => loop[s].at = "mail" /\ loop'[s].cur = loop[s].cur
    BY <1>5
<1>10. DueInv'
    BY <1>2, <1>4, <1>7, <1>8, <1>9, DueStays
<1> QED
    BY <1>3, <1>4, <1>10 DEF TimeInv

LEMMA TimeNotify ==
    ASSUME TimeInv, NEW r \in Loops, NotifyCheckIn(r) \/ NotifyReview(r)
    PROVE  TimeInv'
<1>1. PICK e \in loop[r].cur :
          \/ inbox' = AddOne(inbox, e.text) /\ (Goes(r, "mail") \/ Drops(r, e))
          \/ /\ r \in CheckInLoops
             /\ ~(account[AccountOf[e.b]].actif /\ account[AccountOf[e.b]].wants)
             /\ Drops(r, e) /\ UNCHANGED inbox
    BY DEF NotifyCheckIn, NotifyReview
<1>2. /\ loop[r].at = "notify"
      /\ UNCHANGED <<now, booking, account, mailed, rounds, due, tidied, raced>>
    BY DEF NotifyCheckIn, NotifyReview
<1>3. loop[r].cur = {e} /\ e \in loop[r].list /\ e \in Entries
    BY <1>1, <1>2 DEF TimeInv, TypedRounds
<1>4. e.text \in Texts /\ e.b \in Bookings
    BY <1>3, EntryFields
<1>5. inbox' \in [Texts -> Nat] /\ \A t \in Texts : inbox[t] > 0 => inbox'[t] > 0
    BY <1>1, <1>4, OneMore DEF TimeInv, TypedTable
<1>6. TypedTable'
    BY <1>2, <1>5 DEF TimeInv, TypedTable
<1>7. /\ \A s \in Loops : s # r => loop'[s] = loop[s]
      /\ \/ loop'[r].at = "mail" /\ loop'[r].list = loop[r].list /\ loop'[r].cur = {e}
         \/ loop'[r].at = "look" /\ loop'[r].list = loop[r].list \ {e} /\ loop'[r].cur = {}
    BY <1>1, <1>3 DEF Goes, Drops, TimeInv, TypedRounds
<1>8. TypedRounds'
  <2>1. loop' \in [Loops -> [at : {"idle", "look", "notify", "mail"},
                             list : SUBSET Entries, cur : SUBSET Entries]]
      BY <1>1 DEF Goes, Drops, TimeInv, TypedRounds
  <2>2. ASSUME NEW s \in Loops
        PROVE  /\ \A d \in loop'[s].list \cup loop'[s].cur : d.text.kind = Kind(s)
               /\ loop'[s].at \in {"notify", "mail"} =>
                     \E d \in loop'[s].list : loop'[s].cur = {d}
      BY <1>3, <1>7 DEF TimeInv, TypedRounds
  <2> QED
      BY <2>1, <2>2 DEF TypedRounds, Kind
<1>9. inbox'[e.text] > 0 \/ inbox' = inbox
    BY <1>1, <1>4, OneMore DEF TimeInv, TypedTable
<1>10. loop'[r].at = "mail" => inbox'[e.text] > 0
    BY <1>1, <1>4, OneMore DEF TimeInv, TypedTable, Drops, Goes, TypedRounds
<1>11. \A s \in CheckInLoops : s \in Loops
    BY DEF Loops
<1>12. ASSUME NEW b \in due, NEW s \in CheckInLoops
       PROVE  \/ Found(ReminderText(b, booking[b].from))'
              \/ DueEntry(b) \in loop[s].list => DueEntry(b) \in loop'[s].list
  <2>1. b \in Bookings /\ booking[b].from \in CheckIns
      BY DEF TimeInv, TypedTable
  <2>2. PICK t \in Texts : t = ReminderText(b, booking[b].from)
      BY <2>1, TextsKnown
  <2>3. DueEntry(b) = e => e.text = t /\ e.b = b
      BY <2>1, <2>2, EntriesKnown DEF DueEntry
  <2>4. ReminderText(b, booking[b].from)' = t
      BY <1>2, <2>2 DEF ReminderText
  <2>5. account[AccountOf[b]].actif /\ account[AccountOf[b]].wants
      BY DEF TimeInv, DueInv
  <2>6. CASE s = r /\ DueEntry(b) = e
    <3>1. inbox' = AddOne(inbox, e.text)
        BY <1>1, <2>3, <2>5, <2>6
    <3>2. inbox'[t] > 0
        BY <1>4, <2>3, <2>6, <3>1, OneMore DEF TimeInv, TypedTable
    <3>3. Held(t)'
        BY <3>2 DEF Held
    <3>4. Found(t)'
        BY <3>3, HeldIsFound
    <3> QED
        BY <2>4, <3>4 DEF Found
  <2>7. CASE ~(s = r /\ DueEntry(b) = e)
      BY <1>7, <1>11, <2>7
  <2> QED
      BY <2>6, <2>7
<1>13. \A s \in CheckInLoops : loop'[s].at # "idle" => loop[s].at # "idle"
    BY <1>2, <1>7, <1>11
<1>14. \A s \in Loops : loop'[s].at = "mail" =>
          \/ loop[s].at = "mail" /\ loop'[s].cur = loop[s].cur
          \/ \A d \in loop'[s].cur : inbox'[d.text] > 0
    BY <1>7, <1>10
<1>15. DueInv'
    BY <1>2, <1>5, <1>8, <1>12, <1>13, <1>14, DueStays
<1> QED
    BY <1>6, <1>8, <1>15 DEF TimeInv

LEMMA TimeMail ==
    ASSUME TimeInv, NEW r \in Loops, Mail(r)
    PROVE  TimeInv'
<1>1. PICK e \in loop[r].cur :
          (mailed' = AddOne(mailed, e.text) \/ UNCHANGED mailed) /\ Drops(r, e)
    BY DEF Mail
<1>2. /\ loop[r].at = "mail"
      /\ UNCHANGED <<now, booking, account, inbox, rounds, due, tidied, raced>>
    BY DEF Mail
<1>3. loop[r].cur = {e} /\ e \in loop[r].list /\ e \in Entries
    BY <1>1, <1>2 DEF TimeInv, TypedRounds
<1>4. e.text \in Texts
    BY <1>3, EntryFields
<1>5. TypedTable'
    BY <1>1, <1>2, <1>4, OneMore DEF TimeInv, TypedTable
<1>6. TypedRounds'
    BY <1>1 DEF TimeInv, TypedRounds, Drops, Kind
<1>7. /\ \A s \in Loops : s # r => loop'[s] = loop[s]
      /\ loop'[r].at = "look" /\ loop'[r].list = loop[r].list \ {e}
    BY <1>1 DEF Drops, TimeInv, TypedRounds
<1>8. \A s \in CheckInLoops : s \in Loops
    BY DEF Loops
<1>9. ASSUME NEW b \in due, NEW s \in CheckInLoops
      PROVE  \/ Found(ReminderText(b, booking[b].from))'
             \/ DueEntry(b) \in loop[s].list => DueEntry(b) \in loop'[s].list
  <2>1. b \in Bookings /\ booking[b].from \in CheckIns
      BY DEF TimeInv, TypedTable
  <2>2. PICK t \in Texts : t = ReminderText(b, booking[b].from)
      BY <2>1, TextsKnown
  <2>3. DueEntry(b) = e => e.text = t
      BY <2>1, <2>2, EntriesKnown DEF DueEntry
  <2>4. ReminderText(b, booking[b].from)' = t
      BY <1>2, <2>2 DEF ReminderText
  <2>5. Held(e.text)
      BY <1>1, <1>2 DEF TimeInv, DueInv
  <2>6. DueEntry(b) = e => Found(t)'
    <3>1. DueEntry(b) = e => Held(t)'
        BY <1>2, <2>3, <2>5 DEF Held
    <3> QED
        BY <3>1, HeldIsFound
  <2>7. Found(t)' => Found(ReminderText(b, booking[b].from))'
      BY <2>4 DEF Found
  <2> QED
      BY <1>7, <1>8, <2>6, <2>7
<1>10. \A s \in CheckInLoops : loop'[s].at # "idle" => loop[s].at # "idle"
    BY <1>2, <1>7, <1>8
<1>11. \A s \in Loops : loop'[s].at = "mail" => loop[s].at = "mail" /\ loop'[s].cur = loop[s].cur
    BY <1>7
<1>12. DueInv'
    BY <1>2, <1>6, <1>9, <1>10, <1>11, DueStays
<1> QED
    BY <1>5, <1>6, <1>12 DEF TimeInv

\* A round that ends with an empty list has found every due booking.
LEMMA TimeFinish ==
    ASSUME TimeInv, NEW r \in Loops, Finish(r)
    PROVE  TimeInv'
<1>1. /\ loop[r].at = "look" /\ loop[r].list = {}
      /\ loop' = [loop EXCEPT ![r] = Quiet] /\ rounds' = rounds \cup {Kind(r)}
      /\ UNCHANGED <<now, booking, account, inbox, mailed, due, tidied, raced>>
    BY DEF Finish
<1>2. TypedTable'
    BY <1>1 DEF TimeInv, TypedTable
<1>3. TypedRounds'
    BY <1>1 DEF TimeInv, TypedRounds, Quiet, Kind
<1>4. loop'[r] = Quiet /\ \A s \in Loops : s # r => loop'[s] = loop[s]
    BY <1>1 DEF TimeInv, TypedRounds
<1>5. \A s \in CheckInLoops : s \in Loops
    BY DEF Loops
<1>6. ASSUME NEW b \in due
      PROVE  \/ Found(ReminderText(b, booking[b].from))'
             \/ /\ "reminder" \notin rounds'
                /\ \A s \in CheckInLoops : loop'[s].at # "idle" => DueEntry(b)' \in loop'[s].list
  <2>1. DueEntry(b)' = DueEntry(b)
      BY <1>1 DEF DueEntry, ReminderText, Entry
  <2>2. PICK t : t = ReminderText(b, booking[b].from)
      OBVIOUS
  <2>3. ReminderText(b, booking[b].from)' = t
      BY <1>1, <2>2 DEF ReminderText
  <2>4. CASE Found(t)
      BY <1>1, <2>3, <2>4 DEF Found
  <2>5. CASE ~Found(t)
    <3>1. /\ "reminder" \notin rounds
          /\ \A s \in CheckInLoops : loop[s].at # "idle" => DueEntry(b) \in loop[s].list
        BY <2>2, <2>5 DEF TimeInv, DueInv
    <3>2. r \notin CheckInLoops
        BY <1>1, <3>1
    <3>3. "reminder" \notin rounds'
        BY <1>1, <3>1, <3>2 DEF Kind
    <3> QED
        BY <1>4, <1>5, <2>1, <3>1, <3>2, <3>3
  <2> QED
      BY <2>4, <2>5
<1>7. \A s \in Loops : loop'[s].at = "mail" => loop'[s] = loop[s]
    BY <1>4 DEF Quiet
<1>8. DueInv'
    BY <1>1, <1>6, <1>7 DEF TimeInv, DueInv, Held, Found
<1> QED
    BY <1>2, <1>3, <1>8 DEF TimeInv

LEMMA TimeBreak ==
    ASSUME TimeInv, Restart \/ \E r \in Loops : Break(r)
    PROVE  TimeInv'
<1>1. /\ \A s \in Loops : loop'[s] = loop[s] \/ loop'[s] = Quiet
      /\ loop' \in [Loops -> [at : {"idle", "look", "notify", "mail"},
                              list : SUBSET Entries, cur : SUBSET Entries]]
      /\ UNCHANGED <<now, booking, account, inbox, mailed, rounds, due, tidied, raced>>
  <2>1. Quiet \in [at : {"idle", "look", "notify", "mail"}, list : SUBSET Entries, cur : SUBSET Entries]
      BY DEF Quiet
  <2>2. CASE Restart
      BY <2>1, <2>2 DEF Restart
  <2>3. ASSUME NEW r \in Loops, Break(r)
        PROVE  <1>1!:
      BY <2>1, <2>3 DEF Break, TimeInv, TypedRounds
  <2> QED
      BY <2>2, <2>3
<1>2. TypedTable'
    BY <1>1 DEF TimeInv, TypedTable
<1>3. TypedRounds'
    BY <1>1 DEF TimeInv, TypedRounds, Quiet, Kind
<1>4. \A s \in CheckInLoops : s \in Loops
    BY DEF Loops
<1>5. \A b \in due : DueEntry(b)' = DueEntry(b)
    BY <1>1 DEF DueEntry, ReminderText, Entry
<1>6. \A b \in due : ReminderText(b, booking[b].from)' = ReminderText(b, booking[b].from)
    BY <1>1 DEF ReminderText
<1>7. DueInv'
  <2>1. ASSUME NEW b \in due
        PROVE  \/ Found(ReminderText(b, booking[b].from))'
               \/ /\ "reminder" \notin rounds'
                  /\ \A s \in CheckInLoops : loop'[s].at # "idle" => DueEntry(b)' \in loop'[s].list
      BY <1>1, <1>4, <1>5, <1>6 DEF TimeInv, DueInv, Found, Quiet
  <2>2. \A s \in Loops : loop'[s].at = "mail" => loop'[s] = loop[s]
      BY <1>1 DEF Quiet
  <2> QED
      BY <1>1, <2>1, <2>2 DEF TimeInv, DueInv, Held, Found
<1> QED
    BY <1>2, <1>3, <1>7 DEF TimeInv

\* Whatever changes what makes a booking due takes it off the due ones.
LEMMA TimeChange ==
    ASSUME TimeInv,
           \/ \E b \in Bookings, row \in [statut : Statuts, from : CheckIns, reviewed : BOOLEAN] :
                 Changes(b, row)
           \/ \E a \in Accounts, actif, wants \in BOOLEAN : SetAccount(a, actif, wants)
    PROVE  TimeInv'
<1>1. /\ UNCHANGED <<now, inbox, mailed, loop, rounds, tidied, raced>>
      /\ due' \subseteq due
      /\ \A b \in due' : booking'[b] = booking[b] /\ account'[AccountOf[b]] = account[AccountOf[b]]
      /\ booking' \in [Bookings -> [statut : Statuts, from : CheckIns, reviewed : BOOLEAN]]
      /\ account' \in [Accounts -> [actif : BOOLEAN, wants : BOOLEAN]]
  <2>1. ASSUME NEW b \in Bookings,
               NEW row \in [statut : Statuts, from : CheckIns, reviewed : BOOLEAN], Changes(b, row)
        PROVE  <1>1!:
      BY <2>1 DEF Changes, TimeInv, TypedTable
  <2>2. ASSUME NEW a \in Accounts, NEW actif \in BOOLEAN, NEW wants \in BOOLEAN,
               SetAccount(a, actif, wants)
        PROVE  <1>1!:
      BY <2>2 DEF SetAccount, TimeInv, TypedTable
  <2> QED
      BY <2>1, <2>2
<1>2. TypedTable' /\ TypedRounds'
    BY <1>1 DEF TimeInv, TypedTable, TypedRounds, Kind
<1>3. \A b \in due' : DueEntry(b)' = DueEntry(b)
    BY <1>1 DEF DueEntry, ReminderText, Entry
<1>4. \A b \in due' : ReminderText(b, booking[b].from)' = ReminderText(b, booking[b].from)
    BY <1>1 DEF ReminderText
<1>5. DueInv'
    BY <1>1, <1>3, <1>4 DEF TimeInv, DueInv, Held, Found
<1> QED
    BY <1>2, <1>5 DEF TimeInv

LEMMA TimeDelete ==
    ASSUME TimeInv, NEW t \in Texts, DeleteNotification(t)
    PROVE  TimeInv'
<1>1. /\ inbox[t] > 0 /\ inbox' = [inbox EXCEPT ![t] = @ - 1] /\ tidied' = tidied \cup {t}
      /\ UNCHANGED <<now, booking, account, mailed, loop, rounds, due, raced>>
    BY DEF DeleteNotification
<1>2. inbox' \in [Texts -> Nat]
    BY <1>1 DEF TimeInv, TypedTable
<1>3. TypedTable' /\ TypedRounds'
    BY <1>1, <1>2 DEF TimeInv, TypedTable, TypedRounds, Kind
<1>0. \A u \in Texts : inbox[u] > 0 => inbox'[u] > 0 \/ u \in tidied'
    BY <1>1 DEF TimeInv, TypedTable
<1>4. ASSUME NEW u \in Texts, Held(u) PROVE Held(u)'
    BY <1>0, <1>1, <1>4 DEF Held
<1>5. \A b \in due : DueEntry(b)' = DueEntry(b)
    BY <1>1 DEF DueEntry, ReminderText, Entry
<1>6. ASSUME NEW b \in due, Found(ReminderText(b, booking[b].from))
      PROVE  Found(ReminderText(b, booking[b].from))'
  <2>1. PICK u \in Texts : u = ReminderText(b, booking[b].from)
      BY TextsKnown DEF TimeInv, TypedTable
  <2>2. ReminderText(b, booking[b].from)' = u
      BY <1>1, <2>1 DEF ReminderText
  <2>3. Found(u)'
      BY <1>0, <1>1, <1>6, <2>1, FoundStays
  <2> QED
      BY <2>2, <2>3 DEF Found
<1>7. ASSUME NEW r \in Loops, loop[r].at = "mail", NEW e \in loop[r].cur
      PROVE  Held(e.text)'
  <2>1. e \in Entries
      BY <1>7 DEF TimeInv, TypedRounds
  <2>2. PICK u \in Texts : u = e.text
      BY <2>1, EntryFields
  <2>3. Held(u)
      BY <1>7, <2>2 DEF TimeInv, DueInv
  <2>4. Held(u)'
      BY <1>4, <2>3
  <2> QED
      BY <2>2, <2>4 DEF Held
<1>8. DueInv'
    BY <1>1, <1>5, <1>6, <1>7 DEF TimeInv, DueInv
<1> QED
    BY <1>3, <1>8 DEF TimeInv

LEMMA TimeTick ==
    ASSUME TimeInv, Tick
    PROVE  TimeInv'
<1>1. /\ \A r \in Loops : loop[r].at = "idle"
      /\ now' = now + 1 /\ rounds' = {}
      /\ due' = {b \in Bookings :
                  /\ booking[b].statut = "CONFIRMEE"
                  /\ now' < booking[b].from /\ booking[b].from <= now' + Ahead
                  /\ account[AccountOf[b]] = [actif |-> TRUE, wants |-> TRUE]}
      /\ UNCHANGED <<booking, account, inbox, mailed, loop, tidied, raced>>
    BY DEF Tick
<1>2. TypedTable' /\ TypedRounds'
    BY <1>1 DEF TimeInv, TypedTable, TypedRounds, Kind
<1>3. \A r \in CheckInLoops : loop'[r].at = "idle"
    BY <1>1 DEF Loops
<1>4. DueInv'
    BY <1>1, <1>3 DEF DueInv
<1> QED
    BY <1>2, <1>4 DEF TimeInv

LEMMA TimeStep == TimeInv /\ [Next]_vars => TimeInv'
<1> SUFFICES ASSUME TimeInv, [Next]_vars PROVE TimeInv'
    OBVIOUS
<1>1. CASE UNCHANGED vars
  <2>1. UNCHANGED <<now, booking, account, inbox, mailed, loop, rounds, due, tidied, raced>>
      BY <1>1 DEF vars
  <2>2. TypedTable' /\ TypedRounds'
      BY <2>1 DEF TimeInv, TypedTable, TypedRounds, Kind
  <2>3. DueInv'
      BY <2>1, <2>2, DueStays
  <2> QED
      BY <2>2, <2>3 DEF TimeInv
<1>2. ASSUME NEW b \in Bookings, NEW s \in Statuts, SetStatut(b, s) PROVE TimeInv'
  <2>1. [booking[b] EXCEPT !.statut = s] \in [statut : Statuts, from : CheckIns, reviewed : BOOLEAN]
      BY DEF TimeInv, TypedTable
  <2> QED
      BY <1>2, <2>1, TimeChange DEF SetStatut
<1>3. ASSUME NEW b \in Bookings, NEW from \in CheckIns, Move(b, from) PROVE TimeInv'
  <2>1. [booking[b] EXCEPT !.from = from] \in [statut : Statuts, from : CheckIns, reviewed : BOOLEAN]
      BY DEF TimeInv, TypedTable
  <2> QED
      BY <1>3, <2>1, TimeChange DEF Move
<1>4. ASSUME NEW b \in Bookings, Review(b) PROVE TimeInv'
  <2>1. [booking[b] EXCEPT !.reviewed = ~@] \in [statut : Statuts, from : CheckIns, reviewed : BOOLEAN]
      BY DEF TimeInv, TypedTable
  <2> QED
      BY <1>4, <2>1, TimeChange DEF Review
<1>5. ASSUME NEW a \in Accounts, NEW actif \in BOOLEAN, NEW wants \in BOOLEAN,
             SetAccount(a, actif, wants)
      PROVE  TimeInv'
    BY <1>5, TimeChange
<1> QED
    BY <1>1, <1>2, <1>3, <1>4, <1>5, TimeBegin, TimeLook, TimeNotify, TimeMail, TimeFinish,
       TimeBreak, TimeDelete, TimeTick DEF Next

\* Every booking that stays due from one movement of the clock to the next has its
\* reminder by then, for any number of rounds under way at once.
THEOREM RemindedInTimeHolds == Spec => RemindedInTime
<1> DEFINE InTime ==
        now' > now => \A b \in due : Found(ReminderText(b, booking[b].from))
<1>1. TimeInv /\ [Next]_vars => [InTime]_vars
  <2> SUFFICES ASSUME TimeInv, [Next]_vars, now' > now, NEW b \in due
               PROVE  Found(ReminderText(b, booking[b].from))
      OBVIOUS
  <2>1. now' # now
      BY DEF TimeInv, TypedTable
  <2>2. Tick
      BY <2>1 DEF Next, vars, Begin, Look, NotifyCheckIn, NotifyReview, Mail, Finish, Break, Restart,
                  SetStatut, Move, Review, Changes, SetAccount, DeleteNotification
  <2>3. "reminder" \in rounds
      BY <2>2 DEF Tick
  <2> QED
      BY <2>3 DEF TimeInv, DueInv
<1> QED
    BY <1>1, TimeInit, TimeStep, PTL DEF Spec, RemindedInTime
-----------------------------------------------------------------------------
(* Nobody is mailed twice.                                                  *)

Writing == {"notify", "mail"}

\* A mail leaves its notification behind; and who is about to write or to mail a
\* text that nobody raced for has found that it was not mailed, and is alone.
MailInv ==
    /\ \A t \in Texts : t \notin tidied \cup raced =>
          mailed[t] <= 1 /\ (mailed[t] > 0 => inbox[t] > 0)
    /\ \A r \in Loops : loop[r].at \in Writing =>
          \A e \in loop[r].cur : e.text \notin tidied \cup raced =>
              /\ mailed[e.text] = 0
              /\ loop[r].at = "notify" => inbox[e.text] = 0
              /\ \A s \in Loops : loop[s].at \in Writing /\ s # r =>
                    \A d \in loop[s].cur : d.text # e.text

LEMMA MailInit == Init => MailInv
BY DEF Init, MailInv, Quiet, Writing

\* Whatever mails nothing keeps it, if no round takes up an entry and only the
\* texts of a deleted notification change in the inbox.
LEMMA MailStays ==
    ASSUME TimeInv, MailInv, UNCHANGED mailed, tidied \subseteq tidied', raced \subseteq raced',
           \A t \in Texts : t \notin tidied' => inbox'[t] = inbox[t],
           \A r \in Loops : loop'[r].at \in Writing =>
              loop'[r].at = loop[r].at /\ loop'[r].cur = loop[r].cur
    PROVE  MailInv'
<1>1. ASSUME NEW r \in Loops, loop'[r].at \in Writing, NEW e \in loop'[r].cur,
             e.text \notin tidied' \cup raced'
      PROVE  /\ mailed'[e.text] = 0
             /\ loop'[r].at = "notify" => inbox'[e.text] = 0
             /\ \A s \in Loops : loop'[s].at \in Writing /\ s # r =>
                   \A d \in loop'[s].cur : d.text # e.text
  <2>1. loop[r].at \in Writing /\ loop'[r].at = loop[r].at /\ e \in loop[r].cur
      BY <1>1
  <2>2. e.text \in Texts
      BY <2>1, EntryFields DEF TimeInv, TypedRounds
  <2> QED
      BY <1>1, <2>1, <2>2 DEF MailInv
<1>2. \A t \in Texts : t \notin tidied' \cup raced' =>
          mailed'[t] <= 1 /\ (mailed'[t] > 0 => inbox'[t] > 0)
    BY DEF MailInv
<1> QED
    BY <1>1, <1>2 DEF MailInv

LEMMA MailLook ==
    ASSUME TimeInv, MailInv, NEW r \in Loops, Look(r)
    PROVE  MailInv'
<1>1. PICK e \in loop[r].list :
          IF \E u \in Texts : inbox[u] > 0 /\ Covers(u, e.text)
          THEN Drops(r, e) /\ UNCHANGED raced
          ELSE Takes(r, e)
    BY DEF Look
<1>2. UNCHANGED <<inbox, mailed, tidied>>
    BY DEF Look
<1>3. PICK t \in Texts : t = e.text
    BY EntryFields DEF TimeInv, TypedRounds
<1>4. CASE Drops(r, e) /\ UNCHANGED raced
  <2>1. \A s \in Loops : s # r => loop'[s] = loop[s]
      BY <1>4 DEF Drops, TimeInv, TypedRounds
  <2>2. loop'[r].at = "look"
      BY <1>4 DEF Drops, TimeInv, TypedRounds
  <2> QED
      BY <1>2, <1>4, <2>1, <2>2, MailStays DEF Writing
<1>5. CASE Takes(r, e) /\ ~\E u \in Texts : inbox[u] > 0 /\ Covers(u, e.text)
  <2>1. /\ \A s \in Loops : s # r => loop'[s] = loop[s]
        /\ loop'[r].cur = {e} /\ loop'[r].at = "notify"
      BY <1>5 DEF Takes, TimeInv, TypedRounds
  <2>2. mailed[t] \in Nat /\ inbox[t] \in Nat
      BY DEF TimeInv, TypedTable
  <2>3. inbox[t] = 0
      BY <1>3, <1>5, <2>2 DEF Covers
  <2>4. raced \subseteq raced'
      BY <1>5 DEF Takes
  <2>5. t \notin tidied \cup raced' => mailed[t] = 0
      BY <2>2, <2>3, <2>4 DEF MailInv
  <2>6. ASSUME NEW s \in Loops, loop[s].at \in Writing, NEW d \in loop[s].cur, d.text = t
        PROVE  t \in tidied \cup raced'
    <3>1. CASE loop[s].at = "notify"
        BY <1>3, <1>5, <2>6, <3>1 DEF Takes
    <3>2. CASE loop[s].at = "mail"
      <4>1. Held(t)
          BY <2>6, <3>2 DEF TimeInv, DueInv
      <4> QED
          BY <2>3, <4>1 DEF Held
    <3> QED
        BY <2>6, <3>1, <3>2 DEF Writing
  <2>7. ASSUME NEW s \in Loops, loop'[s].at \in Writing, NEW d \in loop'[s].cur,
               d.text \notin tidied' \cup raced'
        PROVE  /\ mailed'[d.text] = 0
               /\ loop'[s].at = "notify" => inbox'[d.text] = 0
               /\ \A q \in Loops : loop'[q].at \in Writing /\ q # s =>
                     \A c \in loop'[q].cur : c.text # d.text
    <3>1. CASE s = r
      <4>1. d.text = t
          BY <1>3, <2>1, <2>7, <3>1
      <4> QED
          BY <1>2, <2>1, <2>3, <2>5, <2>6, <2>7, <3>1, <4>1
    <3>2. CASE s # r
      <4>1. loop'[s] = loop[s]
          BY <2>1, <3>2
      <4>2. d.text # t
          BY <1>2, <2>6, <2>7, <4>1
      <4>3. \A c \in loop'[r].cur : c.text = t
          BY <1>3, <2>1
      <4>4. d.text \notin tidied \cup raced
          BY <1>2, <2>4, <2>7
      <4>5. /\ mailed[d.text] = 0
            /\ loop[s].at = "notify" => inbox[d.text] = 0
            /\ \A q \in Loops : loop[q].at \in Writing /\ q # s =>
                  \A c \in loop[q].cur : c.text # d.text
          BY <2>7, <4>1, <4>4 DEF MailInv
      <4>6. ASSUME NEW q \in Loops, loop'[q].at \in Writing, q # s, NEW c \in loop'[q].cur
            PROVE  c.text # d.text
          BY <2>1, <4>2, <4>3, <4>5, <4>6
      <4> QED
          BY <1>2, <4>1, <4>5, <4>6
    <3> QED
        BY <3>1, <3>2
  <2>8. \A u \in Texts : u \notin tidied' \cup raced' =>
            mailed'[u] <= 1 /\ (mailed'[u] > 0 => inbox'[u] > 0)
      BY <1>2, <2>4 DEF MailInv
  <2> QED
      BY <2>7, <2>8 DEF MailInv
<1> QED
    BY <1>1, <1>4, <1>5

\* A notification is written by the one round that has its text in hand.
LEMMA MailNotify ==
    ASSUME TimeInv, MailInv, NEW r \in Loops, NotifyCheckIn(r) \/ NotifyReview(r)
    PROVE  MailInv'
<1>1. PICK e \in loop[r].cur :
          /\ inbox' = AddOne(inbox, e.text) \/ UNCHANGED inbox
          /\ Goes(r, "mail") \/ Drops(r, e)
    BY DEF NotifyCheckIn, NotifyReview
<1>2. loop[r].at = "notify" /\ UNCHANGED <<mailed, tidied, raced>>
    BY DEF NotifyCheckIn, NotifyReview
<1>3. PICK t \in Texts : t = e.text
    BY EntryFields DEF TimeInv, TypedRounds
<1>4. \A u \in Texts : /\ inbox[u] > 0 => inbox'[u] > 0
                       /\ u # t => inbox'[u] = inbox[u]
    BY <1>1, <1>3, OneMore DEF TimeInv, TypedTable
<1>5. \A s \in Loops : s # r => loop'[s] = loop[s]
    BY <1>1 DEF Goes, Drops, TimeInv, TypedRounds
<1>6. loop'[r].at = "look" \/ (loop'[r].at = "mail" /\ loop'[r].cur = loop[r].cur)
    BY <1>1 DEF Goes, Drops, TimeInv, TypedRounds
<1>7. \A s \in Loops : loop'[s].at \in Writing =>
          loop[s].at \in Writing /\ loop'[s].cur = loop[s].cur
    BY <1>2, <1>5, <1>6 DEF Writing
<1>8. ASSUME NEW s \in Loops, loop'[s].at \in Writing, NEW d \in loop'[s].cur,
             d.text \notin tidied \cup raced
      PROVE  /\ mailed[d.text] = 0
             /\ loop'[s].at = "notify" => inbox'[d.text] = 0
             /\ \A q \in Loops : loop'[q].at \in Writing /\ q # s =>
                   \A c \in loop'[q].cur : c.text # d.text
  <2>1. loop[s].at \in Writing /\ d \in loop[s].cur /\ d.text \in Texts
      BY <1>7, <1>8, EntryFields DEF TimeInv, TypedRounds
  <2>2. /\ mailed[d.text] = 0
        /\ loop[s].at = "notify" => inbox[d.text] = 0
        /\ \A q \in Loops : loop[q].at \in Writing /\ q # s =>
              \A c \in loop[q].cur : c.text # d.text
      BY <1>8, <2>1 DEF MailInv
  <2>3. loop'[s].at = "notify" => inbox'[d.text] = 0
    <3> SUFFICES ASSUME loop'[s].at = "notify" PROVE inbox'[d.text] = 0
        OBVIOUS
    <3>1. s # r
        BY <1>6
    <3>2. loop[s].at = "notify"
        BY <1>5, <3>1
    <3>3. r \in Loops /\ loop[r].at \in Writing /\ r # s
        BY <1>2, <3>1 DEF Writing
    <3>4. d.text # t
        BY <1>1, <1>3, <2>2, <3>3
    <3> QED
        BY <1>4, <2>1, <2>2, <3>2, <3>4
  <2> QED
      BY <1>7, <2>2, <2>3
<1>9. \A u \in Texts : u \notin tidied \cup raced =>
          mailed[u] <= 1 /\ (mailed[u] > 0 => inbox'[u] > 0)
    BY <1>4 DEF MailInv
<1> QED
    BY <1>2, <1>8, <1>9 DEF MailInv

\* The one step that mails: no other round has the same text in hand.
LEMMA MailMail ==
    ASSUME TimeInv, MailInv, NEW r \in Loops, Mail(r)
    PROVE  MailInv'
<1>1. PICK e \in loop[r].cur :
          (mailed' = AddOne(mailed, e.text) \/ UNCHANGED mailed) /\ Drops(r, e)
    BY DEF Mail
<1>2. loop[r].at = "mail" /\ UNCHANGED <<inbox, tidied, raced>>
    BY DEF Mail
<1>3. PICK t \in Texts : t = e.text
    BY EntryFields DEF TimeInv, TypedRounds
<1>4. /\ mailed[t] \in Nat /\ mailed'[t] \in Nat /\ mailed'[t] <= mailed[t] + 1
      /\ \A u \in Texts : u # t => mailed'[u] = mailed[u]
    BY <1>1, <1>3, OneMore DEF TimeInv, TypedTable
<1>5. t \notin tidied \cup raced => mailed[t] = 0 /\ inbox[t] > 0
  <2>1. Held(t)
      BY <1>1, <1>2, <1>3 DEF TimeInv, DueInv
  <2> QED
      BY <1>1, <1>2, <1>3, <2>1 DEF MailInv, Held, Writing
<1>6. ASSUME NEW u \in Texts, u \notin tidied \cup raced
      PROVE  mailed'[u] <= 1 /\ (mailed'[u] > 0 => inbox[u] > 0)
  <2>1. CASE u = t
      BY <1>4, <1>5, <1>6, <2>1
  <2>2. CASE u # t
      BY <1>4, <1>6, <2>2 DEF MailInv
  <2> QED
      BY <2>1, <2>2
<1>7. loop'[r].at = "look" /\ \A s \in Loops : s # r => loop'[s] = loop[s]
    BY <1>1 DEF Drops, TimeInv, TypedRounds
<1>8. ASSUME NEW s \in Loops, loop'[s].at \in Writing, NEW d \in loop'[s].cur,
             d.text \notin tidied \cup raced
      PROVE  /\ mailed'[d.text] = 0
             /\ loop'[s].at = "notify" => inbox[d.text] = 0
             /\ \A q \in Loops : loop'[q].at \in Writing /\ q # s =>
                   \A c \in loop'[q].cur : c.text # d.text
  <2>1. s # r /\ loop'[s] = loop[s]
      BY <1>7, <1>8 DEF Writing
  <2>2. d.text \in Texts
      BY <1>8, <2>1, EntryFields DEF TimeInv, TypedRounds
  <2>3. /\ mailed[d.text] = 0
        /\ loop[s].at = "notify" => inbox[d.text] = 0
        /\ \A q \in Loops : loop[q].at \in Writing /\ q # s =>
              \A c \in loop[q].cur : c.text # d.text
      BY <1>8, <2>1 DEF MailInv
  <2>4. d.text # t
      BY <1>1, <1>2, <1>3, <2>1, <2>3 DEF Writing
  <2>5. \A q \in Loops : loop'[q].at \in Writing => loop'[q] = loop[q]
      BY <1>7 DEF Writing
  <2>6. mailed'[d.text] = 0
      BY <1>4, <2>2, <2>3, <2>4
  <2>7. loop'[s].at = "notify" => inbox[d.text] = 0
      BY <2>1, <2>3
  <2>8. ASSUME NEW q \in Loops, loop'[q].at \in Writing, q # s, NEW c \in loop'[q].cur
        PROVE  c.text # d.text
      BY <2>3, <2>5, <2>8
  <2> QED
      BY <2>6, <2>7, <2>8
<1> QED
    BY <1>2, <1>6, <1>8 DEF MailInv

LEMMA MailDelete ==
    ASSUME TimeInv, MailInv, NEW t \in Texts, DeleteNotification(t)
    PROVE  MailInv'
<1>1. /\ inbox' = [inbox EXCEPT ![t] = @ - 1] /\ tidied' = tidied \cup {t}
      /\ UNCHANGED <<mailed, loop, raced>>
    BY DEF DeleteNotification
<1>2. \A u \in Texts : u \notin tidied' => inbox'[u] = inbox[u]
    BY <1>1 DEF TimeInv, TypedTable
<1> QED
    BY <1>1, <1>2, MailStays

\* A round that begins, ends or is broken off has nothing in hand.
LEMMA MailLoop ==
    ASSUME TimeInv, MailInv,
           Restart \/ \E r \in Loops : Begin(r) \/ Finish(r) \/ Break(r)
    PROVE  MailInv'
<1>1. UNCHANGED <<inbox, mailed, tidied, raced>>
    BY DEF Restart, Begin, Finish, Break
<1>2. \A s \in Loops : loop'[s] = loop[s] \/ loop'[s].at \in {"idle", "look"}
  <2>1. CASE Restart
      BY <2>1 DEF Restart, Quiet
  <2>2. ASSUME NEW r \in Loops, Begin(r) PROVE <1>2!:
      BY <2>2 DEF Begin, TimeInv, TypedRounds
  <2>3. ASSUME NEW r \in Loops, Finish(r) \/ Break(r) PROVE <1>2!:
      BY <2>3 DEF Finish, Break, Quiet, TimeInv, TypedRounds
  <2> QED
      BY <2>1, <2>2, <2>3
<1> QED
    BY <1>1, <1>2, MailStays DEF Writing

LEMMA MailStep ==
    ASSUME TimeInv, MailInv, [Next]_vars
    PROVE  MailInv'
<1>1. CASE UNCHANGED <<inbox, mailed, tidied, raced, loop>>
    BY <1>1, MailStays
<1>2. CASE UNCHANGED vars
    BY <1>1, <1>2 DEF vars
<1>3. ASSUME \/ \E b \in Bookings :
                  \/ \E s \in Statuts : SetStatut(b, s)
                  \/ \E from \in CheckIns : Move(b, from)
                  \/ Review(b)
             \/ \E a \in Accounts, actif, wants \in BOOLEAN : SetAccount(a, actif, wants)
             \/ Tick
      PROVE  MailInv'
    BY <1>1, <1>3 DEF SetStatut, Move, Review, Changes, SetAccount, Tick
<1> QED
    BY <1>2, <1>3, MailLook, MailNotify, MailMail, MailDelete, MailLoop DEF Next

\* Nobody who keeps the notifications is mailed the same reminder or review request
\* twice, wherever rounds break off and however many overlap; except a text that one
\* round looked for while another, which had missed it too, was about to write it.
THEOREM MailedOnceHolds == Spec => []MailedOnce
<1>1. Init => TimeInv /\ MailInv
    BY TimeInit, MailInit
<1>2. TimeInv /\ MailInv /\ [Next]_vars => (TimeInv /\ MailInv)'
    BY TimeStep, MailStep
<1>3. TimeInv /\ MailInv => MailedOnce
    BY DEF MailInv, MailedOnce
<1> QED
    BY <1>1, <1>2, <1>3, PTL DEF Spec
=============================================================================
