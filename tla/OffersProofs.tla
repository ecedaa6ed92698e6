---------------------------- MODULE OffersProofs ----------------------------
(***************************************************************************)
(* Whatever requests run side by side: what a request has read, and no     *)
(* other has made stale, still holds when it writes.  So offers of a hotel *)
(* stay apart and their dates in order, but for writes that were decided   *)
(* on what another request had rewritten.                                  *)
(***************************************************************************)
EXTENDS Offers, TLAPS

\* What the request j may rely on, as long as no other has made it stale.
Sound(j) ==
    /\ j.at = "insert" =>
          /\ j.q \in Requests
          /\ Created(j.q) \in Rows
          /\ Created(j.q).hotel \in Hotels
          /\ Created(j.q).state = "live"
          /\ Created(j.q).from < Created(j.q).to
          /\ "dates" \notin j.stale => FreeDates(Created(j.q), {})
    /\ j.at \in {"dates", "clear", "save"} =>
          /\ j.q \in Requests
          /\ j.o \in Offers
          /\ offer[j.o].state # "absent"
    /\ j.at = "dates" =>
          /\ j.cur.hotel \in Hotels
          /\ Patched(j.q, j.cur).from < Patched(j.q, j.cur).to
          /\ Live(j.o) /\ "row" \notin j.stale => j.cur = offer[j.o]
    /\ j.at \in {"clear", "save"} /\ Live(j.o) /\ "row" \notin j.stale =>
          /\ Patched(j.q, offer[j.o]).from < Patched(j.q, offer[j.o]).to
          /\ "dates" \notin j.stale => FreeDates(Patched(j.q, offer[j.o]), {j.o})
    /\ j.at = "save" /\ j.q.rooms # None =>
          (Live(j.o) /\ "rooms" \notin j.stale => j.seen = offer[j.o].rooms)
    /\ j.at = "clear" => j.q.rooms # None
    /\ j.at # "save" \/ j.q.rooms = None => j.seen = {}

OffersInv ==
    /\ TypeOK
    /\ OffersApart
    /\ DatesInOrder
    /\ \A h \in Handlers : Sound(job[h])

-----------------------------------------------------------------------------
\* A patched row is a row, of the same offer.
LEMMA PatchedIsRow ==
    ASSUME NEW q \in Requests, NEW r \in Rows, r.hotel \in Hotels
    PROVE  /\ Patched(q, r) \in Rows
           /\ Patched(q, r).hotel \in Hotels
           /\ Patched(q, r).state = r.state
           /\ Patched(q, r).rooms = r.rooms
<1>1. /\ q.hotel \in Hotels \cup {None} /\ q.from \in Int \cup {None}
      /\ q.to \in Int \cup {None} /\ q.active \in BOOLEAN \cup {None}
    BY RequestsAssumption
<1> DEFINE p == Patched(q, r)
<1>2. /\ p.state = r.state /\ p.rooms = r.rooms
      /\ p.hotel = IF q.hotel = None THEN r.hotel ELSE q.hotel
      /\ p.from = IF q.from = None THEN r.from ELSE q.from
      /\ p.to = IF q.to = None THEN r.to ELSE q.to
      /\ p.active = IF q.active = None THEN r.active ELSE q.active
    BY DEF Patched, Rows
<1>3. (IF q.hotel = None THEN r.hotel ELSE q.hotel) \in Hotels
    BY <1>1
<1>4. (IF q.from = None THEN r.from ELSE q.from) \in Int
    BY <1>1 DEF Rows
<1>5. (IF q.to = None THEN r.to ELSE q.to) \in Int
    BY <1>1 DEF Rows
<1>6. (IF q.active = None THEN r.active ELSE q.active) \in BOOLEAN
    BY <1>1 DEF Rows
<1>7. r.state \in {"absent", "live", "deleted"} /\ r.rooms \in SUBSET Rooms
    BY DEF Rows
<1>8. p \in Rows
    BY <1>3, <1>4, <1>5, <1>6, <1>7 DEF Patched, Rows
<1> QED
    BY <1>2, <1>3, <1>8

\* What a creation that names hotel and dates inserts is a live row.
LEMMA CreatedIsRow ==
    ASSUME NEW q \in Requests, q.hotel # None, q.from # None, q.to # None
    PROVE  /\ Created(q) \in Rows
           /\ Created(q).hotel \in Hotels
           /\ Created(q).state = "live"
           /\ Created(q).from = q.from /\ Created(q).to = q.to
<1>1. /\ q.hotel \in Hotels /\ q.from \in Int /\ q.to \in Int
      /\ q.rooms # None => q.rooms \subseteq Rooms
    BY RequestsAssumption
<1>2. (IF q.rooms = None THEN {} ELSE q.rooms) \in SUBSET Rooms
    BY <1>1
<1> QED
    BY <1>1, <1>2 DEF Created, Row, Rows

\* What was free stays free while offers only leave the table.
LEMMA FreeStaysFree ==
    ASSUME NEW r, NEW except, FreeDates(r, except),
           \A p \in Offers : Shown(p)' => Shown(p) /\ offer'[p] = offer[p]
    PROVE  FreeDates(r, except)'
BY DEF FreeDates

LEMMA QuietIsJob == Quiet \in Jobs /\ Unwritten \in Rows
<1>1. Unwritten \in Rows
    BY DEF Unwritten, Row, Rows
<1> QED
    BY <1>1 DEF Quiet, Jobs

\* A request that has ended relies on nothing.
LEMMA QuietIsSound == Sound(Quiet) /\ Sound(Quiet)'
BY DEF Sound, Quiet

\* What a request relies on stays while offers only leave the table.
LEMMA SoundKept ==
    ASSUME NEW j, Sound(j), TypeOK, offer' \in [Offers -> Rows],
           \A p \in Offers : Live(p)' => Live(p) /\ offer'[p] = offer[p],
           \A p \in Offers : offer[p].state # "absent" => offer'[p].state # "absent"
    PROVE  Sound(j)'
<1>1. \A p \in Offers : Shown(p)' => Shown(p) /\ offer'[p] = offer[p]
    BY DEF Shown, Live
<1>2. \A r, e : FreeDates(r, e) => FreeDates(r, e)'
    BY <1>1, FreeStaysFree
<1>3. j.at = "insert" => ("dates" \notin j.stale => FreeDates(Created(j.q), {})')
    BY <1>2 DEF Sound
<1>4. ASSUME j.at \in {"clear", "save"}, Live(j.o)', "row" \notin j.stale
      PROVE  /\ Patched(j.q, offer'[j.o]).from < Patched(j.q, offer'[j.o]).to
             /\ "dates" \notin j.stale => FreeDates(Patched(j.q, offer[j.o]), {j.o})'
  <2>1. j.o \in Offers
      BY <1>4 DEF Sound
  <2>2. Live(j.o) /\ offer'[j.o] = offer[j.o]
      BY <1>4, <2>1
  <2>3. PICK r : r = Patched(j.q, offer[j.o])
      OBVIOUS
  <2>4. Patched(j.q, offer[j.o])' = r
      BY <2>2, <2>3 DEF Patched
  <2>5. r.from < r.to /\ ("dates" \notin j.stale => FreeDates(r, {j.o})')
      BY <1>2, <1>4, <2>2, <2>3 DEF Sound
  <2>6. FreeDates(r, {j.o})' => FreeDates(Patched(j.q, offer[j.o]), {j.o})'
      BY <2>4 DEF FreeDates, Shown, Live
  <2> QED
      BY <2>3, <2>2, <2>5, <2>6
<1> QED
    BY <1>3, <1>4 DEF Sound

\* A write of the offer o leaves sound what it does not mark: the request j
\* becomes i.
LEMMA SoundAfterWrite ==
    ASSUME TypeOK, NEW o \in Offers, NEW r \in Rows, offer' = [offer EXCEPT ![o] = r],
           r.state = "live",
           NEW j, NEW i, Sound(j), offer[o].state = "absent" \/ Live(o),
           i.at = j.at, i.o = j.o, i.q = j.q, i.cur = j.cur, j.stale \subseteq i.stale,
           j.o = o => "row" \in i.stale,
           j.at \in {"insert", "clear", "save"} => "dates" \in i.stale,
           j.seen = {} => i.seen = {},
           j.o # o => i.seen = j.seen,
           j.o = o /\ j.at = "save" /\ j.q.rooms # None /\ Live(o) /\ "rooms" \notin i.stale =>
               i.seen = j.seen /\ r.rooms = offer[o].rooms
    PROVE  Sound(i)'
<1>1. offer'[o] = r /\ \A p \in Offers \ {o} : offer'[p] = offer[p]
    BY DEF TypeOK
<1>2. \A p \in Offers \ {o} : Live(p)' <=> Live(p)
    BY <1>1 DEF Live
<1>3. i.at = "insert" =>
          /\ i.q \in Requests /\ Created(i.q) \in Rows /\ Created(i.q).hotel \in Hotels
          /\ Created(i.q).state = "live" /\ Created(i.q).from < Created(i.q).to
          /\ "dates" \in i.stale
    BY DEF Sound
<1>4. i.at \in {"dates", "clear", "save"} =>
          i.q \in Requests /\ i.o \in Offers /\ offer'[i.o].state # "absent"
    BY <1>1 DEF Sound
<1>5. i.at = "dates" =>
          /\ i.cur.hotel \in Hotels
          /\ Patched(i.q, i.cur).from < Patched(i.q, i.cur).to
          /\ Live(i.o)' /\ "row" \notin i.stale => i.cur = offer'[i.o]
    BY <1>1, <1>2, <1>4 DEF Sound
<1>6. ASSUME i.at \in {"clear", "save"}, Live(i.o)', "row" \notin i.stale
      PROVE  /\ Patched(i.q, offer'[i.o]).from < Patched(i.q, offer'[i.o]).to
             /\ "dates" \in i.stale
  <2>1. i.o \in Offers /\ i.o # o
      BY <1>4, <1>6
  <2>2. offer'[i.o] = offer[i.o] /\ Live(i.o) /\ "row" \notin j.stale
      BY <1>1, <1>2, <1>6, <2>1
  <2> QED
      BY <1>6, <2>2 DEF Sound
<1>7. ASSUME i.at = "save", i.q.rooms # None, Live(i.o)', "rooms" \notin i.stale
      PROVE  i.seen = offer'[i.o].rooms
  <2>1. i.o \in Offers
      BY <1>4, <1>7
  <2>2. CASE i.o = o
    <3>1. Live(o)
        BY <1>7, <2>2 DEF Sound
    <3> QED
        BY <1>1, <1>7, <2>2, <3>1 DEF Sound
  <2>3. CASE i.o # o
      BY <1>1, <1>2, <1>7, <2>1, <2>3 DEF Sound
  <2> QED
      BY <2>2, <2>3
<1>8. i.at # "save" \/ i.q.rooms = None => i.seen = {}
    BY DEF Sound
<1>9. i.at = "clear" => i.q.rooms # None
    BY DEF Sound
<1> QED
    BY <1>3, <1>4, <1>5, <1>6, <1>7, <1>8, <1>9 DEF Sound

\* An offer whose dates are free may take its place in the table.
LEMMA PlacedApart ==
    ASSUME TypeOK, OffersApart, NEW o \in Offers, NEW r \in Rows,
           offer' = [offer EXCEPT ![o] = r], NEW m, crossed' = [crossed EXCEPT ![o] = m],
           m = {} => FreeDates(r, {o})
    PROVE  OffersApart'
<1> SUFFICES ASSUME NEW a \in Offers, NEW b \in Offers, a # b, Shown(a)', Shown(b)',
                    offer'[a].hotel = offer'[b].hotel, crossed'[a] = {}, crossed'[b] = {}
             PROVE  offer'[a].to < offer'[b].from \/ offer'[b].to < offer'[a].from
    BY DEF OffersApart
<1>1. \A p \in Offers : p # o => /\ offer'[p] = offer[p] /\ crossed'[p] = crossed[p]
                                /\ Shown(p)' <=> Shown(p)
    BY DEF TypeOK, Shown, Live
<1>2. offer'[o] = r /\ crossed'[o] = m /\ r.from \in Int /\ r.to \in Int
    BY DEF TypeOK, Rows
<1>3. \A p \in Offers : offer[p].from \in Int /\ offer[p].to \in Int
    BY DEF TypeOK, Rows
<1>4. CASE a # o /\ b # o
    BY <1>1, <1>4 DEF OffersApart
<1>5. ASSUME NEW p \in Offers, p # o, Shown(o)', Shown(p)', offer'[p].hotel = r.hotel, m = {}
      PROVE  offer'[p].to < r.from \/ r.to < offer'[p].from
  <2>1. r.active
      BY <1>2, <1>5 DEF Shown
  <2>2. ~(Shown(p) /\ offer[p].hotel = r.hotel /\ offer[p].from <= r.to /\ offer[p].to >= r.from)
      BY <2>1, <1>5 DEF FreeDates
  <2>3. ~(offer[p].from <= r.to /\ offer[p].to >= r.from)
      BY <2>2, <1>1, <1>5
  <2> QED
      BY <2>3, <1>1, <1>2, <1>3, <1>5
<1>6. CASE a = o
    BY <1>2, <1>5, <1>6
<1>7. CASE b = o
    BY <1>2, <1>5, <1>7
<1> QED
    BY <1>4, <1>6, <1>7

-----------------------------------------------------------------------------
(* Each action.                                                             *)

LEMMA OffersInit == Init => OffersInv
<1> SUFFICES ASSUME Init PROVE OffersInv
    OBVIOUS
<1>1. TypeOK
    BY QuietIsJob DEF Init, TypeOK, Unwritten, Row, Live
<1>2. \A o \in Offers : ~Live(o) /\ ~Shown(o)
    BY DEF Init, Live, Shown, Unwritten, Row
<1>3. \A h \in Handlers : Sound(job[h])
    BY QuietIsSound DEF Init
<1> QED
    BY <1>1, <1>2, <1>3 DEF OffersInv, OffersApart, DatesInOrder

\* A step of a request that does not write: nothing else changes.
LEMMA OffersMove ==
    ASSUME OffersInv, NEW h \in Handlers, NEW j \in Jobs, Sound(j),
           job' = [job EXCEPT ![h] = j], UNCHANGED <<offer, crossed>>
    PROVE  OffersInv'
<1>1. TypeOK'
    BY DEF OffersInv, TypeOK, Live
<1>2. OffersApart' /\ DatesInOrder'
    BY DEF OffersInv, OffersApart, DatesInOrder, Shown, Live
<1>3. \A i : Sound(i) => Sound(i)'
    BY SoundKept DEF OffersInv, TypeOK, Live
<1>4. ASSUME NEW k \in Handlers PROVE Sound(job[k])'
  <2>1. PICK i : i = job'[k]
      OBVIOUS
  <2>2. Sound(i)
    <3>1. CASE k = h
        BY <2>1, <3>1 DEF OffersInv, TypeOK
    <3>2. CASE k # h
        BY <2>1, <3>2 DEF OffersInv, TypeOK
    <3> QED
        BY <3>1, <3>2
  <2>3. Sound(i)'
      BY <1>3, <2>2
  <2> QED
      BY <2>1, <2>3 DEF Sound
<1> QED
    BY <1>1, <1>2, <1>4 DEF OffersInv
LEMMA OffersCreateCheck ==
    ASSUME OffersInv, NEW h \in Handlers, NEW q \in Requests, CreateCheck(h, q)
    PROVE  OffersInv'
<1>1. PICK j : j = [Quiet EXCEPT !.at = "insert", !.q = q]
    OBVIOUS
<1>2. /\ j.at = "insert" /\ j.q = q /\ j.o = None /\ j.seen = {} /\ j.stale = {} /\ j.cur = Unwritten
    BY <1>1 DEF Quiet
<1>3. j \in Jobs
    BY <1>1, QuietIsJob DEF Jobs
<1>4. /\ Created(q) \in Rows /\ Created(q).hotel \in Hotels /\ Created(q).state = "live"
      /\ Created(q).from < Created(q).to /\ FreeDates(Created(q), {})
    BY CreatedIsRow DEF CreateCheck
<1>5. Sound(j)
    BY <1>2, <1>4 DEF Sound
<1>6. job' = [job EXCEPT ![h] = j] /\ UNCHANGED <<offer, crossed>>
    BY <1>1 DEF CreateCheck
<1> QED
    BY <1>3, <1>5, <1>6, OffersMove

LEMMA OffersUpdateRead ==
    ASSUME OffersInv, NEW h \in Handlers, NEW o \in Offers, NEW q \in Requests, UpdateRead(h, o, q)
    PROVE  OffersInv'
<1>1. PICK j : j = [at |-> "dates", o |-> o, q |-> q, cur |-> offer[o], seen |-> {}, stale |-> {}]
    OBVIOUS
<1>2. /\ Live(o) /\ offer[o] \in Rows /\ offer[o].hotel \in Hotels
      /\ Patched(q, offer[o]).from < Patched(q, offer[o]).to
    BY DEF UpdateRead, OffersInv, TypeOK
<1>3. j \in Jobs
    BY <1>1, <1>2 DEF Jobs
<1>4. Sound(j)
    BY <1>1, <1>2 DEF Sound, Live
<1>5. job' = [job EXCEPT ![h] = j] /\ UNCHANGED <<offer, crossed>>
    BY <1>1 DEF UpdateRead
<1> QED
    BY <1>3, <1>4, <1>5, OffersMove

LEMMA OffersUpdateCheck ==
    ASSUME OffersInv, NEW h \in Handlers, UpdateCheck(h)
    PROVE  OffersInv'
<1>1. PICK i : i = job[h]
    OBVIOUS
<1>2. i \in Jobs /\ Sound(i) /\ i.at = "dates"
    BY <1>1 DEF OffersInv, TypeOK, UpdateCheck
<1>3. PICK at : at = IF i.q.rooms = None THEN "save" ELSE "clear"
    OBVIOUS
<1>4. PICK j : j = [i EXCEPT !.at = at, !.cur = Unwritten]
    OBVIOUS
<1>5. /\ j.at = at /\ j.cur = Unwritten /\ j.o = i.o /\ j.q = i.q /\ j.seen = i.seen
      /\ j.stale = i.stale
    BY <1>2, <1>4 DEF Jobs
<1>6. j \in Jobs
    BY <1>2, <1>3, <1>4, QuietIsJob DEF Jobs
<1>7. FreeDates(Patched(i.q, i.cur), {i.o})
    BY <1>1 DEF UpdateCheck
<1>8. i.seen = {}
    BY <1>2 DEF Sound
<1>9. ASSUME Live(i.o), "row" \notin i.stale
      PROVE  /\ Patched(i.q, offer[i.o]).from < Patched(i.q, offer[i.o]).to
             /\ FreeDates(Patched(i.q, offer[i.o]), {i.o})
  <2>1. i.cur = offer[i.o]
      BY <1>2, <1>9 DEF Sound
  <2> QED
      BY <1>2, <1>7, <2>1 DEF Sound
<1>10. (at = "save" => i.q.rooms = None) /\ (at = "clear" => i.q.rooms # None)
    BY <1>3
<1>11. Sound(j)
    BY <1>2, <1>3, <1>5, <1>8, <1>9, <1>10 DEF Sound
<1>12. job' = [job EXCEPT ![h] = j] /\ UNCHANGED <<offer, crossed>>
    BY <1>1, <1>3, <1>4 DEF UpdateCheck, OffersInv, TypeOK
<1> QED
    BY <1>6, <1>11, <1>12, OffersMove

LEMMA OffersClear ==
    ASSUME OffersInv, NEW h \in Handlers, Clear(h)
    PROVE  OffersInv'
<1>1. PICK i : i = job[h]
    OBVIOUS
<1>2. i \in Jobs /\ Sound(i) /\ i.at = "clear"
    BY <1>1 DEF OffersInv, TypeOK, Clear
<1>0. PICK d : d = offer[i.o].rooms
    OBVIOUS
<1>3. PICK j : j = [i EXCEPT !.at = "save", !.seen = d]
    OBVIOUS
<1>4. /\ j.at = "save" /\ j.seen = d
      /\ j.o = i.o /\ j.q = i.q /\ j.cur = i.cur /\ j.stale = i.stale
    BY <1>2, <1>3 DEF Jobs
<1>5. d \in SUBSET Rooms
  <2>1. i.o \in Offers
      BY <1>2 DEF Sound
  <2>2. offer[i.o] \in Rows
      BY <2>1 DEF OffersInv, TypeOK
  <2> QED
      BY <2>2, <1>0 DEF Rows
<1>6. j \in Jobs
    BY <1>2, <1>3, <1>5 DEF Jobs
<1>7. i.q.rooms # None
    BY <1>2 DEF Sound
<1>8. Sound(j)
    BY <1>0, <1>2, <1>4, <1>7 DEF Sound
<1>9. job' = [job EXCEPT ![h] = j] /\ UNCHANGED <<offer, crossed>>
    BY <1>0, <1>1, <1>3 DEF Clear, OffersInv, TypeOK
<1> QED
    BY <1>6, <1>8, <1>9, OffersMove

LEMMA OffersFail ==
    ASSUME OffersInv, NEW h \in Handlers, Fail(h)
    PROVE  OffersInv'
BY QuietIsJob, QuietIsSound, OffersMove DEF Fail, Ends

\* What a write of the offer o, which deletes the rooms d, makes of the request k.
Passed(k, o, d, rooms) ==
    [job[k] EXCEPT !.seen = IF job[k].o = o THEN @ \ d ELSE @,
                   !.stale = @ \cup Outdated(k, o, rooms)]

LEMMA OutdatedMarks ==
    ASSUME NEW k, NEW o, NEW rooms
    PROVE  /\ Outdated(k, o, rooms) \subseteq Reads
           /\ job[k].o = o => "row" \in Outdated(k, o, rooms)
           /\ job[k].at \in {"insert", "clear", "save"} => "dates" \in Outdated(k, o, rooms)
           /\ job[k].o = o /\ job[k].at = "save" /\ rooms # None /\ job[k].q.rooms # None
                 => "rooms" \in Outdated(k, o, rooms)
BY DEF Outdated, Reads

\* A request writes the row r of the offer o, which is sound but for what it was
\* decided on.
Wrote(h, o, r, m, d, rooms) ==
    /\ offer[o].state = "absent" \/ Live(o)
    /\ offer' = [offer EXCEPT ![o] = r]
    /\ crossed' = [crossed EXCEPT ![o] = m]
    /\ m \in SUBSET {"row", "dates"}
    /\ job' = [k \in Handlers |-> IF k = h THEN Quiet ELSE Passed(k, o, d, rooms)]
    /\ r.state = "live"
    /\ r.hotel \in Hotels
    /\ "row" \notin m => r.from < r.to
    /\ m = {} => FreeDates(r, {o})
    /\ rooms = None /\ Live(o) => d = {} /\ r.rooms = offer[o].rooms

LEMMA OffersWritten ==
    ASSUME OffersInv, NEW h \in Handlers, NEW o \in Offers, NEW r \in Rows, NEW m, NEW d, NEW rooms,
           Wrote(h, o, r, m, d, rooms)
    PROVE  OffersInv'
<1>0. /\ offer[o].state = "absent" \/ Live(o)
      /\ offer' = [offer EXCEPT ![o] = r]
      /\ crossed' = [crossed EXCEPT ![o] = m]
      /\ m \in SUBSET {"row", "dates"}
      /\ job' = [k \in Handlers |-> IF k = h THEN Quiet ELSE Passed(k, o, d, rooms)]
      /\ r.state = "live"
      /\ r.hotel \in Hotels
      /\ "row" \notin m => r.from < r.to
      /\ m = {} => FreeDates(r, {o})
      /\ rooms = None /\ Live(o) => d = {} /\ r.rooms = offer[o].rooms
    BY DEF Wrote
<1>1. ASSUME NEW k \in Handlers PROVE job'[k] \in Jobs /\ Sound(job[k])'
  <2>1. CASE k = h
    <3>1. job'[k] = Quiet
        BY <1>0, <2>1
    <3>2. Sound(Quiet)'
        BY QuietIsSound
    <3> QED
        BY <3>1, <3>2, QuietIsJob DEF Sound, Quiet
  <2>2. CASE k # h
    <3>1. PICK j : j = job[k]
        OBVIOUS
    <3>2. j \in Jobs /\ Sound(j)
        BY <3>1 DEF OffersInv, TypeOK
    <3>3. PICK seen, stale : /\ seen = IF j.o = o THEN j.seen \ d ELSE j.seen
                             /\ stale = j.stale \cup Outdated(k, o, rooms)
        OBVIOUS
    <3>4. PICK i : i = [j EXCEPT !.seen = seen, !.stale = stale]
        OBVIOUS
    <3>5. job'[k] = i
        BY <1>0, <2>2, <3>1, <3>3, <3>4 DEF Passed
    <3>6. /\ i.at = j.at /\ i.o = j.o /\ i.q = j.q /\ i.cur = j.cur
          /\ i.seen = seen /\ i.stale = stale
        BY <3>2, <3>4 DEF Jobs
    <3>7. seen \in SUBSET Rooms /\ stale \in SUBSET Reads
        BY <3>2, <3>3, OutdatedMarks DEF Jobs
    <3>8. i \in Jobs
        BY <3>2, <3>4, <3>7 DEF Jobs
    <3>9. /\ j.stale \subseteq i.stale
          /\ j.o = o => "row" \in i.stale
          /\ j.at \in {"insert", "clear", "save"} => "dates" \in i.stale
          /\ j.seen = {} => i.seen = {}
          /\ j.o # o => i.seen = j.seen
        BY <3>1, <3>3, <3>6, OutdatedMarks
    <3>10. j.o = o /\ j.at = "save" /\ j.q.rooms # None /\ Live(o) /\ "rooms" \notin i.stale =>
               i.seen = j.seen /\ r.rooms = offer[o].rooms
        BY <1>0, <3>1, <3>3, <3>6, OutdatedMarks
    <3>11. Sound(i)'
        BY <1>0, <3>2, <3>6, <3>9, <3>10, SoundAfterWrite DEF OffersInv
    <3> QED
        BY <3>5, <3>8, <3>11 DEF Sound
  <2> QED
      BY <2>1, <2>2
<1>2. TypeOK'
  <2>1. offer' \in [Offers -> Rows] /\ \A p \in Offers : Live(p)' => offer'[p].hotel \in Hotels
      BY <1>0 DEF OffersInv, TypeOK, Live
  <2>2. job' \in [Handlers -> Jobs]
      BY <1>0, <1>1
  <2>3. crossed' \in [Offers -> SUBSET {"row", "dates"}]
      BY <1>0 DEF OffersInv, TypeOK
  <2> QED
      BY <2>1, <2>2, <2>3 DEF TypeOK
<1>3. OffersApart'
    BY <1>0, PlacedApart DEF OffersInv
<1>4. DatesInOrder'
    BY <1>0 DEF OffersInv, TypeOK, DatesInOrder, Live
<1> QED
    BY <1>1, <1>2, <1>3, <1>4 DEF OffersInv
LEMMA OffersInsert ==
    ASSUME OffersInv, NEW h \in Handlers, Insert(h)
    PROVE  OffersInv'
<1>1. PICK j : j = job[h]
    OBVIOUS
<1>2. j \in Jobs /\ Sound(j) /\ j.at = "insert"
    BY <1>1 DEF OffersInv, TypeOK, Insert
<1>3. PICK r : r = Created(j.q)
    OBVIOUS
<1>4. PICK o \in Offers :
          /\ offer[o].state = "absent"
          /\ offer' = [offer EXCEPT ![o] = r]
          /\ crossed' = [crossed EXCEPT ![o] = j.stale \ {"rooms"}]
          /\ job' = [k \in Handlers |->
                IF k = h THEN Quiet
                ELSE [job[k] EXCEPT !.stale = @ \cup Outdated(k, o, None)]]
    BY <1>1, <1>3 DEF Insert
<1>5. /\ r \in Rows /\ r.hotel \in Hotels /\ r.state = "live" /\ r.from < r.to
      /\ "dates" \notin j.stale => FreeDates(r, {})
    BY <1>2, <1>3 DEF Sound
<1>6. PICK m : m = j.stale \ {"rooms"}
    OBVIOUS
<1>7. /\ m \in SUBSET {"row", "dates"}
      /\ "dates" \notin m => "dates" \notin j.stale
    BY <1>2, <1>6 DEF Jobs, Reads
<1>8. m = {} => FreeDates(r, {o})
    BY <1>5, <1>7 DEF FreeDates
<1>9. job' = [k \in Handlers |-> IF k = h THEN Quiet ELSE Passed(k, o, {}, None)]
  <2>1. ASSUME NEW k \in Handlers
        PROVE  Passed(k, o, {}, None) = [job[k] EXCEPT !.stale = @ \cup Outdated(k, o, None)]
    <3>1. PICK i, d : i = job[k] /\ d = i.stale \cup Outdated(k, o, None)
        OBVIOUS
    <3>2. i \in Jobs
        BY <3>1 DEF OffersInv, TypeOK
    <3>3. (IF i.o = o THEN i.seen \ {} ELSE i.seen) = i.seen
        OBVIOUS
    <3>4. [i EXCEPT !.seen = i.seen, !.stale = d] = [i EXCEPT !.stale = d]
        BY <3>2 DEF Jobs
    <3> QED
        BY <3>1, <3>3, <3>4 DEF Passed
  <2> QED
      BY <1>4, <2>1
<1>10. ~Live(o)
    BY <1>4 DEF Live
<1>11. crossed' = [crossed EXCEPT ![o] = m]
    BY <1>4, <1>6
<1> QED
  <2>1. Wrote(h, o, r, m, {}, None)
      BY <1>4, <1>5, <1>7, <1>8, <1>9, <1>10, <1>11 DEF Wrote
  <2> QED
      BY <1>5, <2>1, OffersWritten

\* What Save writes: the row as it is, with what the request names.
LEMMA SavedRow ==
    ASSUME OffersInv, NEW h \in Handlers, NEW j, j = job[h], Save(h)
    PROVE  /\ j \in Jobs /\ Sound(j) /\ j.at = "save" /\ j.q \in Requests /\ j.o \in Offers /\ Live(j.o)
           /\ Saved(offer[j.o], j) \in Rows
           /\ Saved(offer[j.o], j).hotel \in Hotels
           /\ Saved(offer[j.o], j).state = "live"
           /\ Saved(offer[j.o], j).from = Patched(j.q, offer[j.o]).from
           /\ Saved(offer[j.o], j).to = Patched(j.q, offer[j.o]).to
           /\ \A e : FreeDates(Patched(j.q, offer[j.o]), e) => FreeDates(Saved(offer[j.o], j), e)
           /\ Saved(offer[j.o], j).rooms =
                 IF j.q.rooms = None THEN offer[j.o].rooms
                 ELSE (offer[j.o].rooms \ j.seen) \cup j.q.rooms
<1>1. j \in Jobs /\ Sound(j) /\ j.at = "save" /\ Live(j.o)
    BY DEF OffersInv, TypeOK, Save
<1>2. j.q \in Requests /\ j.o \in Offers
    BY <1>1 DEF Sound
<1>3. PICK r : r = offer[j.o]
    OBVIOUS
<1>4. r \in Rows /\ r.hotel \in Hotels /\ r.state = "live"
    BY <1>1, <1>2, <1>3 DEF OffersInv, TypeOK, Live
<1>5. PICK t : t = Patched(j.q, r)
    OBVIOUS
<1>6. t \in Rows /\ t.hotel \in Hotels /\ t.state = "live" /\ t.rooms = r.rooms
    BY <1>2, <1>4, <1>5, PatchedIsRow
<1>7. PICK rooms : rooms = IF j.q.rooms = None THEN r.rooms ELSE (r.rooms \ j.seen) \cup j.q.rooms
    OBVIOUS
<1>8. j.q.rooms # None => j.q.rooms \subseteq Rooms
    BY <1>2, RequestsAssumption
<1>9. rooms \in SUBSET Rooms
    BY <1>4, <1>7, <1>8 DEF Rows
<1>10. PICK s : s = [t EXCEPT !.rooms = rooms]
    OBVIOUS
<1>11. Saved(r, j) = s
    BY <1>5, <1>6, <1>7, <1>10 DEF Saved
<1>12. /\ s \in Rows /\ s.hotel = t.hotel /\ s.state = t.state /\ s.from = t.from /\ s.to = t.to
       /\ s.active = t.active /\ s.rooms = rooms
    BY <1>6, <1>9, <1>10 DEF Rows
<1>13. \A e : FreeDates(t, e) => FreeDates(s, e)
    BY <1>12 DEF FreeDates
<1>14. \A e : FreeDates(Patched(j.q, offer[j.o]), e) => FreeDates(Saved(offer[j.o], j), e)
    BY <1>3, <1>5, <1>11, <1>13
<1> QED
    BY <1>1, <1>2, <1>3, <1>5, <1>6, <1>7, <1>11, <1>12, <1>14

LEMMA OffersSave ==
    ASSUME OffersInv, NEW h \in Handlers, Save(h)
    PROVE  OffersInv'
<1>1. PICK j : j = job[h]
    OBVIOUS
<1>2. PICK o : o = j.o
    OBVIOUS
<1>3. PICK r : r = Saved(offer[o], j)
    OBVIOUS
<1>4. /\ j \in Jobs /\ Sound(j) /\ j.at = "save" /\ j.q \in Requests /\ o \in Offers /\ Live(o)
      /\ r \in Rows /\ r.hotel \in Hotels /\ r.state = "live"
      /\ r.from = Patched(j.q, offer[o]).from /\ r.to = Patched(j.q, offer[o]).to
      /\ FreeDates(Patched(j.q, offer[o]), {o}) => FreeDates(r, {o})
      /\ r.rooms = IF j.q.rooms = None THEN offer[o].rooms ELSE (offer[o].rooms \ j.seen) \cup j.q.rooms
    BY <1>1, <1>2, <1>3, SavedRow
<1>5. PICK m, d, rooms : m = j.stale \ {"rooms"} /\ d = j.seen /\ rooms = j.q.rooms
    OBVIOUS
<1>6. /\ m \in SUBSET {"row", "dates"}
      /\ "row" \notin m => "row" \notin j.stale
      /\ "dates" \notin m => "dates" \notin j.stale
    BY <1>4, <1>5 DEF Jobs, Reads
<1>7. "row" \notin m => r.from < r.to
    BY <1>2, <1>4, <1>6 DEF Sound
<1>8. m = {} => FreeDates(r, {o})
    BY <1>2, <1>4, <1>6 DEF Sound
<1>9. rooms = None => d = {} /\ r.rooms = offer[o].rooms
    BY <1>4, <1>5 DEF Sound
<1>10. /\ offer' = [offer EXCEPT ![o] = r]
       /\ crossed' = [crossed EXCEPT ![o] = m]
       /\ job' = [k \in Handlers |-> IF k = h THEN Quiet ELSE Passed(k, o, d, rooms)]
    BY <1>1, <1>2, <1>3, <1>5 DEF Save, Passed
<1> QED
  <2>1. Wrote(h, o, r, m, d, rooms)
      BY <1>4, <1>6, <1>7, <1>8, <1>9, <1>10 DEF Wrote
  <2> QED
      BY <1>4, <2>1, OffersWritten

\* Removing an offer frees its days and takes nothing from a request in flight
\* but, perhaps, its offer.
LEMMA OffersRemove ==
    ASSUME OffersInv, NEW o \in Offers, Remove(o)
    PROVE  OffersInv'
<1>1. offer' = [offer EXCEPT ![o] = Deleted] /\ job' = job /\ crossed' = [crossed EXCEPT ![o] = {}]
    BY DEF Remove
<1>2. Deleted \in Rows /\ Deleted.state = "deleted"
    BY DEF Deleted, Row, Rows
<1>3. \A p \in Offers : Live(p)' => Live(p) /\ offer'[p] = offer[p] /\ crossed'[p] = crossed[p]
    BY <1>1, <1>2 DEF OffersInv, TypeOK, Live
<1>4. \A p \in Offers : Shown(p)' => Shown(p) /\ offer'[p] = offer[p] /\ crossed'[p] = crossed[p]
    BY <1>3 DEF Shown
<1>5. TypeOK'
    BY <1>1, <1>2, <1>3 DEF OffersInv, TypeOK
<1>6. OffersApart' /\ DatesInOrder'
    BY <1>3, <1>4 DEF OffersInv, OffersApart, DatesInOrder
<1>7. ASSUME NEW h \in Handlers PROVE Sound(job[h])'
  <2>1. PICK j : j = job[h]
      OBVIOUS
  <2>2. Sound(j)
      BY <2>1 DEF OffersInv
  <2>3. \A p \in Offers : offer[p].state # "absent" => offer'[p].state # "absent"
      BY <1>1, <1>2 DEF OffersInv, TypeOK
  <2>4. offer' \in [Offers -> Rows]
      BY <1>5 DEF TypeOK
  <2>5. Sound(j)'
      BY <1>3, <2>2, <2>3, <2>4, SoundKept DEF OffersInv
  <2> QED
      BY <1>1, <2>1, <2>5 DEF Sound
<1> QED
    BY <1>5, <1>6, <1>7 DEF OffersInv

-----------------------------------------------------------------------------
\* The inductive invariant.
LEMMA OffersStep == OffersInv /\ [Next]_vars => OffersInv'
<1> SUFFICES ASSUME OffersInv, [Next]_vars PROVE OffersInv'
    OBVIOUS
<1>1. CASE UNCHANGED vars
  <2>1. offer' = offer /\ job' = job /\ crossed' = crossed
      BY <1>1 DEF vars
  <2>2. TypeOK' /\ OffersApart' /\ DatesInOrder'
      BY <2>1 DEF OffersInv, TypeOK, OffersApart, DatesInOrder, Shown, Live
  <2>3. ASSUME NEW h \in Handlers PROVE Sound(job[h])'
    <3>1. Sound(job[h])
        BY DEF OffersInv
    <3> QED
        BY <2>1, <3>1 DEF Sound, FreeDates, Shown, Live
  <2> QED
      BY <2>2, <2>3 DEF OffersInv
<1>2. CASE Next
    BY <1>2, OffersCreateCheck, OffersInsert, OffersUpdateRead, OffersUpdateCheck, OffersClear,
       OffersSave, OffersFail, OffersRemove DEF Next
<1> QED
    BY <1>1, <1>2

LEMMA OffersInvariant == Spec => []OffersInv
BY OffersInit, OffersStep, PTL DEF Spec

\* Two active offers of a hotel share no day, for any number of requests side by
\* side, but for those whose last write was decided on what another had rewritten.
THEOREM OffersApartHolds == Spec => []OffersApart
<1>1. OffersInv => OffersApart
    BY DEF OffersInv
<1> QED
    BY <1>1, OffersInvariant, PTL

\* The dates of an offer stay in order, whatever single date an update names and
\* whatever requests for other offers run beside it; only an update that crosses
\* another of the same offer can break it.
THEOREM DatesInOrderHolds == Spec => []DatesInOrder
<1>1. OffersInv => DatesInOrder
    BY DEF OffersInv
<1> QED
    BY <1>1, OffersInvariant, PTL

\* An update that names rooms leaves exactly these, unless another that names rooms
\* has committed since it deleted the rooms it saw.
THEOREM RoomsAsAskedHolds == Spec => RoomsAsAsked
<1> DEFINE AsAsked ==
        \A h \in Handlers :
            /\ job[h].at = "save" /\ job[h].q.rooms # None /\ "rooms" \notin job[h].stale
            /\ offer' # offer /\ Idle(h)'
            => offer'[job[h].o].rooms = job[h].q.rooms
<1>1. OffersInv /\ [Next]_vars => [AsAsked]_vars
  <2> SUFFICES ASSUME OffersInv, [Next]_vars, NEW h \in Handlers,
                      job[h].at = "save", job[h].q.rooms # None, "rooms" \notin job[h].stale,
                      offer' # offer, Idle(h)'
               PROVE  offer'[job[h].o].rooms = job[h].q.rooms
      OBVIOUS
  <2>1. Save(h)
    <3>1. \A o \in Offers : ~Remove(o)
        BY DEF Remove, Idle
    <3>2. ASSUME NEW k \in Handlers, k # h PROVE ~Insert(k) /\ ~Save(k)
      <4>1. job[h] \in Jobs
          BY DEF OffersInv, TypeOK
      <4>2. ASSUME NEW i, NEW s, i = job[h], job'[h] = [i EXCEPT !.stale = s] PROVE FALSE
          BY <4>1, <4>2 DEF Jobs, Idle
      <4>4. ~Insert(k)
          BY <3>2, <4>2 DEF Insert
      <4>5. ~Save(k)
        <5> SUFFICES ASSUME Save(k) PROVE FALSE
            OBVIOUS
        <5>1. PICK i, d, s :
                 /\ i = job[h]
                 /\ d = IF i.o = job[k].o THEN i.seen \ job[k].seen ELSE i.seen
                 /\ s = i.stale \cup Outdated(h, job[k].o, job[k].q.rooms)
            OBVIOUS
        <5>2. job'[h] = [i EXCEPT !.seen = d, !.stale = s]
            BY <3>2, <5>1 DEF Save
        <5> QED
            BY <4>1, <5>1, <5>2 DEF Jobs, Idle
      <4> QED
          BY <4>4, <4>5
    <3>3. ~Insert(h)
        BY DEF Insert
    <3> QED
        BY <3>1, <3>2, <3>3 DEF Next, vars, CreateCheck, UpdateRead, UpdateCheck, Clear, Fail
  <2>2. PICK j, o : j = job[h] /\ o = j.o
      OBVIOUS
  <2>3. /\ Sound(j) /\ j.at = "save" /\ o \in Offers /\ Live(o)
        /\ Saved(offer[o], j).rooms =
              IF j.q.rooms = None THEN offer[o].rooms ELSE (offer[o].rooms \ j.seen) \cup j.q.rooms
      BY <2>1, <2>2, SavedRow
  <2>4. offer' = [offer EXCEPT ![o] = Saved(@, j)]
      BY <2>1, <2>2 DEF Save
  <2>5. offer'[o] = Saved(offer[o], j)
      BY <2>3, <2>4 DEF OffersInv, TypeOK
  <2>6. j.seen = offer[o].rooms
      BY <2>2, <2>3 DEF Sound
  <2> QED
      BY <2>2, <2>3, <2>5, <2>6
<1> QED
    BY <1>1, OffersInvariant, PTL DEF Spec, RoomsAsAsked
=============================================================================
