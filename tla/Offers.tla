------------------------------- MODULE Offers -------------------------------
(***************************************************************************)
(* The special offers of OffreService.  A request of an administrator is a *)
(* chain of steps, one per await at which the table of offers is read or   *)
(* written: a check of the dates, then a write that does not repeat it.    *)
(* An update may name some fields only; it is checked with the others as   *)
(* they were when it began, and writes the fields it names over the row as *)
(* it is when it ends.  Its rooms are replaced in a transaction of the     *)
(* default isolation level: delete those of the offer, insert its own.     *)
(*                                                                         *)
(* Hotels stay active and keep their rooms here.                           *)
(***************************************************************************)
EXTENDS Integers

CONSTANTS
    Offers,     \* offer ids; autoincrement never hands one out twice
    Rooms,
    HotelOf,    \* the hotel of each room
    Requests,   \* what administrators ask for (CreateOffreDto, UpdateOffreDto)
    Handlers,   \* requests in flight at once (bound)
    None        \* a field that a request leaves out

Hotels == {HotelOf[x] : x \in Rooms}

\* The rooms of a request are not empty: @ArrayNotEmpty.
ASSUME RequestsAssumption ==
    \A q \in Requests :
        /\ q = [hotel |-> q.hotel, from |-> q.from, to |-> q.to, active |-> q.active, rooms |-> q.rooms]
        /\ q.hotel \in Hotels \cup {None}
        /\ q.from \in Int \cup {None} /\ q.to \in Int \cup {None}
        /\ q.active \in BOOLEAN \cup {None}
        /\ q.rooms # None => q.rooms \subseteq Rooms /\ q.rooms # {}
ASSUME NoneAssumption ==
    /\ None \notin Hotels /\ None \notin Int /\ None \notin BOOLEAN /\ None \notin Offers
    /\ \A S \in SUBSET Rooms : S # None

VARIABLES
    offer,    \* the table, with the rooms of each offer
    job,      \* the requests in flight
    crossed   \* ghost: what each offer was last written on, that was stale by then

vars == <<offer, job, crossed>>

\* What a request has read and a later write of another makes stale: the row of its
\* offer, the dates of the offers of the hotel, the rooms of its offer.
Reads == {"row", "dates", "rooms"}

-----------------------------------------------------------------------------
Row(state, hotel, from, to, active, rooms) ==
    [state |-> state, hotel |-> hotel, from |-> from, to |-> to, active |-> active, rooms |-> rooms]
Unwritten == Row("absent", None, 0, 0, FALSE, {})
Deleted == Row("deleted", None, 0, 0, FALSE, {})

Live(o) == offer[o].state = "live"
Shown(o) == Live(o) /\ offer[o].active

NoRequest == [hotel |-> None, from |-> None, to |-> None, active |-> None, rooms |-> None]
Quiet == [at |-> "idle", o |-> None, q |-> NoRequest, cur |-> Unwritten, seen |-> {}, stale |-> {}]
Idle(h) == job[h].at = "idle"
Ends(h) == job' = [job EXCEPT ![h] = Quiet]

\* The row r with the fields that the request q names; chambreIds apart.
Patched(q, r) ==
    [r EXCEPT !.hotel = IF q.hotel = None THEN @ ELSE q.hotel,
              !.from = IF q.from = None THEN @ ELSE q.from,
              !.to = IF q.to = None THEN @ ELSE q.to,
              !.active = IF q.active = None THEN @ ELSE q.active]

\* assertRoomsBelongToHotel.
RoomsFit(q, hotel) == q.rooms # None => \A x \in q.rooms : HotelOf[x] = hotel

\* Mutant: an offer that ends the day another begins does not overlap it.
FreeDatesHalfOpen(r, except) ==
    r.active => \A p \in Offers \ except :
        ~(Shown(p) /\ offer[p].hotel = r.hotel /\ offer[p].from < r.to /\ offer[p].to > r.from)

\* assertNoDateOverlapForHotel, which is asked for active offers only.
FreeDates(r, except) ==
    r.active => \A p \in Offers \ except :
        ~(Shown(p) /\ offer[p].hotel = r.hotel /\ offer[p].from <= r.to /\ offer[p].to >= r.from)

Rows == [state : {"absent", "live", "deleted"}, hotel : Hotels \cup {None}, from : Int, to : Int,
         active : BOOLEAN, rooms : SUBSET Rooms]

Jobs == [at : {"idle", "insert", "dates", "clear", "save"},
         o : Offers \cup {None},
         q : Requests \cup {NoRequest},
         cur : Rows,
         seen : SUBSET Rooms,
         stale : SUBSET Reads]     \* ghost

TypeOK ==
    /\ offer \in [Offers -> Rows]
    /\ \A o \in Offers : Live(o) => offer[o].hotel \in Hotels
    /\ job \in [Handlers -> Jobs]
    /\ crossed \in [Offers -> SUBSET {"row", "dates"}]

Init ==
    /\ offer = [o \in Offers |-> Unwritten]
    /\ job = [h \in Handlers |-> Quiet]
    /\ crossed = [o \in Offers |-> {}]

\* What a write of the offer o makes stale for the request of k: its row if k read
\* it, the dates if k has looked at them, its rooms if k has deleted those it saw.
Outdated(k, o, rooms) ==
    {read \in Reads :
        CASE read = "row" -> job[k].o = o
          [] read = "dates" -> job[k].at \in {"insert", "clear", "save"}
          [] read = "rooms" -> job[k].o = o /\ job[k].at = "save"
                               /\ rooms # None /\ job[k].q.rooms # None}

-----------------------------------------------------------------------------
(* create: hotel, dates and active (TRUE if left out) are checked, then the *)
(* offer is inserted with its rooms.                                        *)

Created(q) ==
    Row("live", q.hotel, q.from, q.to, q.active # FALSE, IF q.rooms = None THEN {} ELSE q.rooms)

CreateCheck(h, q) ==
    /\ Idle(h)
    /\ q.hotel # None /\ q.from # None /\ q.to # None
    /\ q.from < q.to
    /\ RoomsFit(q, q.hotel)
    /\ FreeDates(Created(q), {})
    /\ job' = [job EXCEPT ![h] = [Quiet EXCEPT !.at = "insert", !.q = q]]
    /\ UNCHANGED <<offer, crossed>>

Insert(h) ==
    /\ job[h].at = "insert"
    /\ \E o \in Offers :
        /\ offer[o].state = "absent"
        /\ offer' = [offer EXCEPT ![o] = Created(job[h].q)]
        /\ crossed' = [crossed EXCEPT ![o] = job[h].stale \ {"rooms"}]
        /\ job' = [k \in Handlers |->
              IF k = h THEN Quiet
              ELSE [job[k] EXCEPT !.stale = @ \cup Outdated(k, o, None)]]

-----------------------------------------------------------------------------
(* update: read the offer, check what it would become, write.               *)

\* Mutant: the dates are checked if the request names both.
UpdateReadLax(h, o, q) ==
    /\ Idle(h)
    /\ Live(o)
    /\ q.from # None /\ q.to # None => q.from < q.to
    /\ RoomsFit(q, Patched(q, offer[o]).hotel)
    /\ job' = [job EXCEPT ![h] =
          [at |-> "dates", o |-> o, q |-> q, cur |-> offer[o], seen |-> {}, stale |-> {}]]
    /\ UNCHANGED <<offer, crossed>>

UpdateRead(h, o, q) ==
    LET target == Patched(q, offer[o])
    IN  /\ Idle(h)
        /\ Live(o)
        /\ target.from < target.to
        /\ RoomsFit(q, target.hotel)
        /\ job' = [job EXCEPT ![h] =
              [at |-> "dates", o |-> o, q |-> q, cur |-> offer[o], seen |-> {}, stale |-> {}]]
        /\ UNCHANGED <<offer, crossed>>

UpdateCheck(h) ==
    /\ job[h].at = "dates"
    /\ FreeDates(Patched(job[h].q, job[h].cur), {job[h].o})
    /\ job' = [job EXCEPT ![h].at = IF job[h].q.rooms = None THEN "save" ELSE "clear",
                          ![h].cur = Unwritten]          \* not looked at any more
    /\ UNCHANGED <<offer, crossed>>

\* deleteMany deletes the rooms that are there when it runs; nobody sees it yet.
Clear(h) ==
    /\ job[h].at = "clear"
    /\ job' = [job EXCEPT ![h].at = "save", ![h].seen = offer[job[h].o].rooms]
    /\ UNCHANGED <<offer, crossed>>

\* Mutant: the rooms of the request are added to those of the offer.
SavedAdds(r, j) ==
    [Patched(j.q, r) EXCEPT !.rooms = IF j.q.rooms = None THEN @ ELSE @ \cup j.q.rooms]

Saved(r, j) ==
    [Patched(j.q, r) EXCEPT !.rooms = IF j.q.rooms = None THEN @ ELSE (@ \ j.seen) \cup j.q.rooms]

\* The transaction fails if the offer is gone, or if one of its rooms has been
\* inserted by another that it did not see.  What it deletes, others cannot.
Save(h) ==
    LET o == job[h].o
        q == job[h].q
    IN  /\ job[h].at = "save"
        /\ Live(o)
        /\ q.rooms # None => q.rooms \cap (offer[o].rooms \ job[h].seen) = {}
        /\ offer' = [offer EXCEPT ![o] = Saved(@, job[h])]
        /\ job' = [k \in Handlers |->
              IF k = h THEN Quiet
              ELSE [job[k] EXCEPT !.seen = IF job[k].o = o THEN @ \ job[h].seen ELSE @,
                                  !.stale = @ \cup Outdated(k, o, q.rooms)]]
        /\ crossed' = [crossed EXCEPT ![o] = job[h].stale \ {"rooms"}]

\* A check that turns the request down, a failed transaction, an error, a restart.
Fail(h) ==
    /\ ~Idle(h)
    /\ Ends(h)
    /\ UNCHANGED <<offer, crossed>>

\* Its rooms go with it (onDelete: Cascade).
Remove(o) ==
    /\ Live(o)
    /\ offer' = [offer EXCEPT ![o] = Deleted]
    /\ crossed' = [crossed EXCEPT ![o] = {}]
    /\ UNCHANGED job

Next ==
    \/ \E h \in Handlers, q \in Requests :
        \/ CreateCheck(h, q)
        \/ \E o \in Offers : UpdateRead(h, o, q)
    \/ \E h \in Handlers : Insert(h) \/ UpdateCheck(h) \/ Clear(h) \/ Save(h) \/ Fail(h)
    \/ \E o \in Offers : Remove(o)

Spec == Init /\ [][Next]_vars

-----------------------------------------------------------------------------
(* Properties.  Two requests may check their dates before either writes.   *)
(* The ghosts say which request wrote on what another had changed since it  *)
(* read it, and the properties hold of everything else, for any number of   *)
(* requests at once.                                                        *)

\* "Offer dates overlap with existing active offer": two active offers of a hotel
\* share no day, whatever was created, moved to another hotel or date, or switched
\* on, unless the last write of one of them was decided on a row, or on dates of
\* other offers, that another request had rewritten by then.
OffersApart ==
    \A o, p \in Offers :
        /\ o # p /\ Shown(o) /\ Shown(p) /\ offer[o].hotel = offer[p].hotel
        /\ crossed[o] = {} /\ crossed[p] = {}
        => offer[o].to < offer[p].from \/ offer[p].to < offer[o].from

\* "dateFin must be after dateDebut": also after updates that name one of the two,
\* unless another update of the same offer was saved while the last one checked it;
\* requests for other offers never matter.
DatesInOrder ==
    \A o \in Offers : Live(o) /\ "row" \notin crossed[o] => offer[o].from < offer[o].to

\* An update that names rooms leaves the offer with exactly these rooms, unless
\* another that names rooms has committed since this one deleted those it saw.
RoomsAsAsked ==
    [][\A h \in Handlers :
        /\ job[h].at = "save" /\ job[h].q.rooms # None /\ "rooms" \notin job[h].stale
        /\ offer' # offer /\ Idle(h)'
        => offer'[job[h].o].rooms = job[h].q.rooms]_vars
=============================================================================
