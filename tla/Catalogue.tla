----------------------------- MODULE Catalogue -----------------------------
(***************************************************************************)
(* The hotels and their rooms as the shop shows them: HotelService's two   *)
(* lists, its check of one hotel, and what ReservationService makes of a   *)
(* booking of a room so found.  Staff edit the catalogue and bookings come *)
(* and go while a visitor reads a list page by page.                       *)
(*                                                                         *)
(* Hotels are numbered as they are created.  An edit or a booking is one   *)
(* step here; what happens inside a booking is the matter of Booking.  An  *)
(* edit that is turned down (an agency that is unknown or inactive, a row  *)
(* that others refer to) is not a step.                                    *)
(***************************************************************************)
EXTENDS Stay, FiniteSetsExt, SequencesExt

CONSTANTS
    HotelIds,    \* ids the table of hotels may hand out: 1 .. n
    Seeded,      \* the first ids: the hotels of the seed
    Rooms,
    Bookings,
    Kinds,       \* [capacite, prix, disponible] that staff give to rooms
    Stars,       \* etoiles of each hotel
    Days,        \* days of arrival and departure
    Parties,     \* numbers of guests
    Queries,     \* what a visitor looks for; min and max hold a price, or none
    Limit,       \* hotels per page
    MaxEdits     \* edits and bookings (bound)

ASSUME IdsAssumption == Cardinality(HotelIds) \in Nat /\ HotelIds = 1 .. Cardinality(HotelIds)
ASSUME SeededAssumption == Seeded \subseteq HotelIds /\ \A h \in Seeded : 1 .. h \subseteq Seeded
ASSUME RoomsAssumption == IsFiniteSet(Rooms)
ASSUME KindsAssumption == Kinds \subseteq [capacite : Int, prix : Int, disponible : BOOLEAN]
ASSUME StarsAssumption == Stars \in [HotelIds -> 1 .. 5]
ASSUME DaysAssumption == Days \subseteq Int
ASSUME PartiesAssumption == Parties \subseteq Nat \ {0}   \* the code counts one adult at least
ASSUME LimitAssumption == Limit \in Nat \ {0}
ASSUME EditsAssumption == MaxEdits \in Nat

VARIABLES hotel, room, booking, visit, edits

vars == <<hotel, room, booking, visit, edits>>

Statuts == {"EN_ATTENTE", "CONFIRMEE", "REFUSEE", "ANNULEE", "TERMINEE", "BLOQUEE"}

\* Mutant: the rooms of bookings that staff blocked are free.
BlockingShort == {"EN_ATTENTE", "CONFIRMEE", "TERMINEE"}

BlockingStatuses == {"EN_ATTENTE", "CONFIRMEE", "BLOQUEE", "TERMINEE"}

\* The same list in ReservationService.
BookedStatuses == {"EN_ATTENTE", "CONFIRMEE", "BLOQUEE", "TERMINEE"}

Stays == {s \in [from : Days, to : Days] : s.from < s.to}
Nights(s) == s.to - s.from
CityTax == 5

NoRoom == [hotel |-> 0, capacite |-> 0, prix |-> 0, disponible |-> FALSE]
NoBooking == [room |-> "none", from |-> 0, to |-> 0, statut |-> "none"]
RoomOf(h, k) == [hotel |-> h, capacite |-> k.capacite, prix |-> k.prix, disponible |-> k.disponible]

Listed(h) == hotel[h] \in {"active", "inactive"}
RoomsOf(h) == {r \in Rooms : room[r].hotel = h}
Taken(r, s, statuses) ==
    \E b \in Bookings : /\ booking[b].statut \in statuses
                        /\ Clash(booking[b], [room |-> r, from |-> s.from, to |-> s.to])

-----------------------------------------------------------------------------
(* findAvailable, findAll: the hotels of a query and their order.          *)

AtLeastOne(n) == IF n < 1 THEN 1 ELSE n
InRange(r, q) == (\A p \in q.min : p <= room[r].prix) /\ (\A p \in q.max : room[r].prix <= p)

\* Mutant: a party is spread over the rooms rounding down.
CapacityRoundedDown(q) == AtLeastOne(q.guests \div q.rooms)

CapacityPerRoom(q) == AtLeastOne((q.guests + q.rooms - 1) \div q.rooms)

ChambresDisponibles(h, q) ==
    {r \in RoomsOf(h) : /\ room[r].capacite >= CapacityPerRoom(q)
                        /\ q.dated => ~Taken(r, q, BlockingStatuses)}

Available(q) ==
    {h \in HotelIds :
        /\ hotel[h] = "active"
        /\ \E r \in RoomsOf(h) : room[r].capacite >= CapacityPerRoom(q) /\ InRange(r, q)
        /\ Cardinality(ChambresDisponibles(h, q)) >= q.rooms}

All(q) ==
    {h \in HotelIds : /\ Listed(h)
                      /\ q.min \cup q.max # {} => \E r \in RoomsOf(h) : InRange(r, q)}

Listing(q) == IF q.list = "available" THEN Available(q) ELSE All(q)

\* What the list shows of a hotel.  Its price is that of its cheapest room, and
\* infinite when it shows none; two infinite prices leave the order open.
Shown(h, q) == IF q.list = "available" THEN ChambresDisponibles(h, q) ELSE RoomsOf(h)
Cheaper(g, h, q) == \E r \in Shown(g, q) : \A o \in Shown(h, q) : room[r].prix < room[o].prix

\* Whether g is sorted before h.  findAll reads the hotels by their stars when
\* it sorts by price; findAvailable reads them in no order.
Ahead(g, h, q) ==
    \/ q.sort = "id" /\ g > h
    \/ q.sort = "note" /\ Stars[g] > Stars[h]
    \/ q.sort = "price_asc" /\ Cheaper(g, h, q)
    \/ q.sort = "price_desc" /\ Cheaper(h, g, q)
    \/ /\ q.sort \in {"price_asc", "price_desc"} /\ q.list = "all"
       /\ ~Cheaper(g, h, q) /\ ~Cheaper(h, g, q) /\ Stars[g] > Stars[h]
Tied(S, q) == \E g, h \in S : g # h /\ ~Ahead(g, h, q) /\ ~Ahead(h, g, q)

\* The orders the database and the sort may produce: ties come as they like.
Sorted(q) ==
    {s \in SetToSeqs(Listing(q)) : \A i, j \in DOMAIN s : i < j => ~Ahead(s[j], s[i], q)}

\* Mutant: the pages are counted from zero.
SliceFromZero(s, page) == {s[i] : i \in {i \in DOMAIN s : page * Limit < i /\ i <= (page + 1) * Limit}}

Slice(s, page) == {s[i] : i \in {i \in DOMAIN s : (page - 1) * Limit < i /\ i <= page * Limit}}
TotalPages(total) == AtLeastOne((total + Limit - 1) \div Limit)

-----------------------------------------------------------------------------
(* checkAvailability, createBooking: one hotel, one room.                  *)

\* The rooms checkAvailability offers to a party of g.
MatchingRooms(h, s, g) ==
    IF hotel[h] # "active" THEN {}
    ELSE {r \in RoomsOf(h) : room[r].capacite >= g /\ ~Taken(r, s, BlockingStatuses)}

\* The total it shows: that of the first room, the cheapest.
Quote(h, s, g) ==
    Min({room[r].prix : r \in MatchingRooms(h, s, g)}) * Nights(s) + CityTax * Nights(s)

\* Whether createBooking takes the room, and the amount it writes.
Accepts(r, h, s, g) ==
    /\ room[r].hotel = h /\ room[r].disponible
    /\ hotel[h] = "active"
    /\ room[r].capacite >= g
    /\ ~Taken(r, s, BookedStatuses)
MontantTotal(r, s) == room[r].prix * Nights(s) + CityTax * Nights(s)

-----------------------------------------------------------------------------
(* The visitor.  Ghosts: expected, what the list held when the visitor     *)
(* began; left, whether a hotel left it or two changed places since; torn, *)
(* whether it changed between the two queries of one page; tied, whether   *)
(* the sort left some order open.                                          *)

Away(q) == [q |-> q, at |-> "away", page |-> 0, got |-> {}, total |-> 0, seen |-> {},
            expected |-> {}, left |-> FALSE, torn |-> FALSE, tied |-> FALSE]

TypeOK ==
    /\ hotel \in [HotelIds -> {"none", "active", "inactive", "removed"}]
    /\ \A g, h \in HotelIds : g < h /\ hotel[g] = "none" => hotel[h] = "none"
    /\ \A r \in Rooms : room[r] = NoRoom
                        \/ \E h \in HotelIds, k \in Kinds : Listed(h) /\ room[r] = RoomOf(h, k)
    /\ \A b \in Bookings : booking[b] = NoBooking
                           \/ /\ booking[b].room \in Rooms /\ room[booking[b].room] # NoRoom
                              /\ booking[b].statut \in Statuts /\ IsStay(booking[b])
    /\ visit.q \in Queries /\ visit.at \in {"away", "asking", "shown", "done"}
    /\ visit.got \subseteq {"items", "count"} /\ visit.page \in 0 .. Cardinality(HotelIds) + 1
    /\ visit.seen \subseteq HotelIds /\ visit.expected \subseteq HotelIds
    /\ visit.total \in 0 .. Cardinality(HotelIds)
    /\ edits \in 0 .. MaxEdits

Init ==
    /\ hotel = [h \in HotelIds |-> IF h \in Seeded THEN "active" ELSE "none"]
    /\ room \in [Rooms -> {RoomOf(h, k) : h \in Seeded, k \in {k \in Kinds : k.disponible}}]
    /\ booking = [b \in Bookings |-> NoBooking]
    /\ visit \in {Away(q) : q \in Queries}
    /\ edits = 0

Reading == visit.at \in {"asking", "shown"}

\* What an edit means to the visitor who is reading.
Watched ==
    /\ edits < MaxEdits /\ edits' = edits + 1
    /\ \E v \in {visit} :
         LET before == Listing(v.q)  after == Listing(v.q)'
             swapped == \E g, h \in before \cap after : Ahead(g, h, v.q) /\ ~Ahead(g, h, v.q)'
         IN  visit' = IF ~Reading THEN v
                      ELSE [v EXCEPT !.left = @ \/ swapped \/ ~(before \subseteq after),
                                     !.torn = @ \/ (v.got # {} /\ before # after)]

-----------------------------------------------------------------------------
(* Staff and bookings.                                                     *)

CreateHotel(h) ==
    /\ hotel[h] = "none" /\ \A g \in HotelIds : g < h => hotel[g] # "none"
    /\ hotel' = [hotel EXCEPT ![h] = "active"]
    /\ UNCHANGED <<room, booking>>
    /\ Watched

UpdateHotel(h, actif) ==
    /\ Listed(h) /\ hotel[h] # actif
    /\ hotel' = [hotel EXCEPT ![h] = actif]
    /\ UNCHANGED <<room, booking>>
    /\ Watched

\* Mutant: the rooms of a hotel do not hold it back.
RemoveHotelWithRooms(h) ==
    /\ Listed(h)
    /\ hotel' = [hotel EXCEPT ![h] = "removed"]
    /\ UNCHANGED <<room, booking>>
    /\ Watched

\* A hotel with rooms is not deleted: they refer to it.
RemoveHotel(h) ==
    /\ Listed(h) /\ RoomsOf(h) = {}
    /\ hotel' = [hotel EXCEPT ![h] = "removed"]
    /\ UNCHANGED <<room, booking>>
    /\ Watched

\* create and update of ChambreService: the room may change hotels.
SaveRoom(r, h, k) ==
    /\ Listed(h) /\ room[r] # RoomOf(h, k)
    /\ room' = [room EXCEPT ![r] = RoomOf(h, k)]
    /\ UNCHANGED <<hotel, booking>>
    /\ Watched

RemoveRoom(r) ==
    /\ room[r] # NoRoom /\ \A b \in Bookings : booking[b].room # r
    /\ room' = [room EXCEPT ![r] = NoRoom]
    /\ UNCHANGED <<hotel, booking>>
    /\ Watched

CreateBooking(b, r, s, g) ==
    /\ booking[b] = NoBooking
    /\ Accepts(r, room[r].hotel, s, g)
    /\ booking' = [booking EXCEPT ![b] = [room |-> r, from |-> s.from, to |-> s.to,
                                          statut |-> "EN_ATTENTE"]]
    /\ UNCHANGED <<hotel, room>>
    /\ Watched

\* updateStatus, and every other way a booking's status moves.
UpdateStatut(b, statut) ==
    /\ booking[b] # NoBooking /\ booking[b].statut # statut
    /\ booking' = [booking EXCEPT ![b].statut = statut]
    /\ UNCHANGED <<hotel, room>>
    /\ Watched

-----------------------------------------------------------------------------
(* The visitor reads every page of a list.                                 *)

Browses == UNCHANGED <<hotel, room, booking, edits>>

Ask ==
    /\ visit.at = "away"
    /\ visit' = [visit EXCEPT !.at = "asking", !.page = 1, !.expected = Listing(visit.q)]
    /\ Browses

\* One query: its answer is cut to the page.
FindAvailable ==
    /\ visit.at = "asking" /\ visit.q.list = "available"
    /\ \E s \in Sorted(visit.q) :
         visit' = [visit EXCEPT !.at = "shown", !.seen = @ \cup Slice(s, visit.page),
                                !.total = Len(s), !.tied = @ \/ Tied(Listing(visit.q), visit.q)]
    /\ Browses

\* Two queries that are sent together: the page has arrived when both have.
Arrived == IF visit.got = {} THEN "asking" ELSE "shown"
Gather(part) == IF visit.got = {} THEN {part} ELSE {}

FindAllItems ==
    /\ visit.at = "asking" /\ visit.q.list = "all" /\ "items" \notin visit.got
    /\ \E s \in Sorted(visit.q) :
         visit' = [visit EXCEPT !.at = Arrived, !.got = Gather("items"),
                                !.seen = @ \cup Slice(s, visit.page),
                                !.tied = @ \/ Tied(Listing(visit.q), visit.q)]
    /\ Browses

FindAllCount ==
    /\ visit.at = "asking" /\ visit.q.list = "all" /\ "count" \notin visit.got
    /\ visit' = [visit EXCEPT !.at = Arrived, !.got = Gather("count"),
                              !.total = Cardinality(Listing(visit.q))]
    /\ Browses

NextPage ==
    /\ visit.at = "shown" /\ visit.page < TotalPages(visit.total)
    /\ visit' = [visit EXCEPT !.at = "asking", !.page = @ + 1]
    /\ Browses

LastPage ==
    /\ visit.at = "shown" /\ visit.page >= TotalPages(visit.total)
    /\ visit' = [visit EXCEPT !.at = "done"]
    /\ Browses

Leave ==
    /\ visit.at = "done"
    /\ visit' \in {Away(q) : q \in Queries}
    /\ Browses

-----------------------------------------------------------------------------
Next ==
    \/ \E h \in HotelIds : \/ CreateHotel(h) \/ RemoveHotel(h)
                           \/ \E actif \in {"active", "inactive"} : UpdateHotel(h, actif)
    \/ \E r \in Rooms : \/ RemoveRoom(r)
                        \/ \E h \in HotelIds, k \in Kinds : SaveRoom(r, h, k)
                        \/ \E b \in Bookings, s \in Stays, g \in Parties :
                              room[r] # NoRoom /\ CreateBooking(b, r, s, g)
    \/ \E b \in Bookings, statut \in Statuts : UpdateStatut(b, statut)
    \/ Ask \/ FindAvailable \/ FindAllItems \/ FindAllCount \/ NextPage \/ LastPage \/ Leave

Spec == Init /\ [][Next]_vars

-----------------------------------------------------------------------------
(* Properties.                                                             *)

\* The search, the check of a hotel and the booking agree, whatever the edits
\* and the bookings before.  findAvailable lists a hotel for one room exactly
\* when checkAvailability offers one there.  The check offers exactly the rooms
\* createBooking takes and those that staff closed: it does not consult
\* disponible.  No room is had for less than the total the check shows, and
\* one is had for exactly that total unless a cheapest room offered is closed:
\* then what is shown may be refused.  Three queries of two services.
SearchAgreesWithBooking ==
    \A s \in Stays, g \in Parties :
        LET offered(h) == MatchingRooms(h, s, g)
            q == [list |-> "available", dated |-> TRUE, from |-> s.from, to |-> s.to,
                  guests |-> g, rooms |-> 1, min |-> {}, max |-> {}, sort |-> "id"]
        IN  /\ Available(q) = {h \in HotelIds : offered(h) # {}}
            /\ \A h \in HotelIds :
                  /\ {r \in offered(h) : room[r].disponible} = {r \in Rooms : Accepts(r, h, s, g)}
                  /\ \A r \in Rooms : Accepts(r, h, s, g) => Quote(h, s, g) <= MontantTotal(r, s)
                  /\ offered(h) # {} => \E r \in offered(h) :
                        /\ MontantTotal(r, s) = Quote(h, s, g)
                        /\ Accepts(r, h, s, g) \/ ~room[r].disponible

\* A hotel that is listed for a party and a number of rooms can host it: it
\* has that many rooms in which every guest has a bed, each of which
\* createBooking takes for its share of the party or staff have closed.
PartyFits ==
    \A s \in Stays, g \in Parties, n \in 1 .. Cardinality(Rooms) :
        LET q == [list |-> "available", dated |-> TRUE, from |-> s.from, to |-> s.to,
                  guests |-> g, rooms |-> n, min |-> {}, max |-> {}, sort |-> "id"]
        IN  \A h \in Available(q) : \E K \in SUBSET RoomsOf(h) :
              /\ Cardinality(K) = n
              /\ \E bed \in [1 .. g -> K] :
                    \A r \in K : Cardinality({i \in 1 .. g : bed[i] = r}) <= room[r].capacite
              /\ \A r \in K : ~room[r].disponible \/ \E share \in 1 .. g :
                                 share * n >= g /\ Accepts(r, h, s, share)

\* A visitor who reads a list to its last page has seen every hotel that was
\* on it from the beginning, however many joined meanwhile, provided that no
\* hotel left it, no two changed places, the sort leaves no tie, and the list
\* and the count of each page were read from the same table.
PagesMissNothing ==
    visit.at = "done" /\ ~visit.left /\ ~visit.torn /\ ~visit.tied => visit.expected \subseteq visit.seen
=============================================================================
