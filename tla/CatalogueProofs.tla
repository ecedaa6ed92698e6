-------------------------- MODULE CatalogueProofs --------------------------
(***************************************************************************)
(* The search, the check of a hotel and the booking agree, and the pages   *)
(* of a list miss nothing: for any rooms, bookings, prices and edits.      *)
(***************************************************************************)
EXTENDS Catalogue, FiniteSetTheorems, WellFoundedInduction, TLAPS

-----------------------------------------------------------------------------
(* Sets of numbers.                                                        *)

\* A finite set of numbers has a least one: a smallest set without one would have
\* one as soon as it lost an element.
LEMMA LeastOfFinite ==
    ASSUME NEW S \in SUBSET Int, IsFiniteSet(S), S # {}
    PROVE  \E x \in S : \A y \in S : x <= y
<1> DEFINE Least(X) == \E x \in X : \A y \in X : x <= y
           Bad == {X \in FiniteSubsetsOf(Int) : X # {} /\ ~Least(X)}
<1> SUFFICES ASSUME Bad # {} PROVE FALSE
    BY DEF FiniteSubsetsOf
<1>1. PICK X \in Bad : \A Y \in Bad : ~ (<<Y, X>> \in StrictSubsetOrdering(Int))
    BY FS_StrictSubsetOrderingWellFounded, WFMin
<1>2. PICK x \in X : TRUE
    OBVIOUS
<1>3. PICK Y : Y = X \ {x}
    OBVIOUS
<1>4. X \subseteq Int /\ IsFiniteSet(X) /\ x \in Int /\ Y \subseteq Int /\ Y # X /\ Y \subseteq X
    BY <1>2, <1>3 DEF FiniteSubsetsOf
<1>5. IsFiniteSet(Y)
    BY <1>3, <1>4, FS_RemoveElement
<1>6. Y \notin Bad
    BY <1>1, <1>4 DEF StrictSubsetOrdering
<1>7. CASE Y = {}
    BY <1>2, <1>3, <1>4, <1>7
<1>8. CASE Y # {}
  <2>1. PICK y \in Y : \A z \in Y : y <= z
      BY <1>4, <1>5, <1>6, <1>8 DEF FiniteSubsetsOf
  <2>2. y \in Int /\ y \in X /\ \A z \in X : z \in Y \/ z = x
      BY <1>3, <1>4, <2>1
  <2>3. CASE y <= x
      BY <1>4, <2>1, <2>2, <2>3
  <2>4. CASE x <= y
      BY <1>2, <1>4, <2>1, <2>2, <2>4
  <2> QED
      BY <1>4, <2>2, <2>3, <2>4
<1> QED
    BY <1>7, <1>8

\* Min by its definition, over whatever set of numbers has a least.
LEMMA MinOf ==
    ASSUME NEW S \in SUBSET Int, \E x \in S : \A y \in S : x <= y
    PROVE  Min(S) \in S /\ \A y \in S : Min(S) <= y
BY DEF Min

LEMMA MinOfFinite ==
    ASSUME NEW S \in SUBSET Int, IsFiniteSet(S), S # {}
    PROVE  Min(S) \in S /\ \A y \in S : Min(S) <= y
BY LeastOfFinite, MinOf

LEMMA MinIs ==
    ASSUME NEW S \in SUBSET Int, NEW m \in S, \A y \in S : m <= y
    PROVE  Min(S) = m
<1>1. Min(S) \in S /\ \A y \in S : Min(S) <= y
    BY MinOf
<1>2. m \in Int /\ Min(S) \in Int
    BY <1>1
<1> QED
    BY <1>1, <1>2

-----------------------------------------------------------------------------
(* Types.                                                                  *)

HotelStates == {"none", "active", "inactive", "removed"}
RoomRows == [hotel : Int, capacite : Int, prix : Int, disponible : BOOLEAN]
BookingRows == [room : Rooms \cup {"none"}, from : Int, to : Int, statut : Statuts \cup {"none"}]
Visits == [q : Queries, at : {"away", "asking", "shown", "done"}, page : 0 .. Cardinality(HotelIds) + 1,
           got : SUBSET {"items", "count"}, total : 0 .. Cardinality(HotelIds),
           seen : SUBSET HotelIds, expected : SUBSET HotelIds,
           left : BOOLEAN, torn : BOOLEAN, tied : BOOLEAN]

\* The parts of the type invariant.
TypedHotels ==
    /\ hotel \in [HotelIds -> HotelStates]
    /\ \A g, h \in HotelIds : g < h /\ hotel[g] = "none" => hotel[h] = "none"
TypedRooms ==
    /\ room \in [Rooms -> RoomRows]
    /\ \A r \in Rooms : room[r] = NoRoom
                        \/ \E h \in HotelIds, k \in Kinds : Listed(h) /\ room[r] = RoomOf(h, k)
TypedBookings ==
    /\ booking \in [Bookings -> BookingRows]
    /\ \A b \in Bookings : booking[b] = NoBooking
                           \/ /\ booking[b].room \in Rooms /\ room[booking[b].room] # NoRoom
                              /\ booking[b].statut \in Statuts /\ IsStay(booking[b])
Typed == TypedHotels /\ TypedRooms /\ TypedBookings /\ visit \in Visits /\ edits \in 0 .. MaxEdits

LEMMA TypedIsTypeOK == Typed => TypeOK
BY DEF Typed, TypedHotels, TypedRooms, TypedBookings, TypeOK, HotelStates, Visits

LEMMA IdsAreFinite ==
    /\ IsFiniteSet(HotelIds) /\ HotelIds \subseteq Nat \ {0}
    /\ \A T \in SUBSET HotelIds : /\ IsFiniteSet(T) /\ Cardinality(T) \in 0 .. Cardinality(HotelIds)
<1>1. PICK n : n = Cardinality(HotelIds)
    OBVIOUS
<1>2. n \in Nat /\ HotelIds = 1 .. n
    BY <1>1, IdsAssumption
<1>3. IsFiniteSet(HotelIds)
    BY <1>2, FS_Interval
<1>4. HotelIds \subseteq Nat \ {0}
    BY <1>2
<1>5. ASSUME NEW T \in SUBSET HotelIds
      PROVE  IsFiniteSet(T) /\ Cardinality(T) \in 0 .. Cardinality(HotelIds)
  <2>1. IsFiniteSet(T) /\ Cardinality(T) <= n
      BY <1>1, <1>3, FS_Subset
  <2>2. Cardinality(T) \in Nat
      BY <2>1, FS_CardinalityType
  <2> QED
      BY <1>1, <1>2, <2>1, <2>2
<1> QED
    BY <1>3, <1>4, <1>5

LEMMA ListingIsOfHotels ==
    ASSUME NEW q
    PROVE  Listing(q) \subseteq HotelIds
BY DEF Listing, Available, All

LEMMA RoomOfRow ==
    ASSUME NEW h \in HotelIds, NEW k \in Kinds
    PROVE  /\ RoomOf(h, k) \in RoomRows /\ RoomOf(h, k).hotel = h /\ RoomOf(h, k) # NoRoom
           /\ RoomOf(h, k).capacite = k.capacite /\ RoomOf(h, k).prix = k.prix
           /\ RoomOf(h, k).disponible = k.disponible
<1>1. h \in Nat \ {0} /\ k \in [capacite : Int, prix : Int, disponible : BOOLEAN]
    BY IdsAreFinite, KindsAssumption
<1>2. RoomOf(h, k).hotel = h /\ NoRoom.hotel = 0
    BY DEF RoomOf, NoRoom
<1>3. RoomOf(h, k) \in RoomRows
    BY <1>1 DEF RoomOf, RoomRows
<1> QED
    BY <1>1, <1>2, <1>3 DEF RoomOf

LEMMA AwayIsVisit ==
    ASSUME NEW q \in Queries
    PROVE  Away(q) \in Visits /\ Away(q).at = "away" /\ Away(q).got = {}
BY IdsAssumption DEF Away, Visits

\* The number of pages of a list that is not longer than n.
LEMMA PagesBounded ==
    ASSUME NEW t \in Nat
    PROVE  TotalPages(t) \in 1 .. t + 1 /\ TotalPages(t) * Limit >= t
<1> DEFINE p == (t + Limit - 1) \div Limit
<1>1. Limit \in Nat \ {0} /\ t + Limit - 1 \in Nat
    BY LimitAssumption
<1>2. p \in Nat /\ p * Limit >= t /\ p <= t
    BY <1>1, Z3
<1> HIDE DEF p
<1>3. TotalPages(t) = IF p < 1 THEN 1 ELSE p
    BY DEF TotalPages, AtLeastOne, p
<1>4. CASE p < 1
    BY <1>1, <1>2, <1>3, <1>4
<1>5. CASE p >= 1
    BY <1>1, <1>2, <1>3, <1>5
<1> QED
    BY <1>2, <1>4, <1>5

-----------------------------------------------------------------------------
(* The order of a list.                                                    *)

\* The hotels of a list that are sorted before h, and how many they are.
Preceding(h, q) == {g \in Listing(q) : g # h /\ Ahead(g, h, q)}
Rank(h, q) == Cardinality(Preceding(h, q))

LEMMA RankInListing ==
    ASSUME NEW q, NEW h
    PROVE  /\ Rank(h, q) \in Nat
           /\ h \in Listing(q) => Rank(h, q) < Cardinality(Listing(q))
<1>1. Listing(q) \in SUBSET HotelIds /\ IsFiniteSet(Listing(q))
    BY ListingIsOfHotels, IdsAreFinite
<1>2. Preceding(h, q) \in SUBSET Listing(q)
    BY DEF Preceding
<1>3. Rank(h, q) \in Nat /\ Rank(h, q) <= Cardinality(Listing(q))
    BY <1>1, <1>2, FS_Subset, FS_CardinalityType DEF Rank
<1>4. Cardinality(Listing(q)) \in Nat
    BY <1>1, FS_CardinalityType
<1>5. ASSUME h \in Listing(q), Rank(h, q) = Cardinality(Listing(q))
      PROVE  FALSE
  <2>1. Preceding(h, q) = Listing(q)
      BY <1>1, <1>2, <1>5, FS_Subset DEF Rank
  <2> QED
      BY <1>5, <2>1 DEF Preceding
<1> QED
    BY <1>3, <1>4, <1>5

LEMMA SortedIsOfListing ==
    ASSUME NEW q, NEW s \in Sorted(q)
    PROVE  /\ Len(s) = Cardinality(Listing(q)) /\ Len(s) \in 0 .. Cardinality(HotelIds)
           /\ DOMAIN s = 1 .. Len(s) /\ \A i \in DOMAIN s : s[i] \in Listing(q)
           /\ \A i, j \in DOMAIN s : i # j => s[i] # s[j]
           /\ \A i, j \in DOMAIN s : i < j => ~Ahead(s[j], s[i], q)
           /\ \A p : Slice(s, p) \subseteq HotelIds
<1>1. PICK n : n = Cardinality(Listing(q))
    OBVIOUS
<1>2. Listing(q) \in SUBSET HotelIds
    BY ListingIsOfHotels
<1>3. n \in 0 .. Cardinality(HotelIds) /\ n \in Nat
    BY <1>1, <1>2, IdsAreFinite, IdsAssumption
<1>4. /\ s \in [1 .. n -> Listing(q)] /\ \A i, j \in 1 .. n : i # j => s[i] # s[j]
      /\ \A i, j \in DOMAIN s : i < j => ~Ahead(s[j], s[i], q)
    BY <1>1 DEF Sorted, SetToSeqs
<1>5. DOMAIN s = 1 .. n
    BY <1>4
<1>6. Len(s) = n
    BY <1>3, <1>4
<1>7. \A p : Slice(s, p) \subseteq HotelIds
    BY <1>2, <1>4, <1>5 DEF Slice
<1> QED
    BY <1>1, <1>3, <1>4, <1>5, <1>6, <1>7

\* Where the sort leaves no tie, a hotel's place follows from how many precede it.
LEMMA SortedPlaces ==
    ASSUME NEW q, NEW s \in Sorted(q), ~Tied(Listing(q), q), NEW h \in Listing(q)
    PROVE  \E i \in DOMAIN s : s[i] = h /\ i = Rank(h, q) + 1
<1>1. PICK L : L = Listing(q)
    OBVIOUS
<1>2. PICK n : n = Cardinality(L)
    OBVIOUS
<1>3. IsFiniteSet(L) /\ n \in Nat
    BY <1>1, <1>2, ListingIsOfHotels, IdsAreFinite, FS_CardinalityType
<1>4. /\ DOMAIN s = 1 .. n /\ s \in [1 .. n -> L] /\ \A i, j \in 1 .. n : i # j => s[i] # s[j]
      /\ \A i, j \in 1 .. n : i < j => ~Ahead(s[j], s[i], q)
    BY <1>1, <1>2 DEF Sorted, SetToSeqs
<1>5. s \in Surjection(1 .. n, L)
  <2>1. s \in Injection(1 .. n, L)
      BY <1>4 DEF Injection, IsInjective
  <2>2. Cardinality(1 .. n) = Cardinality(L)
      BY <1>2, <1>3, FS_Interval
  <2> QED
      BY <1>3, <2>1, <2>2, FS_Injection
<1>6. PICK i \in 1 .. n : s[i] = h
    BY <1>1, <1>5 DEF Surjection
<1>7. Preceding(h, q) = {s[j] : j \in 1 .. (i - 1)}
  <2>1. ASSUME NEW g \in Preceding(h, q)
        PROVE  g \in {s[j] : j \in 1 .. (i - 1)}
    <3>1. g \in L /\ g # h /\ Ahead(g, h, q)
        BY <1>1 DEF Preceding
    <3>2. PICK j \in 1 .. n : s[j] = g
        BY <1>5, <3>1 DEF Surjection
    <3>3. j < i
        BY <1>3, <1>4, <1>6, <3>1, <3>2
    <3> QED
        BY <1>3, <3>2, <3>3
  <2>2. ASSUME NEW j \in 1 .. (i - 1)
        PROVE  s[j] \in Preceding(h, q)
    <3>1. j \in 1 .. n /\ j < i
        BY <1>3
    <3>2. s[j] \in L /\ s[j] # h /\ ~Ahead(h, s[j], q)
        BY <1>3, <1>4, <1>6, <3>1
    <3>3. Ahead(s[j], h, q)
        BY <1>1, <3>2 DEF Tied
    <3> QED
        BY <1>1, <3>2, <3>3 DEF Preceding
  <2> QED
      BY <2>1, <2>2
<1>8. Rank(h, q) = i - 1
  <2> DEFINE T == Preceding(h, q)
             D == 1 .. (i - 1)
             f == [j \in D |-> s[j]]
  <2>1. f \in Bijection(D, T)
    <3>1. D \subseteq 1 .. n
        BY <1>3
    <3>2. f \in Injection(D, T)
        BY <1>4, <1>7, <3>1 DEF Injection, IsInjective
    <3>3. f \in Surjection(D, T)
        BY <1>7 DEF Surjection
    <3> QED
        BY <3>2, <3>3 DEF Bijection
  <2>2. IsFiniteSet(D) /\ Cardinality(D) = i - 1
      BY <1>3, FS_Interval
  <2> QED
      BY <2>1, <2>2, FS_Bijection DEF ExistsBijection, Rank
<1> QED
    BY <1>3, <1>4, <1>6, <1>8

LEMMA PageHolds ==
    ASSUME NEW q, NEW s \in Sorted(q), ~Tied(Listing(q), q), NEW p \in Nat \ {0}, NEW h \in Listing(q),
           (p - 1) * Limit <= Rank(h, q), Rank(h, q) < p * Limit
    PROVE  h \in Slice(s, p)
<1>1. PICK i \in DOMAIN s : s[i] = h /\ i = Rank(h, q) + 1
    BY SortedPlaces
<1>2. Rank(h, q) \in Nat /\ (p - 1) * Limit \in Int /\ p * Limit \in Int
    BY RankInListing, LimitAssumption
<1>3. (p - 1) * Limit < i /\ i <= p * Limit
    BY <1>1, <1>2
<1> QED
    BY <1>1, <1>3 DEF Slice

-----------------------------------------------------------------------------
(* The steps, as the visitor sees them.                                    *)

\* An edit writes nothing of the visit but the ghosts; to a visitor who is reading
\* and whom no hotel has left, the list only grew and its order stayed.
LEMMA WatchedStep ==
    ASSUME visit \in Visits, edits \in 0 .. MaxEdits, Watched
    PROVE  /\ visit' \in Visits /\ edits' \in 0 .. MaxEdits
           /\ visit'.q = visit.q /\ visit'.at = visit.at /\ visit'.page = visit.page
           /\ visit'.got = visit.got /\ visit'.total = visit.total
           /\ visit'.seen = visit.seen /\ visit'.expected = visit.expected
           /\ visit'.tied = visit.tied
           /\ ~visit'.left => ~visit.left
           /\ ~visit'.torn => ~visit.torn
           /\ \A q \in Queries : visit.q = q /\ Reading /\ ~visit'.left =>
                 /\ Listing(q) \subseteq Listing(q)'
                 /\ \A g, h \in Listing(q) : Ahead(g, h, q) => Ahead(g, h, q)'
           /\ \A q \in Queries : visit.q = q /\ Reading /\ ~visit'.torn /\ visit.got # {} =>
                 Listing(q)' = Listing(q)
<1>1. edits' \in 0 .. MaxEdits
    BY EditsAssumption DEF Watched
<1>2. PICK v \in {visit} :
        visit' = IF ~Reading THEN v
                 ELSE [v EXCEPT !.left = @ \/ (\E g, h \in Listing(v.q) \cap Listing(v.q)' :
                                                   Ahead(g, h, v.q) /\ ~Ahead(g, h, v.q)')
                                           \/ ~(Listing(v.q) \subseteq Listing(v.q)'),
                                !.torn = @ \/ (v.got # {} /\ Listing(v.q) # Listing(v.q)')]
    BY Zenon DEF Watched
<1>3. v = visit /\ v \in Visits /\ v.q \in Queries
    BY <1>2 DEF Visits
<1>4. PICK q : q = v.q
    OBVIOUS
<1> DEFINE before == Listing(q)
           after == Listing(q)'
           swapped == \E g, h \in before \cap after : Ahead(g, h, q) /\ ~Ahead(g, h, q)'
<1>5. visit' = IF ~Reading THEN v
               ELSE [v EXCEPT !.left = v.left \/ swapped \/ ~(before \subseteq after),
                              !.torn = v.torn \/ (v.got # {} /\ before # after)]
    BY <1>2, <1>4, Zenon
<1>kept. ~swapped => \A g, h \in before \cap after : Ahead(g, h, q) => Ahead(g, h, q)'
    BY Zenon
<1> HIDE DEF before, after, swapped
<1>6. CASE ~Reading
    BY <1>1, <1>3, <1>5, <1>6
<1>7. CASE Reading
  <2>1. PICK l \in BOOLEAN, t \in BOOLEAN :
          /\ l = (v.left \/ swapped \/ ~(before \subseteq after))
          /\ t = (v.torn \/ (v.got # {} /\ before # after))
      OBVIOUS
  <2>2. visit' = [v EXCEPT !.left = l, !.torn = t]
      BY <1>5, <1>7, <2>1
  <2>3. /\ visit' \in Visits /\ visit'.left = l /\ visit'.torn = t
        /\ visit'.q = v.q /\ visit'.at = v.at /\ visit'.page = v.page
        /\ visit'.got = v.got /\ visit'.total = v.total
        /\ visit'.seen = v.seen /\ visit'.expected = v.expected /\ visit'.tied = v.tied
      BY <1>3, <2>2 DEF Visits
  <2>4. ~l => ~v.left /\ before \subseteq after
              /\ \A g, h \in before : Ahead(g, h, q) => Ahead(g, h, q)'
      BY <1>kept, <2>1
  <2>5. ~t => ~v.torn /\ (v.got # {} => before = after)
      BY <2>1
  <2>6. \A r \in Queries : visit.q = r => r = q
      BY <1>3, <1>4
  <2> QED
      BY <1>1, <1>3, <1>4, <1>7, <2>3, <2>4, <2>5, <2>6, Zenon DEF before, after
<1> QED
    BY <1>6, <1>7

\* While the visitor moves, the lists and their order stay.
LEMMA BrowsesKeeps ==
    ASSUME Browses
    PROVE  \A q : Listing(q)' = Listing(q)
<1>1. hotel' = hotel /\ room' = room /\ booking' = booking
    BY DEF Browses
<1>2. ASSUME NEW q
      PROVE  Listing(q)' = Listing(q)
    BY <1>1 DEF Listing, Available, All, Listed, RoomsOf, ChambresDisponibles, Taken, InRange
<1> QED
    BY <1>2

LEMMA RankKept ==
    ASSUME Browses, NEW q, NEW h
    PROVE  Rank(h, q)' = Rank(h, q)
<1>1. hotel' = hotel /\ room' = room /\ booking' = booking
    BY DEF Browses
<1>2. Listing(q)' = Listing(q)
    BY BrowsesKeeps
<1>3. ASSUME NEW g
      PROVE  Shown(g, q)' = Shown(g, q)
    BY <1>1 DEF Shown, RoomsOf, ChambresDisponibles, Taken
<1>4. ASSUME NEW g
      PROVE  Ahead(g, h, q)' <=> Ahead(g, h, q)
  <2>1. Cheaper(g, h, q)' <=> Cheaper(g, h, q)
      BY <1>1, <1>3 DEF Cheaper
  <2>2. Cheaper(h, g, q)' <=> Cheaper(h, g, q)
      BY <1>1, <1>3 DEF Cheaper
  <2> QED
      BY <2>1, <2>2 DEF Ahead
<1>5. Preceding(h, q)' = Preceding(h, q)
    BY <1>2, <1>4 DEF Preceding
<1> QED
    BY <1>5 DEF Rank

LEMMA AskStep ==
    ASSUME visit \in Visits, Ask, NEW q \in Queries, visit.q = q
    PROVE  /\ visit' \in Visits /\ visit.at = "away" /\ visit'.q = q
           /\ visit'.at = "asking" /\ visit'.page = 1 /\ visit'.expected = Listing(q)
           /\ visit'.got = visit.got /\ visit'.seen = visit.seen /\ visit'.total = visit.total
<1>1. PICK L : L = Listing(q)
    OBVIOUS
<1>2. L \subseteq HotelIds /\ 1 \in 0 .. Cardinality(HotelIds) + 1
    BY <1>1, ListingIsOfHotels, IdsAssumption
<1>3. visit' = [visit EXCEPT !.at = "asking", !.page = 1, !.expected = L] /\ visit.at = "away"
    BY <1>1 DEF Ask
<1> QED
    BY <1>1, <1>2, <1>3 DEF Visits

\* The answer to a query for the items of a page.
Answered(q) ==
    \E s \in Sorted(q) :
        /\ visit'.seen = visit.seen \cup Slice(s, visit.page)
        /\ visit'.tied = (visit.tied \/ Tied(Listing(q), q))

LEMMA FindAvailableStep ==
    ASSUME visit \in Visits, FindAvailable, NEW q \in Queries, visit.q = q
    PROVE  /\ visit' \in Visits /\ visit.at = "asking" /\ q.list = "available" /\ Answered(q)
           /\ visit'.q = q /\ visit'.at = "shown" /\ visit'.page = visit.page
           /\ visit'.expected = visit.expected /\ visit'.got = visit.got
           /\ visit'.total = Cardinality(Listing(q))
           /\ visit'.left = visit.left /\ visit'.torn = visit.torn
<1>1. PICK s \in Sorted(q) :
        visit' = [visit EXCEPT !.at = "shown", !.seen = visit.seen \cup Slice(s, visit.page),
                               !.total = Len(s), !.tied = visit.tied \/ Tied(Listing(q), q)]
    BY DEF FindAvailable
<1>2. PICK e, t, n : e = Slice(s, visit.page) /\ t = (visit.tied \/ Tied(Listing(q), q)) /\ n = Len(s)
    OBVIOUS
<1>3. e \subseteq HotelIds /\ t \in BOOLEAN /\ n \in 0 .. Cardinality(HotelIds) /\ n = Cardinality(Listing(q))
    BY <1>2, SortedIsOfListing
<1>4. visit' = [visit EXCEPT !.at = "shown", !.seen = visit.seen \cup e, !.total = n, !.tied = t]
    BY <1>1, <1>2
<1>5. /\ visit' \in Visits /\ visit'.seen = visit.seen \cup e /\ visit'.tied = t
      /\ visit'.q = q /\ visit'.at = "shown" /\ visit'.page = visit.page /\ visit'.total = n
      /\ visit'.expected = visit.expected /\ visit'.got = visit.got
      /\ visit'.left = visit.left /\ visit'.torn = visit.torn
    BY <1>3, <1>4 DEF Visits
<1>6. Answered(q)
    BY <1>2, <1>5 DEF Answered
<1>7. visit.at = "asking" /\ q.list = "available"
    BY DEF FindAvailable
<1> QED
    BY <1>3, <1>5, <1>6, <1>7

LEMMA FindAllItemsStep ==
    ASSUME visit \in Visits, FindAllItems, NEW q \in Queries, visit.q = q
    PROVE  /\ visit' \in Visits /\ visit.at = "asking" /\ q.list = "all" /\ "items" \notin visit.got
           /\ Answered(q)
           /\ visit'.q = q /\ visit'.page = visit.page /\ visit'.total = visit.total
           /\ visit'.expected = visit.expected
           /\ visit'.left = visit.left /\ visit'.torn = visit.torn
           /\ \/ visit.got = {} /\ visit'.at = "asking" /\ visit'.got = {"items"}
              \/ "count" \in visit.got /\ visit'.at = "shown" /\ visit'.got = {}
<1>1. PICK s \in Sorted(q) :
        visit' = [visit EXCEPT !.at = Arrived, !.got = Gather("items"),
                               !.seen = visit.seen \cup Slice(s, visit.page),
                               !.tied = visit.tied \/ Tied(Listing(q), q)]
    BY DEF FindAllItems
<1>2. PICK e, t, a, g : e = Slice(s, visit.page) /\ t = (visit.tied \/ Tied(Listing(q), q))
                        /\ a = Arrived /\ g = Gather("items")
    OBVIOUS
<1>3. e \subseteq HotelIds /\ t \in BOOLEAN
    BY <1>2, SortedIsOfListing
<1>4. visit' = [visit EXCEPT !.at = a, !.got = g, !.seen = visit.seen \cup e, !.tied = t]
    BY <1>1, <1>2
<1>5. visit.at = "asking" /\ q.list = "all" /\ "items" \notin visit.got /\ visit.got \subseteq {"items", "count"}
    BY DEF FindAllItems, Visits
<1>6. \/ visit.got = {} /\ a = "asking" /\ g = {"items"}
      \/ "count" \in visit.got /\ a = "shown" /\ g = {}
    BY <1>2, <1>5 DEF Arrived, Gather
<1>7. a \in {"asking", "shown"} /\ g \in SUBSET {"items", "count"}
    BY <1>6
<1>8. /\ visit' \in Visits /\ visit'.seen = visit.seen \cup e /\ visit'.tied = t
      /\ visit'.q = q /\ visit'.at = a /\ visit'.got = g /\ visit'.page = visit.page
      /\ visit'.total = visit.total /\ visit'.expected = visit.expected
      /\ visit'.left = visit.left /\ visit'.torn = visit.torn
    BY <1>3, <1>4, <1>7 DEF Visits
<1>9. Answered(q)
    BY <1>2, <1>8 DEF Answered
<1> QED
    BY <1>5, <1>6, <1>8, <1>9

LEMMA FindAllCountStep ==
    ASSUME visit \in Visits, FindAllCount, NEW q \in Queries, visit.q = q
    PROVE  /\ visit' \in Visits /\ visit.at = "asking" /\ q.list = "all" /\ "count" \notin visit.got
           /\ visit'.q = q /\ visit'.page = visit.page /\ visit'.total = Cardinality(Listing(q))
           /\ visit'.seen = visit.seen /\ visit'.expected = visit.expected
           /\ visit'.left = visit.left /\ visit'.torn = visit.torn /\ visit'.tied = visit.tied
           /\ \/ visit.got = {} /\ visit'.at = "asking" /\ visit'.got = {"count"}
              \/ "items" \in visit.got /\ visit'.at = "shown" /\ visit'.got = {}
<1>1. PICK a, g, n : a = Arrived /\ g = Gather("count") /\ n = Cardinality(Listing(q))
    OBVIOUS
<1>2. visit' = [visit EXCEPT !.at = a, !.got = g, !.total = n]
    BY <1>1 DEF FindAllCount
<1>3. visit.at = "asking" /\ q.list = "all" /\ "count" \notin visit.got /\ visit.got \subseteq {"items", "count"}
    BY DEF FindAllCount, Visits
<1>4. \/ visit.got = {} /\ a = "asking" /\ g = {"count"}
      \/ "items" \in visit.got /\ a = "shown" /\ g = {}
    BY <1>1, <1>3 DEF Arrived, Gather
<1>5. a \in {"asking", "shown"} /\ g \in SUBSET {"items", "count"}
    BY <1>4
<1>6. n \in 0 .. Cardinality(HotelIds)
    BY <1>1, ListingIsOfHotels, IdsAreFinite
<1>7. /\ visit' \in Visits /\ visit'.q = q /\ visit'.at = a /\ visit'.got = g /\ visit'.page = visit.page
      /\ visit'.total = n /\ visit'.seen = visit.seen /\ visit'.expected = visit.expected
      /\ visit'.left = visit.left /\ visit'.torn = visit.torn /\ visit'.tied = visit.tied
    BY <1>2, <1>5, <1>6 DEF Visits
<1> QED
    BY <1>1, <1>3, <1>4, <1>7

LEMMA NextPageStep ==
    ASSUME visit \in Visits, NextPage
    PROVE  /\ visit' \in Visits /\ visit.at = "shown" /\ visit'.at = "asking" /\ visit'.page = visit.page + 1
           /\ visit'.q = visit.q /\ visit'.got = visit.got /\ visit'.total = visit.total
           /\ visit'.seen = visit.seen /\ visit'.expected = visit.expected
           /\ visit'.left = visit.left /\ visit'.torn = visit.torn /\ visit'.tied = visit.tied
<1>1. PICK t, n, p : t = visit.total /\ n = Cardinality(HotelIds) /\ p = visit.page + 1
    OBVIOUS
<1>2. n \in Nat /\ t \in 0 .. n /\ visit.page \in 0 .. n + 1
    BY <1>1, IdsAssumption DEF Visits
<1>3. visit.at = "shown" /\ visit.page < TotalPages(t) /\ visit' = [visit EXCEPT !.at = "asking", !.page = p]
    BY <1>1 DEF NextPage
<1>4. TotalPages(t) \in 1 .. t + 1
    BY <1>2, PagesBounded
<1>5. p \in 0 .. n + 1
    BY <1>1, <1>2, <1>3, <1>4
<1> QED
    BY <1>1, <1>3, <1>5 DEF Visits

LEMMA LastPageStep ==
    ASSUME visit \in Visits, LastPage
    PROVE  /\ visit' \in Visits /\ visit.at = "shown" /\ visit'.at = "done" /\ visit'.page = visit.page
           /\ visit.page >= TotalPages(visit.total)
           /\ visit'.q = visit.q /\ visit'.got = visit.got /\ visit'.total = visit.total
           /\ visit'.seen = visit.seen /\ visit'.expected = visit.expected
           /\ visit'.left = visit.left /\ visit'.torn = visit.torn /\ visit'.tied = visit.tied
BY DEF LastPage, Visits

LEMMA LeaveStep ==
    ASSUME Leave
    PROVE  visit' \in Visits /\ visit'.at = "away" /\ visit'.got = {}
<1>1. PICK q \in Queries : visit' = Away(q)
    BY DEF Leave
<1> QED
    BY <1>1, AwayIsVisit

\* An edit or a booking, and a step of the visitor.
Edit ==
    \/ \E h \in HotelIds : \/ CreateHotel(h) \/ RemoveHotel(h)
                           \/ \E actif \in {"active", "inactive"} : UpdateHotel(h, actif)
    \/ \E r \in Rooms : \/ RemoveRoom(r)
                        \/ \E h \in HotelIds, k \in Kinds : SaveRoom(r, h, k)
                        \/ \E b \in Bookings, s \in Stays, g \in Parties :
                              room[r] # NoRoom /\ CreateBooking(b, r, s, g)
    \/ \E b \in Bookings, statut \in Statuts : UpdateStatut(b, statut)
Look == Ask \/ FindAvailable \/ FindAllItems \/ FindAllCount \/ NextPage \/ LastPage \/ Leave

LEMMA NextIs ==
    ASSUME Next
    PROVE  (Edit /\ Watched) \/ (Look /\ Browses)
BY DEF Next, Edit, Look, CreateHotel, RemoveHotel, UpdateHotel, RemoveRoom, SaveRoom, CreateBooking, UpdateStatut,
   Ask, FindAvailable, FindAllItems, FindAllCount, NextPage, LastPage, Leave

TypedTables == TypedHotels /\ TypedRooms /\ TypedBookings

\* A hotel changes its state: it stays among the known ones, and it stays listed
\* unless no room is in it.
LEMMA HotelMoves ==
    ASSUME TypedTables, NEW h \in HotelIds, NEW x \in HotelStates \ {"none"},
           hotel' = [hotel EXCEPT ![h] = x], UNCHANGED <<room, booking>>,
           \A g \in HotelIds : g < h => hotel[g] # "none",
           x \in {"active", "inactive"} \/ RoomsOf(h) = {}
    PROVE  TypedTables'
<1>1. TypedHotels'
    BY DEF TypedTables, TypedHotels, HotelStates
<1>2. TypedRooms'
  <2>1. room' \in [Rooms -> RoomRows]
      BY DEF TypedTables, TypedRooms
  <2>2. ASSUME NEW r \in Rooms, room[r] # NoRoom
        PROVE  \E i \in HotelIds, k \in Kinds : Listed(i)' /\ room[r] = RoomOf(i, k)
    <3>1. PICK i \in HotelIds, k \in Kinds : Listed(i) /\ room[r] = RoomOf(i, k)
        BY <2>2 DEF TypedTables, TypedRooms
    <3>2. i = h => x \in {"active", "inactive"}
        BY <3>1, RoomOfRow DEF RoomsOf
    <3>3. Listed(i)'
        BY <3>1, <3>2 DEF TypedTables, TypedHotels, Listed
    <3> QED
        BY <3>1, <3>3
  <2> QED
      BY <2>1, <2>2 DEF TypedRooms
<1>3. TypedBookings'
    BY DEF TypedTables, TypedBookings
<1> QED
    BY <1>1, <1>2, <1>3 DEF TypedTables

\* What a room in the catalogue is known to be.
LEMMA RoomIs ==
    ASSUME TypedRooms, NEW r \in Rooms
    PROVE  /\ room[r] \in RoomRows /\ room[r].prix \in Int /\ room[r].capacite \in Int
           /\ room[r].disponible \in BOOLEAN
BY DEF TypedRooms, RoomRows

LEMMA HotelsKnown ==
    ASSUME TypedHotels, NEW h \in HotelIds, hotel[h] # "none"
    PROVE  \A g \in HotelIds : g < h => hotel[g] # "none"
<1>1. \A g \in HotelIds : g < h => hotel[g] # "none"
    BY DEF TypedHotels
<1> QED
    BY <1>1

LEMMA EditTyped ==
    ASSUME TypedTables, Edit
    PROVE  TypedTables'
<1>1. ASSUME NEW h \in HotelIds, CreateHotel(h)
      PROVE  TypedTables'
    BY <1>1, HotelMoves DEF CreateHotel, HotelStates
<1>2. ASSUME NEW h \in HotelIds, RemoveHotel(h)
      PROVE  TypedTables'
    BY <1>2, HotelMoves, HotelsKnown DEF RemoveHotel, HotelStates, Listed, TypedTables
<1>3. ASSUME NEW h \in HotelIds, NEW actif \in {"active", "inactive"}, UpdateHotel(h, actif)
      PROVE  TypedTables'
    BY <1>3, HotelMoves, HotelsKnown DEF UpdateHotel, HotelStates, Listed, TypedTables
<1>4. ASSUME NEW r \in Rooms, RemoveRoom(r)
      PROVE  TypedTables'
  <2>1. room' = [room EXCEPT ![r] = NoRoom] /\ hotel' = hotel /\ booking' = booking
        /\ \A b \in Bookings : booking[b].room # r
      BY <1>4 DEF RemoveRoom
  <2>2. NoRoom \in RoomRows
      BY DEF NoRoom, RoomRows
  <2>3. TypedHotels'
      BY <2>1 DEF TypedTables, TypedHotels
  <2>4. TypedRooms'
      BY <2>1, <2>2 DEF TypedTables, TypedRooms, Listed
  <2>5. TypedBookings'
      BY <2>1 DEF TypedTables, TypedBookings, TypedRooms
  <2> QED
      BY <2>3, <2>4, <2>5 DEF TypedTables
<1>5. ASSUME NEW r \in Rooms, NEW h \in HotelIds, NEW k \in Kinds, SaveRoom(r, h, k)
      PROVE  TypedTables'
  <2>1. PICK j : j = RoomOf(h, k)
      OBVIOUS
  <2>2. room' = [room EXCEPT ![r] = j] /\ hotel' = hotel /\ booking' = booking /\ Listed(h)
      BY <1>5, <2>1 DEF SaveRoom
  <2>3. j \in RoomRows /\ j # NoRoom
      BY <2>1, RoomOfRow
  <2>4. TypedHotels'
      BY <2>2 DEF TypedTables, TypedHotels
  <2>5. TypedRooms'
      BY <2>1, <2>2, <2>3 DEF TypedTables, TypedRooms, Listed
  <2>6. TypedBookings'
      BY <2>2, <2>3 DEF TypedTables, TypedBookings, TypedRooms
  <2> QED
      BY <2>4, <2>5, <2>6 DEF TypedTables
<1>6. ASSUME NEW r \in Rooms, NEW b \in Bookings, NEW s \in Stays, NEW g \in Parties, room[r] # NoRoom,
             CreateBooking(b, r, s, g)
      PROVE  TypedTables'
  <2>1. PICK j : j = [room |-> r, from |-> s.from, to |-> s.to, statut |-> "EN_ATTENTE"]
      OBVIOUS
  <2>2. booking' = [booking EXCEPT ![b] = j] /\ hotel' = hotel /\ room' = room
      BY <1>6, <2>1 DEF CreateBooking
  <2>3. s.from \in Int /\ s.to \in Int /\ s.from < s.to
      BY DaysAssumption DEF Stays
  <2>4. /\ j \in BookingRows /\ j.room = r /\ j.statut \in Statuts /\ IsStay(j)
      BY <2>1, <2>3 DEF BookingRows, Statuts, IsStay
  <2>5. TypedHotels' /\ TypedRooms'
      BY <2>2 DEF TypedTables, TypedHotels, TypedRooms, Listed
  <2>6. TypedBookings'
      BY <1>6, <2>2, <2>4 DEF TypedTables, TypedBookings
  <2> QED
      BY <2>5, <2>6 DEF TypedTables
<1>7. ASSUME NEW b \in Bookings, NEW statut \in Statuts, UpdateStatut(b, statut)
      PROVE  TypedTables'
  <2>1. PICK j : j = [booking[b] EXCEPT !.statut = statut]
      OBVIOUS
  <2>2. booking' = [booking EXCEPT ![b] = j] /\ hotel' = hotel /\ room' = room /\ booking[b] # NoBooking
      BY <1>7, <2>1 DEF UpdateStatut
  <2>3. booking[b] \in BookingRows
      BY DEF TypedTables, TypedBookings
  <2>4. j \in BookingRows /\ j.room = booking[b].room /\ j.from = booking[b].from /\ j.to = booking[b].to
        /\ j.statut = statut
      BY <2>1, <2>3 DEF BookingRows
  <2>5. j.room \in Rooms /\ room[j.room] # NoRoom /\ IsStay(j)
      BY <2>2, <2>4 DEF TypedTables, TypedBookings, IsStay
  <2>6. TypedHotels' /\ TypedRooms'
      BY <2>2 DEF TypedTables, TypedHotels, TypedRooms, Listed
  <2>7. TypedBookings'
      BY <2>2, <2>4, <2>5 DEF TypedTables, TypedBookings
  <2> QED
      BY <2>6, <2>7 DEF TypedTables
<1> QED
    BY <1>1, <1>2, <1>3, <1>4, <1>5, <1>6, <1>7 DEF Edit

LEMMA BrowsesTyped ==
    ASSUME TypedTables, Browses
    PROVE  TypedTables'
BY DEF Browses, TypedTables, TypedHotels, TypedRooms, TypedBookings, Listed

LEMMA LookTyped ==
    ASSUME visit \in Visits, Look
    PROVE  visit' \in Visits
<1>1. PICK q \in Queries : visit.q = q
    BY DEF Visits
<1> QED
    BY <1>1, AskStep, FindAvailableStep, FindAllItemsStep, FindAllCountStep, NextPageStep, LastPageStep, LeaveStep
    DEF Look

LEMMA InitTyped == Init => Typed
<1> SUFFICES ASSUME Init PROVE Typed
    OBVIOUS
<1>1. TypedHotels
    BY SeededAssumption, IdsAssumption, IdsAreFinite DEF Init, TypedHotels, HotelStates
<1>2. TypedRooms
  <2>1. ASSUME NEW r \in Rooms
        PROVE  \E h \in HotelIds, k \in Kinds : Listed(h) /\ room[r] = RoomOf(h, k) /\ room[r] \in RoomRows
    <3>1. PICK h \in Seeded, k \in Kinds : room[r] = RoomOf(h, k)
        BY DEF Init
    <3>2. h \in HotelIds /\ Listed(h)
        BY SeededAssumption DEF Init, Listed
    <3> QED
        BY <3>1, <3>2, RoomOfRow
  <2>2. room \in [Rooms -> RoomRows]
      BY <2>1 DEF Init
  <2> QED
      BY <2>1, <2>2 DEF TypedRooms
<1>3. TypedBookings
    BY DEF Init, TypedBookings, NoBooking, BookingRows
<1>4. visit \in Visits /\ edits \in 0 .. MaxEdits
    BY AwayIsVisit, EditsAssumption DEF Init
<1> QED
    BY <1>1, <1>2, <1>3, <1>4 DEF Typed

LEMMA NextTyped == Typed /\ [Next]_vars => Typed'
<1> SUFFICES ASSUME Typed, [Next]_vars PROVE Typed'
    OBVIOUS
<1>1. TypedTables /\ visit \in Visits /\ edits \in 0 .. MaxEdits
    BY DEF Typed, TypedTables
<1>2. CASE Edit /\ Watched
    BY <1>1, <1>2, EditTyped, WatchedStep DEF TypedTables, Typed
<1>3. CASE Look /\ Browses
  <2>1. edits' = edits
      BY <1>3 DEF Browses
  <2> QED
      BY <1>1, <1>3, <2>1, BrowsesTyped, LookTyped DEF TypedTables, Typed
<1>4. CASE UNCHANGED vars
  <2>1. Browses /\ visit' = visit /\ edits' = edits
      BY <1>4 DEF vars, Browses
  <2> QED
      BY <1>1, <2>1, BrowsesTyped DEF TypedTables, Typed
<1> QED
    BY <1>2, <1>3, <1>4, NextIs

LEMMA AlwaysTyped == Spec => []Typed
<1> QED
    BY InitTyped, NextTyped, PTL DEF Spec

\* The tables keep their form and refer to what is there: hotels come in the order
\* of their ids, a room is in a listed hotel and a booking is of a room that exists
\* (HotelService.remove, ChambreService.remove, the foreign keys of the schema), and
\* a visitor is on a page that can exist.
THEOREM CatalogueTypeCorrect == Spec => []TypeOK
<1> QED
    BY AlwaysTyped, TypedIsTypeOK, PTL

-----------------------------------------------------------------------------
(* The pages of a list.  Read is the number of pages of which the items    *)
(* were read.  While the visitor reads, every hotel that was on the list   *)
(* from the beginning and is sorted into the pages read has been seen:     *)
(* hotels that join push the others back, never forward.                   *)

Read == IF visit.at = "asking" /\ "items" \notin visit.got THEN visit.page - 1 ELSE visit.page
Clean == ~visit.left /\ ~visit.torn /\ ~visit.tied

OneByOne(q) ==
    /\ visit.got # {} => visit.at = "asking" /\ q.list = "all"
    /\ Reading => visit.page >= 1
KeptOn(q) == Reading /\ ~visit.left => visit.expected \subseteq Listing(q)
ReadSoFar(q) ==
    Reading /\ Clean => \A h \in visit.expected : Rank(h, q) < Read * Limit => h \in visit.seen
Counted(q) == "count" \in visit.got /\ ~visit.torn => visit.total = Cardinality(Listing(q))
AllRead ==
    /\ visit.at = "shown" /\ Clean /\ visit.page >= TotalPages(visit.total) => visit.expected \subseteq visit.seen
    /\ visit.at = "done" /\ Clean => visit.expected \subseteq visit.seen

SeenInv ==
    /\ AllRead
    /\ \A q \in Queries : visit.q = q => OneByOne(q) /\ KeptOn(q) /\ ReadSoFar(q) /\ Counted(q)

LEMMA ReadIs ==
    ASSUME visit \in Visits, NEW q, OneByOne(q), Reading
    PROVE  /\ visit.page \in Nat \ {0} /\ Read \in {visit.page, visit.page - 1}
           /\ Read \in Nat /\ Read * Limit \in Nat
<1>1. visit.page \in Nat \ {0}
  <2>1. PICK n : n = Cardinality(HotelIds)
      OBVIOUS
  <2>2. visit.page \in 0 .. n + 1 /\ n \in Nat
      BY <2>1, IdsAssumption DEF Visits
  <2> QED
      BY <2>2 DEF OneByOne
<1>2. PICK r : r = Read
    OBVIOUS
<1>3. r \in {visit.page, visit.page - 1}
    BY <1>2 DEF Read
<1>4. r \in Nat
    BY <1>1, <1>3
<1>5. r * Limit \in Nat
    BY <1>4, LimitAssumption
<1> QED
    BY <1>1, <1>2, <1>3, <1>4, <1>5

\* A hotel's rank never falls while no hotel leaves the list and none overtakes it.
LEMMA RankGrows ==
    ASSUME NEW q, NEW h \in Listing(q), Listing(q) \subseteq Listing(q)',
           \A f, g \in Listing(q) : Ahead(f, g, q) => Ahead(f, g, q)'
    PROVE  Rank(h, q) \in Nat /\ Rank(h, q)' \in Nat /\ Rank(h, q) <= Rank(h, q)'
<1> DEFINE P == Preceding(h, q)
           Q == Preceding(h, q)'
<1>1. P \subseteq Q
    BY Zenon DEF Preceding
<1>2. Listing(q)' \subseteq HotelIds
    BY DEF Listing, Available, All
<1>3. Q \subseteq HotelIds
    BY <1>2, Zenon DEF Preceding
<1>4. Rank(h, q) = Cardinality(P) /\ Rank(h, q)' = Cardinality(Q)
    BY Zenon DEF Rank
<1> HIDE DEF P, Q
<1>5. IsFiniteSet(Q)
    BY <1>3, IdsAreFinite
<1>6. Cardinality(P) <= Cardinality(Q) /\ IsFiniteSet(P)
    BY <1>1, <1>5, FS_Subset
<1>7. Cardinality(P) \in Nat /\ Cardinality(Q) \in Nat
    BY <1>5, <1>6, FS_CardinalityType
<1> QED
    BY <1>4, <1>6, <1>7

LEMMA SeenOf ==
    ASSUME SeenInv, NEW q \in Queries, visit.q = q
    PROVE  AllRead /\ OneByOne(q) /\ KeptOn(q) /\ ReadSoFar(q) /\ Counted(q)
BY DEF SeenInv

LEMMA SeenNext ==
    ASSUME NEW q, visit'.q = q, AllRead', OneByOne(q)', KeptOn(q)', ReadSoFar(q)', Counted(q)'
    PROVE  SeenInv'
<1>1. ASSUME NEW r \in Queries, visit'.q = r
      PROVE  OneByOne(r)' /\ KeptOn(r)' /\ ReadSoFar(r)' /\ Counted(r)'
  <2>1. r = q
      BY <1>1
  <2> QED
      BY <2>1, Zenon
<1> QED
    BY <1>1, Zenon DEF SeenInv

LEMMA WatchedSeen ==
    ASSUME visit \in Visits, edits \in 0 .. MaxEdits, SeenInv, Watched
    PROVE  SeenInv'
<1>1. PICK q \in Queries : visit.q = q
    BY DEF Visits
<1>2. AllRead /\ OneByOne(q) /\ KeptOn(q) /\ ReadSoFar(q) /\ Counted(q)
    BY <1>1, SeenOf
<1>3. /\ visit' \in Visits /\ visit'.q = q /\ visit'.at = visit.at /\ visit'.page = visit.page
      /\ visit'.got = visit.got /\ visit'.total = visit.total
      /\ visit'.seen = visit.seen /\ visit'.expected = visit.expected
      /\ visit'.tied = visit.tied
      /\ ~visit'.left => ~visit.left
      /\ ~visit'.torn => ~visit.torn
    BY <1>1, WatchedStep
<1>4. /\ Reading /\ ~visit'.left =>
           /\ Listing(q) \subseteq Listing(q)'
           /\ \A g, h \in Listing(q) : Ahead(g, h, q) => Ahead(g, h, q)'
      /\ Reading /\ ~visit'.torn /\ visit.got # {} => Listing(q)' = Listing(q)
    BY <1>1, WatchedStep, Zenon
<1>5. (Reading' <=> Reading) /\ (Clean' => Clean) /\ Read' = Read
    BY <1>3 DEF Reading, Clean, Read
<1>6. AllRead'
    BY <1>2, <1>3, <1>5 DEF AllRead
<1>7. OneByOne(q)'
    BY <1>2, <1>3, <1>5 DEF OneByOne
<1>8. KeptOn(q)'
    BY <1>2, <1>3, <1>4, <1>5 DEF KeptOn
<1>9. ReadSoFar(q)'
  <2>1. ASSUME Reading', Clean', NEW h \in visit'.expected, Rank(h, q)' < Read' * Limit
        PROVE  h \in visit'.seen
    <3>1. Reading /\ ~visit'.left /\ Clean
        BY <1>5, <2>1 DEF Clean
    <3>2. h \in visit.expected /\ h \in Listing(q)
        BY <1>2, <1>3, <2>1, <3>1 DEF KeptOn, Clean
    <3>3. Rank(h, q) \in Nat /\ Rank(h, q)' \in Nat /\ Rank(h, q) <= Rank(h, q)'
        BY <1>4, <3>1, <3>2, RankGrows, Zenon
    <3>4. Read * Limit \in Nat
        BY <1>2, <3>1, ReadIs
    <3>5. Rank(h, q) < Read * Limit
        BY <1>5, <2>1, <3>3, <3>4
    <3> QED
        BY <1>2, <1>3, <3>1, <3>2, <3>5 DEF ReadSoFar
  <2> QED
      BY <2>1, Zenon DEF ReadSoFar
<1>10. Counted(q)'
  <2>1. ASSUME "count" \in visit'.got, ~visit'.torn
        PROVE  visit'.total = Cardinality(Listing(q)')
    <3>1. visit.got # {} /\ Reading
        BY <1>2, <1>3, <2>1 DEF OneByOne, Reading
    <3>2. Listing(q)' = Listing(q)
        BY <1>3, <1>4, <2>1, <3>1
    <3> QED
        BY <1>2, <1>3, <2>1, <3>2 DEF Counted
  <2> QED
      BY <2>1, Zenon DEF Counted
<1> QED
    BY <1>3, <1>6, <1>7, <1>8, <1>9, <1>10, SeenNext

LEMMA AskSeen ==
    ASSUME visit \in Visits, SeenInv, Ask
    PROVE  SeenInv'
<1>1. PICK q \in Queries : visit.q = q
    BY DEF Visits
<1>2. AllRead /\ OneByOne(q) /\ KeptOn(q) /\ ReadSoFar(q) /\ Counted(q)
    BY <1>1, SeenOf
<1>3. Browses /\ Listing(q)' = Listing(q)
    BY BrowsesKeeps DEF Ask
<1>4. /\ visit.at = "away" /\ visit'.q = q /\ visit'.at = "asking" /\ visit'.page = 1
      /\ visit'.expected = Listing(q) /\ visit'.got = visit.got
    BY <1>1, AskStep
<1>5. visit'.got = {}
    BY <1>2, <1>4 DEF OneByOne
<1>6. AllRead' /\ OneByOne(q)' /\ KeptOn(q)' /\ Counted(q)'
    BY <1>3, <1>4, <1>5 DEF AllRead, OneByOne, KeptOn, Counted
<1>7. ReadSoFar(q)'
  <2>1. ASSUME NEW h, Rank(h, q)' < Read' * Limit
        PROVE  FALSE
    <3>1. Rank(h, q)' \in Nat
        BY <1>3, RankKept, RankInListing
    <3>2. Read' = 0
        BY <1>4, <1>5 DEF Read
    <3>3. Read' * Limit = 0
        BY <3>2, LimitAssumption
    <3> QED
        BY <2>1, <3>1, <3>3
  <2> QED
      BY <2>1, Zenon DEF ReadSoFar
<1> QED
    BY <1>4, <1>6, <1>7, SeenNext

\* The items of a page arrive: with them the hotels of its ranks.
LEMMA AnsweredSeen ==
    ASSUME visit \in Visits, NEW q \in Queries, OneByOne(q), KeptOn(q), ReadSoFar(q), Browses,
           visit.at = "asking", "items" \notin visit.got, Answered(q),
           ~visit.left, ~visit.torn, ~visit'.tied,
           NEW h \in visit.expected, Rank(h, q) < visit.page * Limit
    PROVE  h \in visit'.seen
<1>1. PICK s \in Sorted(q) : /\ visit'.seen = visit.seen \cup Slice(s, visit.page)
                             /\ visit'.tied = (visit.tied \/ Tied(Listing(q), q))
    BY DEF Answered
<1>2. ~visit.tied /\ ~Tied(Listing(q), q)
    BY <1>1
<1>3. Reading /\ Clean /\ Read = visit.page - 1
    BY <1>2 DEF Reading, Clean, Read
<1>4. PICK p : p = visit.page
    OBVIOUS
<1>5. p \in Nat \ {0}
    BY <1>3, <1>4, ReadIs
<1>6. h \in Listing(q)
    BY <1>3 DEF KeptOn
<1>7. Rank(h, q) \in Nat /\ (p - 1) * Limit \in Int
    BY <1>5, RankInListing, LimitAssumption
<1>8. CASE Rank(h, q) < (p - 1) * Limit
    BY <1>1, <1>3, <1>4, <1>8 DEF ReadSoFar
<1>9. CASE (p - 1) * Limit <= Rank(h, q)
  <2>1. h \in Slice(s, p)
      BY <1>2, <1>4, <1>5, <1>6, <1>9, PageHolds
  <2> QED
      BY <1>1, <1>4, <2>1
<1> QED
    BY <1>7, <1>8, <1>9

\* Once as many pages are read as the count asks for, no rank is left.
LEMMA LastRank ==
    ASSUME NEW q, NEW h \in Listing(q), NEW p \in Nat, p >= TotalPages(Cardinality(Listing(q)))
    PROVE  Rank(h, q) < p * Limit
<1>1. PICK n : n = Cardinality(Listing(q))
    OBVIOUS
<1>2. n \in Nat
    BY <1>1, ListingIsOfHotels, IdsAreFinite, FS_CardinalityType
<1>3. Rank(h, q) \in Nat /\ Rank(h, q) < n
    BY <1>1, RankInListing
<1>4. PICK t : t = TotalPages(n)
    OBVIOUS
<1>5. t \in 1 .. n + 1 /\ t * Limit >= n
    BY <1>2, <1>4, PagesBounded
<1>6. p * Limit >= t * Limit
    BY <1>1, <1>2, <1>4, <1>5, LimitAssumption, Z3
<1>7. t * Limit \in Int /\ p * Limit \in Int
    BY <1>2, <1>5, LimitAssumption
<1> QED
    BY <1>2, <1>3, <1>5, <1>6, <1>7

\* A step that goes on with the page at hand: what is to be shown of it is that the
\* ranks read so far are still seen, all of them if it was the last page.
LEMMA PageGoesOn ==
    ASSUME visit \in Visits, visit' \in Visits, NEW q \in Queries, visit.q = q, visit'.q = q,
           OneByOne(q), KeptOn(q), Reading, Browses,
           visit'.at \in {"asking", "shown"}, visit'.got # {} => visit'.at = "asking" /\ q.list = "all",
           visit'.page \in {visit.page, visit.page + 1}, visit'.expected = visit.expected,
           visit'.left = visit.left,
           "count" \in visit'.got \/ visit'.at = "shown" =>
               (~visit'.torn => visit'.total = Cardinality(Listing(q))),
           visit'.at = "shown" => visit'.page = Read',
           Clean' => \A h \in visit.expected : Rank(h, q) < Read' * Limit => h \in visit'.seen
    PROVE  SeenInv'
<1>1. visit.page \in Nat \ {0} /\ visit'.page \in Nat \ {0}
    BY ReadIs
<1>2. Listing(q)' = Listing(q)
    BY BrowsesKeeps
<1>3. Reading'
    BY DEF Reading
<1>4. OneByOne(q)'
    BY <1>1 DEF OneByOne
<1>5. KeptOn(q)'
    BY <1>2 DEF KeptOn
<1>6. ReadSoFar(q)'
  <2>1. ASSUME Clean', NEW h \in visit'.expected, Rank(h, q)' < Read' * Limit
        PROVE  h \in visit'.seen
    <3>1. Rank(h, q)' = Rank(h, q)
        BY RankKept
    <3> QED
        BY <2>1, <3>1
  <2> QED
      BY <2>1, Zenon DEF ReadSoFar
<1>7. Counted(q)'
    BY <1>2 DEF Counted
<1>8. AllRead'
  <2>1. ASSUME visit'.at = "shown", Clean', visit'.page >= TotalPages(visit'.total), NEW h \in visit'.expected
        PROVE  h \in visit'.seen
    <3>1. visit'.total = Cardinality(Listing(q))
        BY <2>1 DEF Clean
    <3>2. PICK p : p = visit'.page
        OBVIOUS
    <3>3. h \in Listing(q)
        BY <2>1 DEF KeptOn, Clean
    <3>4. p \in Nat /\ p >= TotalPages(Cardinality(Listing(q)))
        BY <1>1, <2>1, <3>1, <3>2
    <3>5. Rank(h, q) < p * Limit
        BY <3>3, <3>4, LastRank
    <3> QED
        BY <2>1, <3>2, <3>5
  <2>2. visit'.at # "done"
      OBVIOUS
  <2> QED
      BY <2>1, <2>2, Zenon DEF AllRead
<1> QED
    BY <1>4, <1>5, <1>6, <1>7, <1>8, SeenNext

LEMMA FindAvailableSeen ==
    ASSUME visit \in Visits, SeenInv, FindAvailable
    PROVE  SeenInv'
<1>1. PICK q \in Queries : visit.q = q
    BY DEF Visits
<1>2. AllRead /\ OneByOne(q) /\ KeptOn(q) /\ ReadSoFar(q) /\ Counted(q)
    BY <1>1, SeenOf
<1>3. Browses
    BY DEF FindAvailable
<1>4. /\ visit' \in Visits /\ visit.at = "asking" /\ q.list = "available" /\ Answered(q)
      /\ visit'.q = q /\ visit'.at = "shown" /\ visit'.page = visit.page
      /\ visit'.expected = visit.expected /\ visit'.got = visit.got
      /\ visit'.total = Cardinality(Listing(q))
      /\ visit'.left = visit.left /\ visit'.torn = visit.torn
    BY <1>1, FindAvailableStep
<1>5. visit.got = {} /\ Reading
    BY <1>2, <1>4 DEF OneByOne, Reading
<1>6. Read' = visit.page
    BY <1>4 DEF Read
<1>7. Clean' => \A h \in visit.expected : Rank(h, q) < Read' * Limit => h \in visit'.seen
    BY <1>2, <1>3, <1>4, <1>5, <1>6, AnsweredSeen DEF Clean
<1> QED
    BY <1>1, <1>2, <1>3, <1>4, <1>5, <1>6, <1>7, PageGoesOn

LEMMA FindAllItemsSeen ==
    ASSUME visit \in Visits, SeenInv, FindAllItems
    PROVE  SeenInv'
<1>1. PICK q \in Queries : visit.q = q
    BY DEF Visits
<1>2. AllRead /\ OneByOne(q) /\ KeptOn(q) /\ ReadSoFar(q) /\ Counted(q)
    BY <1>1, SeenOf
<1>3. Browses
    BY DEF FindAllItems
<1>4. /\ visit' \in Visits /\ visit.at = "asking" /\ q.list = "all" /\ "items" \notin visit.got
      /\ Answered(q)
      /\ visit'.q = q /\ visit'.page = visit.page /\ visit'.total = visit.total
      /\ visit'.expected = visit.expected
      /\ visit'.left = visit.left /\ visit'.torn = visit.torn
      /\ \/ visit.got = {} /\ visit'.at = "asking" /\ visit'.got = {"items"}
         \/ "count" \in visit.got /\ visit'.at = "shown" /\ visit'.got = {}
    BY <1>1, FindAllItemsStep
<1>5. Reading
    BY <1>4 DEF Reading
<1>6. Read' = visit.page
    BY <1>4 DEF Read
<1>7. Clean' => \A h \in visit.expected : Rank(h, q) < Read' * Limit => h \in visit'.seen
    BY <1>2, <1>3, <1>4, <1>6, AnsweredSeen DEF Clean
<1>8. "count" \in visit'.got \/ visit'.at = "shown" => (~visit'.torn => visit'.total = Cardinality(Listing(q)))
    BY <1>2, <1>4 DEF Counted
<1>9. visit'.got # {} => visit'.at = "asking"
    BY <1>4
<1>10. visit'.at \in {"asking", "shown"}
    BY <1>4
<1> QED
    BY <1>1, <1>2, <1>3, <1>4, <1>5, <1>6, <1>7, <1>8, <1>9, <1>10, PageGoesOn

LEMMA FindAllCountSeen ==
    ASSUME visit \in Visits, SeenInv, FindAllCount
    PROVE  SeenInv'
<1>1. PICK q \in Queries : visit.q = q
    BY DEF Visits
<1>2. AllRead /\ OneByOne(q) /\ KeptOn(q) /\ ReadSoFar(q) /\ Counted(q)
    BY <1>1, SeenOf
<1>3. Browses
    BY DEF FindAllCount
<1>4. /\ visit' \in Visits /\ visit.at = "asking" /\ q.list = "all" /\ "count" \notin visit.got
      /\ visit'.q = q /\ visit'.page = visit.page /\ visit'.total = Cardinality(Listing(q))
      /\ visit'.seen = visit.seen /\ visit'.expected = visit.expected
      /\ visit'.left = visit.left /\ visit'.torn = visit.torn /\ visit'.tied = visit.tied
      /\ \/ visit.got = {} /\ visit'.at = "asking" /\ visit'.got = {"count"}
         \/ "items" \in visit.got /\ visit'.at = "shown" /\ visit'.got = {}
    BY <1>1, FindAllCountStep
<1>5. Reading
    BY <1>4 DEF Reading
<1>6. Read' = Read /\ (visit'.at = "shown" => Read' = visit'.page)
    BY <1>4 DEF Read
<1>7. Clean' => \A h \in visit.expected : Rank(h, q) < Read' * Limit => h \in visit'.seen
    BY <1>2, <1>4, <1>5, <1>6 DEF ReadSoFar, Clean
<1>8. visit'.got # {} => visit'.at = "asking"
    BY <1>4
<1>9. visit'.at \in {"asking", "shown"}
    BY <1>4
<1> QED
    BY <1>1, <1>2, <1>3, <1>4, <1>5, <1>6, <1>7, <1>8, <1>9, PageGoesOn

LEMMA NextPageSeen ==
    ASSUME visit \in Visits, SeenInv, NextPage
    PROVE  SeenInv'
<1>1. PICK q \in Queries : visit.q = q
    BY DEF Visits
<1>2. AllRead /\ OneByOne(q) /\ KeptOn(q) /\ ReadSoFar(q) /\ Counted(q)
    BY <1>1, SeenOf
<1>3. Browses
    BY DEF NextPage
<1>4. /\ visit' \in Visits /\ visit.at = "shown" /\ visit'.at = "asking" /\ visit'.page = visit.page + 1
      /\ visit'.q = q /\ visit'.got = visit.got /\ visit'.total = visit.total
      /\ visit'.seen = visit.seen /\ visit'.expected = visit.expected
      /\ visit'.left = visit.left /\ visit'.torn = visit.torn /\ visit'.tied = visit.tied
    BY <1>1, NextPageStep
<1>5. visit.got = {} /\ Reading
    BY <1>2, <1>4 DEF OneByOne, Reading
<1>6. visit.page \in Nat
    BY <1>2, <1>5, ReadIs
<1>7. Read' = visit.page /\ Read = visit.page
    BY <1>4, <1>5, <1>6 DEF Read
<1>8. Clean' => \A h \in visit.expected : Rank(h, q) < Read' * Limit => h \in visit'.seen
    BY <1>2, <1>4, <1>5, <1>7 DEF ReadSoFar, Clean
<1> QED
    BY <1>1, <1>2, <1>3, <1>4, <1>5, <1>8, PageGoesOn

\* Where the visitor reads nothing, only the end of the reading is to be shown.
LEMMA LastPageSeen ==
    ASSUME visit \in Visits, SeenInv, LastPage
    PROVE  SeenInv'
<1>1. PICK q \in Queries : visit.q = q
    BY DEF Visits
<1>2. AllRead /\ OneByOne(q)
    BY <1>1, SeenOf
<1>3. /\ visit' \in Visits /\ visit.at = "shown" /\ visit'.at = "done" /\ visit'.page = visit.page
      /\ visit.page >= TotalPages(visit.total)
      /\ visit'.q = q /\ visit'.got = visit.got /\ visit'.total = visit.total
      /\ visit'.seen = visit.seen /\ visit'.expected = visit.expected
      /\ visit'.left = visit.left /\ visit'.torn = visit.torn /\ visit'.tied = visit.tied
    BY <1>1, LastPageStep
<1>4. visit'.got = {} /\ ~Reading'
    BY <1>2, <1>3 DEF OneByOne, Reading
<1>5. AllRead'
    BY <1>2, <1>3 DEF AllRead, Clean
<1>6. OneByOne(q)' /\ KeptOn(q)' /\ ReadSoFar(q)' /\ Counted(q)'
    BY <1>4, Zenon DEF OneByOne, KeptOn, ReadSoFar, Counted
<1> QED
    BY <1>3, <1>5, <1>6, SeenNext

LEMMA LeaveSeen ==
    ASSUME Leave
    PROVE  SeenInv'
<1>1. visit' \in Visits /\ visit'.at = "away" /\ visit'.got = {}
    BY LeaveStep
<1>2. PICK q : visit'.q = q
    OBVIOUS
<1>3. ~Reading' /\ AllRead'
    BY <1>1 DEF Reading, AllRead
<1>4. OneByOne(q)' /\ KeptOn(q)' /\ ReadSoFar(q)' /\ Counted(q)'
    BY <1>1, <1>3, Zenon DEF OneByOne, KeptOn, ReadSoFar, Counted
<1> QED
    BY <1>2, <1>3, <1>4, SeenNext

LEMMA InitSeen == Init => SeenInv
<1> SUFFICES ASSUME Init PROVE SeenInv
    OBVIOUS
<1>1. visit.at = "away" /\ visit.got = {}
    BY AwayIsVisit DEF Init
<1>2. ~Reading /\ AllRead
    BY <1>1 DEF Reading, AllRead
<1> QED
    BY <1>1, <1>2 DEF SeenInv, OneByOne, KeptOn, ReadSoFar, Counted

LEMMA StillSeen ==
    ASSUME SeenInv, UNCHANGED vars
    PROVE  SeenInv'
<1>1. PICK q : q = visit.q
    OBVIOUS
<1>2. visit' = visit /\ Browses
    BY DEF vars, Browses
<1>3. CASE q \notin Queries
  <2>1. AllRead'
      BY <1>2 DEF SeenInv, AllRead, Clean
  <2> QED
      BY <1>1, <1>2, <1>3, <2>1, Zenon DEF SeenInv
<1>4. CASE q \in Queries
  <2>1. AllRead /\ OneByOne(q) /\ KeptOn(q) /\ ReadSoFar(q) /\ Counted(q)
      BY <1>1, <1>4, SeenOf
  <2>2. Listing(q)' = Listing(q)
      BY <1>2, BrowsesKeeps
  <2>3. (Reading' <=> Reading) /\ (Clean' <=> Clean) /\ Read' = Read
      BY <1>2 DEF Reading, Clean, Read
  <2>4. AllRead' /\ OneByOne(q)' /\ KeptOn(q)' /\ Counted(q)'
      BY <1>2, <2>1, <2>2, <2>3 DEF AllRead, OneByOne, KeptOn, Counted
  <2>5. ReadSoFar(q)'
    <3>1. ASSUME Reading', Clean', NEW h \in visit'.expected, Rank(h, q)' < Read' * Limit
          PROVE  h \in visit'.seen
      <4>1. Rank(h, q)' = Rank(h, q)
          BY <1>2, RankKept
      <4> QED
          BY <1>2, <2>1, <2>3, <3>1, <4>1 DEF ReadSoFar
    <3> QED
        BY <3>1, Zenon DEF ReadSoFar
  <2> QED
      BY <1>1, <1>2, <2>4, <2>5, SeenNext
<1> QED
    BY <1>3, <1>4

LEMMA NextSeen == Typed /\ SeenInv /\ [Next]_vars => SeenInv'
<1> SUFFICES ASSUME Typed, SeenInv, [Next]_vars PROVE SeenInv'
    OBVIOUS
<1>1. visit \in Visits /\ edits \in 0 .. MaxEdits
    BY DEF Typed
<1>2. CASE Edit /\ Watched
    BY <1>1, <1>2, WatchedSeen
<1>3. CASE Look /\ Browses
    BY <1>1, <1>3, AskSeen, FindAvailableSeen, FindAllItemsSeen, FindAllCountSeen, NextPageSeen,
       LastPageSeen, LeaveSeen DEF Look
<1>4. CASE UNCHANGED vars
    BY <1>4, StillSeen
<1> QED
    BY <1>2, <1>3, <1>4, NextIs

\* A visitor who reads a list to its last page while staff and customers change the
\* catalogue has seen every hotel that was on it from the beginning, provided that
\* none left it and no two changed places: for any number of hotels and any size of
\* page (findAvailable's slice, findAll's skip and take, and their totals).
THEOREM PagesMissNothingHolds == Spec => []PagesMissNothing
<1>1. SeenInv => PagesMissNothing
    BY DEF SeenInv, AllRead, Clean, PagesMissNothing
<1> QED
    BY <1>1, AlwaysTyped, InitSeen, NextSeen, PTL DEF Spec

-----------------------------------------------------------------------------
(* The search, the check of a hotel and the booking.                       *)

\* A table of numbers over a finite set that is not empty has a least one.
LEMMA LeastOfTable ==
    ASSUME NEW R, IsFiniteSet(R), R # {}, NEW f \in [R -> Int]
    PROVE  \E r \in R : \A x \in R : f[r] <= f[x]
<1> DEFINE T == {f[r] : r \in R}
<1>1. f \in Surjection(R, T)
    BY DEF Surjection
<1>2. IsFiniteSet(T)
    BY <1>1, FS_Surjection
<1>3. T \in SUBSET Int /\ T # {}
    OBVIOUS
<1>4. PICK m \in T : \A y \in T : m <= y
    BY <1>2, <1>3, LeastOfFinite
<1> QED
    BY <1>4

\* The total of the cheapest room by the night is the least for the stay.
LEMMA QuoteIsLeast ==
    ASSUME TypedRooms, NEW s \in Stays, NEW R \in SUBSET Rooms, IsFiniteSet(R), R # {}
    PROVE  \E m \in Int : /\ Min({room[r].prix : r \in R}) * Nights(s) + CityTax * Nights(s) = m
                          /\ \A r \in R : MontantTotal(r, s) \in Int /\ m <= MontantTotal(r, s)
                          /\ \E r \in R : MontantTotal(r, s) = m
<1>1. PICK n : n = Nights(s)
    OBVIOUS
<1>2. n \in Nat \ {0} /\ CityTax = 5
  <2>1. s.from \in Int /\ s.to \in Int /\ s.from < s.to
      BY DaysAssumption DEF Stays
  <2> QED
      BY <1>1, <2>1 DEF Nights, CityTax
<1>3. \A r \in R : room[r].prix \in Int
    BY RoomIs
<1>4. PICK f \in [R -> Int] : \A r \in R : f[r] = room[r].prix
  <2>1. [r \in R |-> room[r].prix] \in [R -> Int]
      BY <1>3
  <2> QED
      BY <2>1
<1>5. PICK c \in R : \A x \in R : f[c] <= f[x]
    BY <1>4, LeastOfTable
<1>6. Min({room[r].prix : r \in R}) = f[c]
  <2> DEFINE S == {room[r].prix : r \in R}
  <2>1. S \in SUBSET Int /\ f[c] \in S /\ \A y \in S : f[c] <= y
      BY <1>3, <1>4, <1>5
  <2> HIDE DEF S
  <2>2. Min(S) = f[c]
      BY <2>1, MinIs
  <2> QED
      BY <2>2 DEF S
<1>7. \A r \in R : MontantTotal(r, s) = f[r] * n + 5 * n
    BY <1>1, <1>2, <1>4 DEF MontantTotal
<1>8. \A r \in R : MontantTotal(r, s) \in Int /\ f[c] * n + 5 * n <= MontantTotal(r, s)
  <2>1. ASSUME NEW r \in R
        PROVE  MontantTotal(r, s) \in Int /\ f[c] * n + 5 * n <= MontantTotal(r, s)
    <3>1. PICK u \in Int, v \in Int : u = f[c] /\ v = f[r]
        OBVIOUS
    <3>2. u <= v
        BY <1>5, <3>1
    <3>3. u * n + 5 * n \in Int /\ v * n + 5 * n \in Int /\ u * n + 5 * n <= v * n + 5 * n
        BY <1>2, <3>2, Z3
    <3> QED
        BY <1>7, <3>1, <3>3
  <2> QED
      BY <2>1
<1>9. PICK m : m = f[c] * n + 5 * n
    OBVIOUS
<1>10. m \in Int /\ (\A r \in R : m <= MontantTotal(r, s)) /\ MontantTotal(c, s) = m
    BY <1>5, <1>7, <1>8, <1>9
<1>11. Min({room[r].prix : r \in R}) * Nights(s) + CityTax * Nights(s) = m
    BY <1>1, <1>2, <1>6, <1>9
<1> QED
    BY <1>5, <1>8, <1>10, <1>11

\* A party of g that asks for one room asks for a room that holds g.
LEMMA OneRoomHoldsAll ==
    ASSUME NEW g \in Parties, NEW q, q.guests = g, q.rooms = 1
    PROVE  CapacityPerRoom(q) = g
<1>1. g \in Nat \ {0}
    BY PartiesAssumption
<1>2. (g + 1 - 1) \div 1 = g
    BY <1>1
<1>3. PICK c : c = (q.guests + q.rooms - 1) \div q.rooms
    OBVIOUS
<1>4. c = g
    BY <1>2, <1>3
<1>5. CapacityPerRoom(q) = IF c < 1 THEN 1 ELSE c
    BY <1>3 DEF CapacityPerRoom, AtLeastOne
<1> QED
    BY <1>1, <1>4, <1>5

LEMMA FiniteAnswers ==
    ASSUME NEW T \in SUBSET Rooms
    PROVE  IsFiniteSet(T) /\ Cardinality(T) \in Nat /\ (Cardinality(T) >= 1 <=> T # {})
<1>1. IsFiniteSet(T)
    BY RoomsAssumption, FS_Subset
<1>2. Cardinality(T) \in Nat /\ (Cardinality(T) = 0 <=> T = {})
    BY <1>1, FS_CardinalityType, FS_EmptySet
<1> QED
    BY <1>1, <1>2

LEMMA SearchAgrees == Typed => SearchAgreesWithBooking
<1> SUFFICES ASSUME Typed PROVE SearchAgreesWithBooking
    OBVIOUS
<1> TypedRooms
    BY DEF Typed
<1> SUFFICES ASSUME NEW s \in Stays, NEW g \in Parties, NEW q,
                    q = [list |-> "available", dated |-> TRUE, from |-> s.from, to |-> s.to,
                         guests |-> g, rooms |-> 1, min |-> {}, max |-> {}, sort |-> "id"]
             PROVE  /\ Available(q) = {h \in HotelIds : MatchingRooms(h, s, g) # {}}
                    /\ \A h \in HotelIds :
                          /\ {r \in MatchingRooms(h, s, g) : room[r].disponible}
                               = {r \in Rooms : Accepts(r, h, s, g)}
                          /\ \A r \in Rooms : Accepts(r, h, s, g) => Quote(h, s, g) <= MontantTotal(r, s)
                          /\ MatchingRooms(h, s, g) # {} => \E r \in MatchingRooms(h, s, g) :
                                /\ MontantTotal(r, s) = Quote(h, s, g)
                                /\ Accepts(r, h, s, g) \/ ~room[r].disponible
    BY Zenon DEF SearchAgreesWithBooking
<1>1. q.dated = TRUE /\ q.from = s.from /\ q.to = s.to /\ q.guests = g /\ q.rooms = 1 /\ q.min = {} /\ q.max = {}
    OBVIOUS
<1>2. CapacityPerRoom(q) = g
    BY <1>1, OneRoomHoldsAll
<1>3. ASSUME NEW r
      PROVE  /\ Taken(r, q, BlockingStatuses) <=> Taken(r, s, BlockingStatuses)
             /\ Taken(r, s, BookedStatuses) <=> Taken(r, s, BlockingStatuses)
             /\ InRange(r, q)
    BY <1>1 DEF Taken, BlockingStatuses, BookedStatuses, InRange
<1>4. ASSUME NEW h \in HotelIds
      PROVE  /\ hotel[h] # "active" => MatchingRooms(h, s, g) = {}
             /\ hotel[h] = "active" => ChambresDisponibles(h, q) = MatchingRooms(h, s, g)
             /\ MatchingRooms(h, s, g) \in SUBSET Rooms
             /\ \A r \in MatchingRooms(h, s, g) : r \in RoomsOf(h) /\ room[r].capacite >= g
    BY <1>1, <1>2, <1>3 DEF MatchingRooms, ChambresDisponibles, RoomsOf
<1>5. ASSUME NEW h \in HotelIds
      PROVE  h \in Available(q) <=> MatchingRooms(h, s, g) # {}
  <2>1. CASE hotel[h] # "active"
      BY <1>4, <2>1 DEF Available
  <2>2. CASE hotel[h] = "active"
    <3>1. Cardinality(ChambresDisponibles(h, q)) >= 1 <=> MatchingRooms(h, s, g) # {}
        BY <1>4, <2>2, FiniteAnswers
    <3>2. MatchingRooms(h, s, g) # {} =>
            \E r \in RoomsOf(h) : room[r].capacite >= CapacityPerRoom(q) /\ InRange(r, q)
        BY <1>2, <1>3, <1>4
    <3> QED
        BY <1>1, <2>2, <3>1, <3>2 DEF Available
  <2> QED
      BY <2>1, <2>2
<1>6. ASSUME NEW h \in HotelIds
      PROVE  {r \in MatchingRooms(h, s, g) : room[r].disponible} = {r \in Rooms : Accepts(r, h, s, g)}
  <2>1. ASSUME NEW r \in Rooms
        PROVE  r \in MatchingRooms(h, s, g) /\ room[r].disponible <=> Accepts(r, h, s, g)
      BY <1>3, RoomIs DEF MatchingRooms, Accepts, RoomsOf
  <2> QED
      BY <1>4, <2>1
<1>7. ASSUME NEW h \in HotelIds, MatchingRooms(h, s, g) # {}
      PROVE  /\ \A r \in Rooms : Accepts(r, h, s, g) => Quote(h, s, g) <= MontantTotal(r, s)
             /\ \E r \in MatchingRooms(h, s, g) :
                   /\ MontantTotal(r, s) = Quote(h, s, g)
                   /\ Accepts(r, h, s, g) \/ ~room[r].disponible
  <2>1. PICK R : R = MatchingRooms(h, s, g)
      OBVIOUS
  <2>2. R \in SUBSET Rooms /\ R # {} /\ IsFiniteSet(R)
      BY <1>4, <1>7, <2>1, FiniteAnswers
  <2>3. PICK m \in Int : /\ Min({room[r].prix : r \in R}) * Nights(s) + CityTax * Nights(s) = m
                         /\ \A r \in R : MontantTotal(r, s) \in Int /\ m <= MontantTotal(r, s)
                         /\ \E r \in R : MontantTotal(r, s) = m
      BY <2>2, QuoteIsLeast
  <2>4. Quote(h, s, g) = m
      BY <2>1, <2>3 DEF Quote
  <2>5. \A r \in Rooms : Accepts(r, h, s, g) => r \in R
      BY <1>6, <2>1
  <2>6. \A r \in R : room[r].disponible => Accepts(r, h, s, g)
      BY <1>6, <2>1
  <2> QED
      BY <2>1, <2>3, <2>4, <2>5, <2>6
<1>8. Available(q) = {h \in HotelIds : MatchingRooms(h, s, g) # {}}
  <2>1. Available(q) \subseteq HotelIds
      BY DEF Available
  <2> QED
      BY <1>5, <2>1
<1>9. ASSUME NEW h \in HotelIds
      PROVE  \A r \in Rooms : Accepts(r, h, s, g) => Quote(h, s, g) <= MontantTotal(r, s)
  <2>1. CASE MatchingRooms(h, s, g) = {}
      BY <1>6, <2>1
  <2>2. CASE MatchingRooms(h, s, g) # {}
      BY <1>7, <2>2
  <2> QED
      BY <2>1, <2>2
<1>10. ASSUME NEW h \in HotelIds
       PROVE  MatchingRooms(h, s, g) # {} => \E r \in MatchingRooms(h, s, g) :
                 /\ MontantTotal(r, s) = Quote(h, s, g)
                 /\ Accepts(r, h, s, g) \/ ~room[r].disponible
    BY <1>7, Zenon
<1>11. ASSUME NEW h \in HotelIds
       PROVE  /\ {r \in MatchingRooms(h, s, g) : room[r].disponible} = {r \in Rooms : Accepts(r, h, s, g)}
              /\ \A r \in Rooms : Accepts(r, h, s, g) => Quote(h, s, g) <= MontantTotal(r, s)
              /\ MatchingRooms(h, s, g) # {} => \E r \in MatchingRooms(h, s, g) :
                    /\ MontantTotal(r, s) = Quote(h, s, g)
                    /\ Accepts(r, h, s, g) \/ ~room[r].disponible
    BY <1>6, <1>9, <1>10, Zenon
<1> QED
    BY <1>8, <1>11, Zenon

\* Three queries of two services agree in every state and for every stay and party:
\* the search for one room lists a hotel exactly when its check offers a room, the
\* check offers exactly the rooms createBooking takes and those that staff closed,
\* no booking is charged less than the total it quotes, and one is charged just that
\* unless a cheapest room it offers is closed.
THEOREM SearchAgreesWithBookingHolds == Spec => []SearchAgreesWithBooking
<1> QED
    BY AlwaysTyped, SearchAgrees, PTL

\* A finite set has subsets of every size up to its own, each in some order.
LEMMA SomeOf ==
    ASSUME NEW S, IsFiniteSet(S), NEW n \in Nat, n <= Cardinality(S)
    PROVE  \E K \in SUBSET S : \E f \in [1 .. n -> K] :
              /\ \A r \in K : \E j \in 1 .. n : f[j] = r
              /\ \A i, j \in 1 .. n : f[i] = f[j] => i = j
              /\ Cardinality(K) = n
<1>1. PICK m \in Nat : m = Cardinality(S) /\ ExistsBijection(1 .. m, S)
    BY FS_CardinalityType
<1>2. PICK b \in [1 .. m -> S] : \A i, j \in 1 .. m : b[i] = b[j] => i = j
  <2>1. PICK b \in Bijection(1 .. m, S) : TRUE
      BY <1>1 DEF ExistsBijection
  <2> QED
      BY <2>1 DEF Bijection, Injection, IsInjective
<1> DEFINE K == {b[j] : j \in 1 .. n}
           f == [j \in 1 .. n |-> b[j]]
<1>3. 1 .. n \subseteq 1 .. m
    BY <1>1
<1>4. K \in SUBSET S /\ f \in [1 .. n -> K]
    BY <1>2, <1>3
<1>5. \A r \in K : \E j \in 1 .. n : f[j] = r
    OBVIOUS
<1>6. \A i, j \in 1 .. n : f[i] = f[j] => i = j
    BY <1>2, <1>3
<1>7. Cardinality(K) = n
  <2>1. f \in Bijection(1 .. n, K)
      BY <1>4, <1>5, <1>6 DEF Bijection, Injection, Surjection, IsInjective
  <2>2. IsFiniteSet(1 .. n) /\ Cardinality(1 .. n) = n
      BY FS_Interval
  <2> HIDE DEF K, f
  <2> QED
      BY <2>1, <2>2, FS_Bijection DEF ExistsBijection
<1> HIDE DEF K, f
<1> QED
    BY <1>4, <1>5, <1>6, <1>7

\* Every guest is given a bed in one of the rooms K, at most c to a room.
Beds(g, K, c) == \E bed \in [1 .. g -> K] : \A r \in K : Cardinality({i \in 1 .. g : bed[i] = r}) <= c

\* n rooms of c beds each hold g guests if n * c is at least g: they take the beds
\* one room after the other.
LEMMA BedsForAll ==
    ASSUME NEW g \in Nat, NEW n \in Nat, NEW c \in Nat \ {0}, c * n >= g, NEW K, NEW f \in [1 .. n -> K],
           \A r \in K : \E j \in 1 .. n : f[j] = r,
           \A i, j \in 1 .. n : f[i] = f[j] => i = j
    PROVE  Beds(g, K, c)
<1> DEFINE at(i) == ((i - 1) \div c) + 1
           bed == [i \in 1 .. g |-> f[at(i)]]
<1>1. ASSUME NEW i \in 1 .. g
      PROVE  at(i) \in 1 .. n /\ (at(i) - 1) * c < i /\ i <= at(i) * c
  <2>1. PICK d : d = (i - 1) \div c
      OBVIOUS
  <2>2. d \in Nat /\ d * c <= i - 1 /\ i - 1 < (d + 1) * c
      BY <2>1, Z3
  <2>3. d < n
      BY <2>2, Z3
  <2>4. at(i) = d + 1
      BY <2>1
  <2>5. (d + 1) * c \in Int /\ d * c \in Int
      BY <2>2
  <2> QED
      BY <2>2, <2>3, <2>4, <2>5
<1> HIDE DEF at
<1>2. bed \in [1 .. g -> K]
    BY <1>1
<1>3. ASSUME NEW r \in K
      PROVE  Cardinality({i \in 1 .. g : bed[i] = r}) <= c
  <2> DEFINE T == {i \in 1 .. g : bed[i] = r}
  <2>1. PICK j \in 1 .. n : f[j] = r
      OBVIOUS
  <2>2. PICK lo \in Int, hi \in Int : lo = (j - 1) * c + 1 /\ hi = j * c
      OBVIOUS
  <2>3. hi = lo + c - 1
      BY <2>2, Z3
  <2>4. \A i \in T : at(i) = j
      BY <1>1, <2>1
  <2>5. T \in SUBSET (lo .. hi)
      BY <1>1, <2>2, <2>4
  <2>6. IsFiniteSet(lo .. hi) /\ Cardinality(lo .. hi) = c
    <3>1. IsFiniteSet(lo .. hi) /\ Cardinality(lo .. hi) = IF lo > hi THEN 0 ELSE hi - lo + 1
        BY FS_Interval
    <3>2. ~ (lo > hi) /\ hi - lo + 1 = c
        BY <2>3
    <3> QED
        BY <3>1, <3>2
  <2> HIDE DEF T
  <2>7. Cardinality(T) <= c
      BY <2>5, <2>6, FS_Subset
  <2> QED
      BY <2>7 DEF T
<1> QED
    BY <1>2, <1>3 DEF Beds

LEMMA Fits == Typed => PartyFits
<1> SUFFICES ASSUME Typed PROVE PartyFits
    OBVIOUS
<1> TypedRooms
    BY DEF Typed
<1> SUFFICES ASSUME NEW s \in Stays, NEW g \in Parties, NEW n \in 1 .. Cardinality(Rooms), NEW q,
                    q = [list |-> "available", dated |-> TRUE, from |-> s.from, to |-> s.to,
                         guests |-> g, rooms |-> n, min |-> {}, max |-> {}, sort |-> "id"],
                    NEW h \in Available(q)
             PROVE  \E K \in SUBSET RoomsOf(h) :
                       /\ Cardinality(K) = n
                       /\ \E bed \in [1 .. g -> K] :
                             \A r \in K : Cardinality({i \in 1 .. g : bed[i] = r}) <= room[r].capacite
                       /\ \A r \in K : ~room[r].disponible \/ \E share \in 1 .. g :
                                          share * n >= g /\ Accepts(r, h, s, share)
    BY Zenon DEF PartyFits
<1>1. q.dated = TRUE /\ q.from = s.from /\ q.to = s.to /\ q.guests = g /\ q.rooms = n
    OBVIOUS
<1>2. g \in Nat \ {0} /\ n \in Nat \ {0}
  <2>1. Cardinality(Rooms) \in Nat
      BY FiniteAnswers
  <2> QED
      BY <2>1, PartiesAssumption
<1>3. PICK c : c = CapacityPerRoom(q)
    OBVIOUS
<1>4. c \in 1 .. g /\ c * n >= g
  <2>1. PICK d : d = (g + n - 1) \div n
      OBVIOUS
  <2>2. d \in Nat /\ d * n >= g /\ d <= g /\ d >= 1
      BY <1>2, <2>1, Z3
  <2>3. c = IF d < 1 THEN 1 ELSE d
      BY <1>1, <1>3, <2>1 DEF CapacityPerRoom, AtLeastOne
  <2>4. c = d
      BY <2>2, <2>3
  <2> QED
      BY <1>2, <2>2, <2>4
<1>5. PICK S : S = ChambresDisponibles(h, q)
    OBVIOUS
<1>6. hotel[h] = "active" /\ Cardinality(S) >= n
    BY <1>1, <1>5 DEF Available
<1>7. /\ S \in SUBSET RoomsOf(h) /\ S \in SUBSET Rooms
      /\ \A r \in S : room[r].hotel = h /\ room[r].capacite >= c /\ ~Taken(r, q, BlockingStatuses)
    BY <1>1, <1>3, <1>5 DEF ChambresDisponibles, RoomsOf
<1>8. IsFiniteSet(S) /\ Cardinality(S) \in Nat
    BY <1>7, FiniteAnswers
<1>9. PICK K \in SUBSET S : \E f \in [1 .. n -> K] :
        /\ \A r \in K : \E j \in 1 .. n : f[j] = r
        /\ \A i, j \in 1 .. n : f[i] = f[j] => i = j
        /\ Cardinality(K) = n
    BY <1>2, <1>6, <1>8, SomeOf
<1>beds. Beds(g, K, c)
  <2>1. PICK f \in [1 .. n -> K] : /\ \A r \in K : \E j \in 1 .. n : f[j] = r
                                  /\ \A i, j \in 1 .. n : f[i] = f[j] => i = j
      BY <1>9
  <2>2. g \in Nat /\ n \in Nat /\ c \in Nat \ {0}
      BY <1>2, <1>4
  <2> QED
      BY <1>4, <2>1, <2>2, BedsForAll
<1>10. PICK bed \in [1 .. g -> K] : \A r \in K : Cardinality({i \in 1 .. g : bed[i] = r}) <= c
    BY <1>beds DEF Beds
<1>11. ASSUME NEW r \in K
       PROVE  Cardinality({i \in 1 .. g : bed[i] = r}) <= room[r].capacite
  <2>1. PICK T : T = {i \in 1 .. g : bed[i] = r}
      OBVIOUS
  <2>2. T \in SUBSET (1 .. g)
      BY <2>1
  <2>3. Cardinality(T) \in Nat
    <3>1. IsFiniteSet(1 .. g)
        BY <1>2, FS_Interval
    <3>2. IsFiniteSet(T)
        BY <2>2, <3>1, FS_Subset
    <3> QED
        BY <3>2, FS_CardinalityType
  <2>4. Cardinality(T) <= c
      BY <1>10, <2>1, Zenon
  <2>5. room[r].capacite >= c /\ room[r].capacite \in Int
      BY <1>7, RoomIs
  <2>6. c \in Int
      BY <1>4
  <2>7. Cardinality(T) <= room[r].capacite
      BY <2>3, <2>4, <2>5, <2>6
  <2> QED
      BY <2>1, <2>7, Zenon
<1>12. ASSUME NEW r \in K
       PROVE  ~room[r].disponible \/ \E share \in 1 .. g : share * n >= g /\ Accepts(r, h, s, share)
  <2>1. ~Taken(r, s, BookedStatuses)
      BY <1>1, <1>7 DEF Taken, BlockingStatuses, BookedStatuses
  <2>2. room[r].disponible => Accepts(r, h, s, c)
      BY <1>6, <1>7, <2>1 DEF Accepts
  <2> QED
      BY <1>4, <2>2
<1>13. K \in SUBSET RoomsOf(h)
    BY <1>7, <1>9
<1> QED
    BY <1>9, <1>10, <1>11, <1>12, <1>13

\* A hotel that findAvailable lists for a party and a number of rooms has that many
\* rooms, with a bed for every guest, each free for the stay and taken by
\* createBooking for its share of the party unless staff have closed it: for any
\* rooms, bookings, parties and numbers of rooms.
THEOREM PartyFitsHolds == Spec => []PartyFits
<1> QED
    BY AlwaysTyped, Fits, PTL
=============================================================================
