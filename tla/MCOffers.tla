------------------------------ MODULE MCOffers ------------------------------
(***************************************************************************)
(* Instances of Offers for TLC: two requests at a time on two offers, in   *)
(* two hotels with three rooms; a whole offer, and updates that name one   *)
(* date, another hotel or other rooms, and switch the offer on or off.     *)
(***************************************************************************)
EXTENDS Offers, TLC

HotelOfRoom == [x \in Rooms |-> IF x = "x1" THEN "south" ELSE "north"]

Asks(hotel, from, to, active, rooms) ==
    [hotel |-> hotel, from |-> from, to |-> to, active |-> active, rooms |-> rooms]

SomeRequests ==
    {Asks("north", 2, 4, None, {"x2"}),    \* a whole offer
     Asks(None, 3, None, None, None),      \* some fields
     Asks(None, None, 3, FALSE, {"x3"}),
     Asks("south", None, None, TRUE, None)}

Symmetry == Permutations(Offers) \cup Permutations(Handlers)
=============================================================================
