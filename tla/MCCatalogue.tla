---------------------------- MODULE MCCatalogue ----------------------------
(***************************************************************************)
(* Instances of Catalogue for TLC: three hotels, two of them in the seed;  *)
(* the third has more stars than the first and fewer than the second.      *)
(***************************************************************************)
EXTENDS Catalogue, TLC

MCHotelIds == 1 .. 3
MCSeeded == 1 .. 2
MCStars == <<3, 5, 4>>
MCKinds == {[capacite |-> 1, prix |-> 2, disponible |-> TRUE],
            [capacite |-> 2, prix |-> 3, disponible |-> TRUE],
            [capacite |-> 2, prix |-> 0, disponible |-> FALSE]}
MCDays == 0 .. 2
MCParties == 1 .. 3
Query(list, sort, min, max) ==
    [list |-> list, dated |-> list = "available", from |-> 0, to |-> 1,
     guests |-> 1, rooms |-> 1, min |-> min, max |-> max, sort |-> sort]
MCQueries == {Query("all", "note", {}, {}), Query("all", "price_desc", {1}, {}),
              Query("available", "id", {1}, {2}), Query("available", "price_asc", {}, {})}
Symmetry == Permutations(Rooms)
=============================================================================
