---------------------------- MODULE MCReminders ----------------------------
(***************************************************************************)
(* An instance of Reminders for TLC: one account with a booking of "North" *)
(* and one of "Flat North", whose stays may begin the same day.            *)
(***************************************************************************)
EXTENDS Reminders

OneAccount == [b \in Bookings |-> "a"]
TwoHotels == [b \in Bookings |-> IF b = "b1" THEN "North" ELSE "Flat North"]
\* "at North is on" is part of "at Flat North is on" for no reader but the query.
NamesWithin == [h \in {"North", "Flat North"} |->
    IF h = "North" THEN {"North", "Flat North"} ELSE {"Flat North"}]
=============================================================================
