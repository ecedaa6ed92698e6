-------------------------------- MODULE Stay --------------------------------
(***************************************************************************)
(* A stay: a room and the half-open interval of days [from, to) for which  *)
(* it is asked.  Days are numbered; the code stores midnights in UTC.      *)
(***************************************************************************)
EXTENDS Integers

\* The overlap test of every query of the code: same chambreId,
\* dateArrivee < checkOut and dateDepart > checkIn.
Clash(s, t) ==
    /\ s.room = t.room
    /\ s.from < t.to
    /\ s.to > t.from

\* The nights of a room that a stay takes: the night of its last day is free.
RoomNights(s) == {s.room} \X (s.from .. (s.to - 1))

IsStay(s) == s.from \in Int /\ s.to \in Int /\ s.from < s.to
=============================================================================
