----------------------------- MODULE MCBooking -----------------------------
(***************************************************************************)
(* Instances of Booking for TLC.                                           *)
(***************************************************************************)
EXTENDS Booking, TLC

\* Two stays of one room that share a night.
OneRoom == {[room |-> "r1", from |-> 1, to |-> 3], [room |-> "r1", from |-> 2, to |-> 4]}

OneStay == {[room |-> "r1", from |-> 1, to |-> 3]}

Nobody == {}
\* What staff write in the instance with staff: a status that reopens a booking
\* and one that blocks its room.
ReopenOrBlock == {"EN_ATTENTE", "BLOQUEE"}

Symmetry == Permutations(Bookings) \cup Permutations(Handlers) \cup Permutations(Sessions)
=============================================================================
