---------------------------- MODULE RoomCalendar ----------------------------
(***************************************************************************)
(* What the booking core promises about rooms, with no word of rows,       *)
(* payments or transactions: a booking waits, may occupy the nights it     *)
(* paid for if all of them are free, and leaves once, for good.            *)
(***************************************************************************)
CONSTANTS
    Guests,   \* bookings
    Nights    \* nights of rooms

VARIABLES
    phase,    \* waiting, staying or left
    nights    \* the nights a booking occupies

cvars == <<phase, nights>>

CalendarInit ==
    /\ phase = [g \in Guests |-> "waiting"]
    /\ nights = [g \in Guests |-> {}]

Occupy(g, N) ==
    /\ phase[g] = "waiting"
    /\ \A c \in Guests : nights[c] \cap N = {}
    /\ phase' = [phase EXCEPT ![g] = "staying"]
    /\ nights' = [nights EXCEPT ![g] = N]

Leave(g) ==
    /\ phase[g] # "left"
    /\ phase' = [phase EXCEPT ![g] = "left"]
    /\ nights' = [nights EXCEPT ![g] = {}]

CalendarNext ==
    \E g \in Guests :
        \/ \E N \in SUBSET Nights : Occupy(g, N)
        \/ Leave(g)

CalendarSpec == CalendarInit /\ [][CalendarNext]_cvars

\* No night of a room is occupied twice.
OneGuestPerNight == \A g, c \in Guests : g # c => nights[g] \cap nights[c] = {}
=============================================================================
