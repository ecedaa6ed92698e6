CONSTANTS
    HotelIds <- MCHotelIds
    Seeded <- MCSeeded
    Rooms = {r1, r2}
    Bookings = {b1}
    Kinds <- MCKinds
    Stars <- MCStars
    Days <- MCDays
    Parties <- MCParties
    Queries <- MCQueries
    Limit = 1
    MaxEdits = 3
SPECIFICATION Spec
SYMMETRY Symmetry
INVARIANTS
    TypeOK
    SearchAgreesWithBooking
    PartyFits
    PagesMissNothing
