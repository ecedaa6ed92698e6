CONSTANTS
    Bookings = {b1, b2}
    Sessions = {s1, s2}
    Cards = {c1}
    Handlers = {h1, h2}
    Stays <- OneRoom
    StaffStatuts <- Nobody
    AsyncMethods = FALSE
    Horizon = 1
    MaxFaults = 0
    MaxReceipts = 2
    None = None
SYMMETRY Symmetry
SPECIFICATION Spec
INVARIANTS
    TypeOK
    Bindings
    NoDoubleBooking
    PaymentTraceable
    PaidIsNeverUnpaid
    SingleReceipt
PROPERTIES
    ClosedNeverReopens
    ImplementsRoomCalendar
CHECK_DEADLOCK FALSE
