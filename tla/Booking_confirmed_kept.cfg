CONSTANTS
    Bookings = {b1, b2}
    Sessions = {s1}
    Cards = {c1}
    Handlers = {h1, h2}
    Stays <- OneStay
    StaffStatuts <- Nobody
    AsyncMethods = FALSE
    Horizon = 0
    MaxFaults = 0
    MaxReceipts = 1
    None = None
SYMMETRY Symmetry
SPECIFICATION Spec
PROPERTIES
    ConfirmedIsKept
CHECK_DEADLOCK FALSE
