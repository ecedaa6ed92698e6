CONSTANTS
    Bookings = {b1, b2}
    Sessions = {s1}
    Cards = {c1}
    Handlers = {h1, h2}
    Stays <- OneStay
    StaffStatuts <- Nobody
    AsyncMethods = TRUE
    Horizon = 0
    MaxFaults = 1
    MaxReceipts = 0
    None = None
SPECIFICATION FairSpec
PROPERTIES
    SessionSettles
CHECK_DEADLOCK FALSE
