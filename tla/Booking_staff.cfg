CONSTANTS
    Bookings = {b1, b2}
    Sessions = {s1}
    Cards = {c1}
    Handlers = {h1, h2}
    Stays <- OneRoom
    StaffStatuts <- ReopenOrBlock
    AsyncMethods = FALSE
    Horizon = 0
    MaxFaults = 0
    MaxReceipts = 0
    None = None
SYMMETRY Symmetry
SPECIFICATION Spec
INVARIANTS
    SnapshotHolds
CHECK_DEADLOCK FALSE
