CONSTANTS
    Bookings = {"b1", "b2"}
    AccountOf <- OneAccount
    HotelOf <- TwoHotels
    TakenFor <- NamesWithin
    CheckInLoops = {"c", "d"}
    ReviewLoops = {"r"}
    Ahead = 1
    Lookback = 1
    CheckIns = {0, 2}
    Horizon = 2
    MaxSent = 2
    MaxEvents = 2
SPECIFICATION Spec
INVARIANTS
    MailedOnce
PROPERTIES
    RemindedInTime
CHECK_DEADLOCK FALSE
