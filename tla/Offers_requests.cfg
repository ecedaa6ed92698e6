CONSTANTS
    Offers = {o1, o2}
    Rooms = {"x1", "x2", "x3"}
    HotelOf <- HotelOfRoom
    Requests <- SomeRequests
    Handlers = {a1, a2}
    None = None
SPECIFICATION Spec
SYMMETRY Symmetry
INVARIANTS
    OffersApart
    
PROPERTIES
    RoomsAsAsked
