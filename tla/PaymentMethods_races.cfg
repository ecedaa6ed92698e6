CONSTANTS
    Cards = {c1, c2}
    Customers = {k1, k2}
    Handlers = {h1, h2}
    MaxFaults = 1
    None = None
SPECIFICATION Spec
SYMMETRY Symmetry
INVARIANTS
    OneDefault
    StripeInStep
    SessionsOfCustomer
    SavedIsAttached
PROPERTIES
    DefaultStays
