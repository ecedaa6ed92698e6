CONSTANTS
    Accounts = {a1, a2}
    Owner = a1
    Willing = {a1}
    Guests = {a2}
    Statuses <- MCStatuses
    Promotions = {"hotel"}
    Statuts = {"OUVERTE", "FERMEE"}
    Reponses = {r1}
    Handlers = {h1, h2}
    MaxFaults = 1
    MaxEdits = 2
    None = None
SPECIFICATION Spec
SYMMETRY Symmetry
CONSTRAINT SecondEdit
INVARIANTS
    TypeOK
    ComplaintTold
    PromotionReaches
