CONSTANTS
    Accounts = {a1, a2}
    Owner = a1
    Willing = {a1}
    Guests = {a2}
    Statuses <- MCAllStatuses
    Promotions = {"hotel"}
    Statuts = {"EN_COURS", "FERMEE"}
    Reponses = {r1}
    Handlers = {h1, h2}
    MaxFaults = 1
    MaxEdits = 1
    None = None
SPECIFICATION Spec
SYMMETRY Symmetry
INVARIANTS
    ConfirmedMailIsTrue
