CONSTANTS
    Passwords = {p1, p2}
    Tokens = {t1, t2}
    Legacy = {"account"}
    Handlers = {h1, h2}
    MaxFaults = 1
    None = None
SPECIFICATION Spec
SYMMETRY Symmetry
INVARIANTS
    TypeOK
    OneLiveToken
    ResetOnce
    WelcomeOnce
    GoogleHasNoPassword
    AcknowledgedSignsIn
