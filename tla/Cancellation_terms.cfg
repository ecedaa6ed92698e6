CONSTANTS
    Totals <- SomeTotals
    CheckIns <- SomeCheckIns
    Horizon = 48
    Tick = 24
    Conditions <- SomeConditions
    Prices <- SomePrices
    StaffStatuts <- ReopenOrBlock
    None = None
SPECIFICATION Spec
INVARIANTS
    TypeOK
    TermsBalance
PROPERTIES
    RefundNeverGrows
    MoreConditionsNoLater
    PreviewKept
    LateIsCharged
