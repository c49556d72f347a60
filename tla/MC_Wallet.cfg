SPECIFICATION FairSpec
CONSTANTS
    TopUps = {t1}
    Purchases = {p1}
    Underpaid = {}
    Transfers = {x1}
    Amount <- TwoUnits
    Price = 1
    TransferAmount = 2
    Funded = 2
    MaxPending = 4
INVARIANTS
    CreditedOnce
    MoneyConserved
PROPERTIES
    FinishedIsCredited
CHECK_DEADLOCK FALSE
