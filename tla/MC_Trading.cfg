SPECIFICATION FairSpec
CONSTANTS
    Positions = {1}
    Symbols = {eur}
    Orders = {o1}
    Conns = {c1}
    Marks <- LossOnly
    Unpriced = Unpriced
    InitialBalance = 100
    Commission = 1
    MarginPerLot = 1
    MaxMarginPct = 50
    MaxOpenPositions = 2
    MaxDrawdownPct = 10
    MaxDailyLossPct = 5
    Netting = TRUE
    MaxLots = 2
INVARIANTS
    LotsConserved
    BalanceIsLedger
    OrderFillsOnce
PROPERTIES
    SuspendedOpensNothing
    ActiveUnderwaterIsLiquidated
