SPECIFICATION FairSpec
CONSTANTS
    Requests = {r1, r2}
    Views = {v1, v2}
    FundedTypes = {"SIM", "INTERNAL"}
    SplitPct = 50
    MinPayout = 1
    Size = 100
    TargetPct <- Targets
    MaxDrawdownPct = 10
    MaxDailyLossPct = 5
    MinTradingDays = 1
    MaxDurationDays = 1
    Results <- WinsAndLosses
    MinBalance = 94
    MaxBalance = 108
    MaxGains = 8
INVARIANTS
    OnlyTheCurrentAccountTrades
    BalanceIsBooked
    PaidOrGivenBack
PROPERTIES
    PhasesOnlyAdvance
    EveryPhaseEnds
CHECK_DEADLOCK FALSE
