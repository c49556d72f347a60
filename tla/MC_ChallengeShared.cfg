SPECIFICATION Spec
CONSTANTS
    Requests = {r1, r2}
    Views = {v1, v2}
    FundedTypes = {"SIM"}
    SplitPct = 50
    MinPayout = 1
    Size = 100
    TargetPct <- Targets
    MaxDrawdownPct = 10
    MaxDailyLossPct = 5
    MinTradingDays = 1
    MaxDurationDays = 1
    Results <- Wins
    MinBalance = 100
    MaxBalance = 108
    MaxGains = 8
INVARIANTS
    ProfitSharedOnce
CHECK_DEADLOCK FALSE
