SPECIFICATION FairSpec
CONSTANTS
    Requests = {r1}
    Views = {v1}
    FundedTypes = {"SIM"}
    SplitPct = 50
    MinPayout = 1
    Size = 100
    TargetPct <- Targets
    MaxDrawdownPct = 10
    MaxDailyLossPct = 5
    MinTradingDays = 1
    MaxDurationDays = 1
    Results <- OneCent
    MinBalance = 100
    MaxBalance = 108
    MaxGains = 8
PROPERTIES
    PassedAtTheTarget
CHECK_DEADLOCK FALSE
