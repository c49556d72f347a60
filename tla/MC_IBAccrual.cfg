CONSTANTS
    a = a
    b = b
    c = c
    Events = {1, 2}
    IBs = {a, b, c}
    NoIB = NoIB
    ReferredBy <- MC_ReferredBy
    Quantities = {1}
    GlobalRate <- MC_GlobalRate
    RateChanges <- MC_RateChanges
    Cent = 4
    MaxClock = 5
    MaxFrozen = 1
    Lookback = 2
    BatchSize = 1
SPECIFICATION Spec
CHECK_DEADLOCK FALSE
INVARIANTS AmountAtEventRate NetworkSharesAddUp NoCycles
PROPERTIES NoRetroactiveShare EveryEventProcessed
