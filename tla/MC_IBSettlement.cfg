CONSTANTS
    ana = ana
    bea = bea
    cyd = cyd
    NoOne = NoOne
    Staff <- MC_Staff
    Submitters <- MC_Submitters
    Reviewers <- MC_Reviewers
    Executors <- MC_Executors
    Recoverers <- MC_Recoverers
    Reqs = {1, 2, 3}
    Amounts = {1}
    References <- MC_References
    Manual <- MC_Manual
    Obligations = {1}
    ManualRequests <- MC_ManualRequests
    Adjustments = {1, 2}
    Calculated <- MC_Calculated
    BatchSize = 2
SPECIFICATION Spec
CHECK_DEADLOCK FALSE
INVARIANTS MovesMoneyOnce SegregationOfDuties RowsMatchTheirRequests ReversalsWithinCommission
PROPERTIES EndedForGood KeepsCommissionPromise PaidGetsCredited
