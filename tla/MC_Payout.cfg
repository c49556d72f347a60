CONSTANTS
    w1 = w1
    w2 = w2
    u1 = u1
    a1 = a1
    a2 = a2
    s1 = s1
    s2 = s2
    r1 = r1
    NoOne = NoOne
    Withdrawals = {w1, w2}
    Users = {u1}
    Admins = {a1, a2}
    Submitters = {s1, s2}
    Reconcilers = {r1}
    MaxAttempts = 2
    Owner <- MC_Owner
    AmountUsd <- MC_AmountUsd
    DualApproval <- MC_DualApproval
    Charged = {w1, w2}
    InitialBalance <- MC_InitialBalance
SPECIFICATION Spec
INVARIANTS
    WalletBalances
    RefundsAreSafe
    BooksFollowTheProvider
    DualControl
PROPERTIES
    KeepsPromise
