CONSTANTS
    w1 = w1
    u1 = u1
    a1 = a1
    s1 = s1
    r1 = r1
    h1 = h1
    h2 = h2
    p1 = p1
    NoOne = NoOne
    Withdrawals = {w1}
    Users = {u1}
    Admins = {a1}
    Submitters = {s1}
    Reconcilers = {r1}
    MaxAttempts = 1
    Owner <- MC_Owner
    AmountUsd <- MC_AmountUsd
    DualApproval = {}
    Charged = {w1}
    InitialBalance <- MC_InitialBalance
    Handlers = {h1}
    Replayers = {p1}
    Kinds = {"failed", "processing"}
    MaxAutoRetries = 2
    BatchSize = 1
SPECIFICATION FairInboxSpec
INVARIANTS
    ResolvedMeansApplied
PROPERTIES
    RefinesPayout
    TerminalNoticesAreReplayed
    ReferencedAttemptsSettle
