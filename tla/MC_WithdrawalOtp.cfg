CONSTANTS
    u1 = u1
    tab1 = tab1
    tab2 = tab2
    Users = {u1}
    Routes = {"usdt_tron"}
    Requests = {tab1, tab2}
    Amounts = {2}
    MinAmount = 2
    MaxBalance = 2
    InitialBalance <- MCInitialBalance
    MaxChallenges = 2
    MaxSends = 2
    MaxAttempts = 2

SPECIFICATION FairSpec
INVARIANTS
    OneOfEach
    UsedExactlyOnce
PROPERTIES
    NeverRevived
    CreatedOnlyWhenVerified
    KeepsAnActiveWallet
    DueWalletsActivate
