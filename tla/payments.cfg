SPECIFICATION MCSpec
CONSTANTS
    a1 = a1
    a2 = a2
    p1 = p1
    p2 = p2
    Procs = {p1, p2}
    account <- accountOf
    Typed <- amounts
    Openings <- openings
    ether = 4
    MaxCommands = 4
    ZeroAddress = ZeroAddress
    Accounts = {a1, a2}
    Deposits = {0, 2}
    Durations = {0, 3}
    Amounts = {1, 3}
    MIN_DURATION = 1
    SETTLEMENT_WINDOW = 1
    MAX_UINT64 = 4
    MaxChannels = 2
    MaxVouchers = 2
    MaxTime = 3
INVARIANTS
    PaidAsSigned
    DepositSplit
    EarnedStaysClaimable
    ReportedIsDone
CHECK_DEADLOCK FALSE
