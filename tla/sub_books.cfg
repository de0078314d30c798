SPECIFICATION Spec
CONSTANTS
    None = None
    Bouncer = Bouncer
    friend = friend
    sponsor = sponsor
    t1 = t1
    t2 = t2
    Users <- Friend
    Tasks <- TwoTasks
    Referrer <- MCReferrer
    Price = 2
    Reward = 1
    Period = 3
    Offered = {"trial", "community"}
    BonusTime <- MCBonus
    AdminTime = 0
    RenewWindow = 1
    TrialWarning = {1, 2}
    PaidWarning = {2}
    ScanWindow = 2
    Cooldown = 2
    MaxTime = 3
    MaxMoney = 2
    MaxFailures = 0
SYMMETRY Symmetry
INVARIANTS
    BooksBalance
