SPECIFICATION HSpec
CONSTANTS
    deputy = deputy
    alice = alice
    gold = gold
    silver = silver
    macc = macc
    Denoms = {gold}
    Users = {deputy, alice}
    Maccs = {macc}
    Numbers = {"n1"}
    Timestamps = {1, 2, 3, 5}
    Chains = {"c1"}
    Amounts = {1}
    Spans = {1}
    Steps = {1, 2}
    Minute = 1
    PastWindow = 1
    FutureWindow = 2
    ThreeDayMinutes = 1
    StorageDuration = 3
    DurationLimit = 5
    ParamSets <- ThinWindowOnly
    GenesisParams <- ThinWindow
    GenesisSupplies <- NothingMinted
    GenesisBalances <- NoBalances
    GenesisBankSupply <- NoBank
    GenesisPrevTimes = {0}
    GenesisPerms = {FALSE}
    GenesisTime = 0
    UpgradeTime = 0
    CreateUntil = 6
    MaxTime = 8
    MaxHeight = 8
INVARIANTS MintRateBounded WindowsEnd
PROPERTIES OpenedOnce
CHECK_DEADLOCK FALSE
