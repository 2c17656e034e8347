SPECIFICATION Spec
CONSTANTS
    deputy = deputy
    alice = alice
    gold = gold
    silver = silver
    macc = macc
    Denoms = {gold}
    Users = {deputy, alice}
    Maccs = {macc}
    Numbers = {"n1"}
    Timestamps = {1, 2}
    Chains = {"c1"}
    Amounts = {1, 2}
    Spans = {2}
    Steps = {1, 2}
    Minute = 1
    PastWindow = 1
    FutureWindow = 2
    ThreeDayMinutes = 2
    StorageDuration = 2
    DurationLimit = 1000000
    ParamSets <- GovernedAsset
    GenesisParams <- OneAsset
    GenesisSupplies <- OneAssetSupplies
    GenesisBalances <- OneAssetBalances
    GenesisBankSupply <- OneAssetBank
    GenesisPrevTimes = {0}
    GenesisPerms = {FALSE}
    GenesisTime = 0
    UpgradeTime = 0
    CreateUntil = 2
    MaxTime = 4
    MaxHeight = 4
    Abroad = abroad
INVARIANTS SuppliesMatchSwaps EscrowedCoinsCanLeave
PROPERTIES MintsWithinLimits ImplementsHTLC
CHECK_DEADLOCK FALSE
