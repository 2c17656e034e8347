SPECIFICATION FixedSpec
CONSTANTS
    deputy = deputy
    alice = alice
    gold = gold
    silver = silver
    macc = macc
    Denoms = {gold}
    Users = {deputy, alice}
    Maccs = {macc}
    Numbers = {"n1"}
    Timestamps = {1, 3}
    Chains = {"c1"}
    Amounts = {1, 2}
    Spans = {1, 5}
    Steps = {1, 2}
    Minute = 1
    PastWindow = 1
    FutureWindow = 2
    ThreeDayMinutes = 1
    StorageDuration = 2
    DurationLimit = 4
    ParamSets <- OneAssetOnly
    GenesisParams <- OneAsset
    GenesisSupplies <- OneAssetSupplies
    GenesisBalances <- OneAssetBalances
    GenesisBankSupply <- OneAssetBank
    GenesisPrevTimes = {0}
    GenesisPerms = {FALSE}
    GenesisTime = 0
    UpgradeTime = 0
    CreateUntil = 4
    MaxTime = 6
    MaxHeight = 6
INVARIANTS OpenSwapsNotDue
CHECK_DEADLOCK FALSE
