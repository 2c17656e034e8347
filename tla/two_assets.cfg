SPECIFICATION FixedSpec
CONSTANTS
    deputy = deputy
    alice = alice
    gold = gold
    silver = silver
    macc = macc
    Denoms = {gold, silver}
    Users = {deputy, alice}
    Maccs = {macc}
    Numbers = {"n1"}
    Timestamps = {1, 2}
    Chains = {"c1"}
    Amounts = {1, 2}
    Spans = {1, 5}
    Steps = {1}
    Minute = 1
    PastWindow = 1
    FutureWindow = 2
    ThreeDayMinutes = 1
    StorageDuration = 2
    DurationLimit = 4
    ParamSets <- TwoAssetsOnly
    GenesisParams <- TwoAssets
    GenesisSupplies <- EmptyStore
    GenesisBalances <- TwoAssetsBalances
    GenesisBankSupply <- TwoAssetsBank
    GenesisPrevTimes <- Absent
    GenesisPerms = {TRUE}
    GenesisTime = 0
    UpgradeTime = 0
    CreateUntil = 2
    MaxTime = 4
    MaxHeight = 4
INVARIANTS SuppliesMatchSwaps EscrowBacksOutgoing OutgoingSwapsNotDue
PROPERTIES PaymentsSettleSwaps
CHECK_DEADLOCK FALSE
