SPECIFICATION ImportSpec
CONSTANTS
    deputy = deputy
    alice = alice
    gold = gold
    silver = silver
    macc = macc
    Denoms = {gold, silver}
    Users = {deputy, alice}
    Maccs = {macc}
    Numbers = {"n1"}
    Timestamps = {1, 3}
    Chains = {"c1"}
    Amounts = {1, 2}
    Spans = {1}
    Steps = {1, 2}
    Minute = 1
    PastWindow = 1
    FutureWindow = 2
    ThreeDayMinutes = 1
    StorageDuration = 2
    DurationLimit = 1000000
    ParamSets <- GovernedGold
    GenesisParams <- GoldAndSilver
    GenesisSupplies <- OneAssetSupplies
    GenesisBalances <- OneAssetBalances
    GenesisBankSupply <- OneAssetBank
    GenesisPrevTimes = {0}
    GenesisPerms = {FALSE}
    GenesisTime = 2
    UpgradeTime = 0
    CreateUntil = 3
    MaxTime = 5
    MaxHeight = 4
    OneDay = 3
    Downtimes = {1}
    GenesisFiles <- FilesWithSupplies
INVARIANTS ExportAccepted IndexesMatchStatus SuppliesCoverSwaps EscrowHoldsSwaps UnsettledSwapsRefundable
PROPERTIES RestartKeepsStore SwapLifecycle
CHECK_DEADLOCK FALSE
