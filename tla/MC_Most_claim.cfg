\* Fees collected for a committee installed by set_committee.
CONSTANTS
    g1 = g1  g2 = g2  g3 = g3  t1 = t1  r1 = r1  zero = zero
    NoPair = NoPair  MostAccount = MostAccount  OtherAccount = OtherAccount
    OracleFailed = OracleFailed
    Guardians = {g1, g2, g3}
    Byzantine = {}
    Tokens = {t1}
    Receivers = {r1, zero}
    ZeroAddress = zero
    Amounts = {0, 1}
    InitCommittee = {g1, g2}
    InitThreshold = 1
    InitGasPriceOracle <- OracleNone
    CommitteeChoices <- RewardCommitteeChoices
    Requests <- RewardRequests
    EthRequests <- RewardRequests
    OracleAnswersSet <- MCOracleAnswers
    MinGasPrice = 1  MaxGasPrice = 2  DefaultGasPrice = 1  RelayGasUsage = 1
    GasOracleMaxAge = 5  BlockTimestamp = 1  U64Max = 100  U128Max = 1000
    PocketMoney = 1
    FundAmounts = {}
    RecoverAmounts = {}
    MaxCommitteeId = 1
    MaxNonce = 1
    MaxPocketMoneyBalance = 1
SPECIFICATION Spec
INVARIANTS
    CollectedRewardsClaimable
