\* Fees, rewards and tokens: outbound requests pay the fee and burn the
\* token, the inbound request mints it, rewards are paid out around a
\* rotation, deposits into the bridge are recovered.
CONSTANTS
    g1 = g1  g2 = g2  g3 = g3  t1 = t1  r1 = r1  u1 = u1  zero = zero
    NoPair = NoPair  MostAccount = MostAccount  OtherAccount = OtherAccount
    OracleFailed = OracleFailed
    Guardians = {g1, g2, g3}
    Byzantine = {g3}
    Tokens = {t1}
    Receivers = {r1, zero}
    ZeroAddress = zero
    Amounts = {0, 1}
    InitCommittee = {g1, g2}
    InitThreshold = 1
    InitGasPriceOracle <- OracleNone
    CommitteeChoices <- RewardCommitteeChoices
    Requests <- RewardRequests
    EthRequests <- RewardRequests
    OracleAnswersSet <- BridgeOracleAnswers
    MinGasPrice = 1  MaxGasPrice = 2  DefaultGasPrice = 1  RelayGasUsage = 1
    GasOracleMaxAge = 5  BlockTimestamp = 1  U64Max = 100  U128Max = 1000
    PocketMoney = 1
    FundAmounts = {1}
    RecoverAmounts = {1}
    MaxCommitteeId = 1
    MaxNonce = 3
    MaxPocketMoneyBalance = 1
    Users = {u1, r1}
    TokenValues = {1}
    InitBalance = 1
    MaxForeignMint = 1
SPECIFICATION BridgeSpec
INVARIANTS
    BridgeTypeOK
    RewardsWithinCollected
    TokensBacked
