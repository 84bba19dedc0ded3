\* Three relayers; the owner replaces g1 by g3 (threshold 2) between a
\* request of committee 0 and one of committee 1.
CONSTANTS
    g1 = g1  g2 = g2  g3 = g3  t1 = t1  r1 = r1  zero = zero
    NoPair = NoPair  MostAccount = MostAccount  OtherAccount = OtherAccount
    OracleFailed = OracleFailed
    Guardians = {g1, g2, g3}
    Byzantine = {}
    Relayers = {g1, g2, g3}
    Tokens = {t1}
    Receivers = {r1, zero}
    ZeroAddress = zero
    Amounts = {}
    InitCommittee = {g1, g2}
    InitThreshold = 2
    InitGasPriceOracle <- OracleSome
    CommitteeChoices <- HandoverChoices
    Requests <- RotationRequests
    EthRequests <- RotationRequests
    EthBlocks <- RotationBlocks
    OracleAnswersSet <- NoAnswers
    MinGasPrice = 1  MaxGasPrice = 2  DefaultGasPrice = 1  RelayGasUsage = 1
    GasOracleMaxAge = 5  BlockTimestamp = 1  U64Max = 100  U128Max = 1000
    PocketMoney = 1
    FundAmounts = {}
    RecoverAmounts = {}
    MaxCommitteeId = 1
    MaxNonce = 0
    MaxPocketMoneyBalance = 0
    FromBlock = 0
    MaxFaults = 0
SPECIFICATION RelayerSpec
PROPERTIES
    RequestsEventuallyProcessed
