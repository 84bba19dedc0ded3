\* Inbound requests: guardian votes, quorum, replay protection and
\* committee rotation, interleaved with one outbound request and payouts.
CONSTANTS
    g1 = g1  g2 = g2  g3 = g3  t1 = t1  r1 = r1  zero = zero
    NoPair = NoPair  MostAccount = MostAccount  OtherAccount = OtherAccount
    OracleFailed = OracleFailed
    Guardians = {g1, g2, g3}
    Byzantine = {g1}
    Tokens = {t1}
    Receivers = {r1, zero}
    ZeroAddress = zero
    Amounts = {1}
    InitCommittee = {g2, g3}
    InitThreshold = 2
    InitGasPriceOracle <- OracleNone
    CommitteeChoices <- LedgerCommitteeChoices
    Requests <- LedgerRequests
    EthRequests <- LedgerEthRequests
    OracleAnswersSet <- MCOracleAnswers
    MinGasPrice = 1  MaxGasPrice = 2  DefaultGasPrice = 1  RelayGasUsage = 1
    GasOracleMaxAge = 5  BlockTimestamp = 1  U64Max = 100  U128Max = 1000
    PocketMoney = 1
    FundAmounts = {1}
    RecoverAmounts = {}
    MaxCommitteeId = 1
    MaxNonce = 1
    MaxPocketMoneyBalance = 1
SPECIFICATION Spec
INVARIANTS
    TypeOK
    LedgerConsistent
    SignersAreMembers
PROPERTIES
    LedgerRefinement
