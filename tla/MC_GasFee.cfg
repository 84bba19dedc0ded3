\* Every oracle answer with a price in 0..4 and a timestamp in 0..U64Max.
CONSTANTS
    OracleFailed = OracleFailed
    MinGasPrice = 1  MaxGasPrice = 3  DefaultGasPrice = 2  RelayGasUsage = 1
    GasOracleMaxAge = 5  BlockTimestamp = 10  U64Max = 20  U128Max = 400
    Prices = {0, 1, 2, 3, 4}
    Timestamps = {0, 1, 2, 3, 4, 5, 6, 7, 8, 9, 10, 11, 12, 13, 14, 15, 16, 17, 18, 19, 20}
SPECIFICATION Spec
INVARIANT BaseFeeMatchesSpec
