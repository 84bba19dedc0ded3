------------------------------- MODULE GasFee -------------------------------
(***************************************************************************)
(* Most::get_base_fee (most/lib.rs 592-628): the fee charged per           *)
(* send_request, from the gas price oracle's (price, timestamp) answer,    *)
(* the admin-configured clamp and default, and the relay gas usage.       *)
(***************************************************************************)
EXTENDS Naturals

CONSTANTS
    MinGasPrice, MaxGasPrice, DefaultGasPrice,  \* Data.{min,max,default}_gas_price
    RelayGasUsage,                              \* Data.relay_gas_usage
    GasOracleMaxAge,                            \* GAS_ORACLE_MAX_AGE (ms)
    BlockTimestamp,                             \* env().block_timestamp()
    U64Max, U128Max,                            \* largest u64 / u128 of the model
    OracleFailed                                \* try_invoke returned an error

\* BASE_FEE_BUFFER_PERCENTAGE
BaseFeeBufferPercentage == 20

\* The answers try_invoke can give: a failure, or get_price's pair.
OracleAnswers(Prices, Timestamps) ==
    {OracleFailed} \cup [price : Prices, timestamp : Timestamps]

\* `timestamp + GAS_ORACLE_MAX_AGE` (line 604) is an unchecked u64 `+`;
\* contracts are built with overflow checks, so it traps and the call
\* reverts when the oracle's timestamp is within GAS_ORACLE_MAX_AGE of u64::MAX.
TimestampOverflows(oracle_set, answer) ==
    /\ oracle_set
    /\ answer # OracleFailed
    /\ answer.timestamp + GasOracleMaxAge > U64Max

\* The gas price chosen by get_base_fee (lines 593-618) when it does not trap.
GasPrice(oracle_set, answer) ==
    IF ~oracle_set \/ answer = OracleFailed THEN DefaultGasPrice
    ELSE IF answer.timestamp + GasOracleMaxAge < BlockTimestamp THEN DefaultGasPrice
    ELSE IF answer.price < MinGasPrice THEN MinGasPrice
    ELSE IF answer.price > MaxGasPrice THEN MaxGasPrice
    ELSE answer.price

\* get_base_fee: gas_price * relay_gas_usage * 120 / 100 with checked_mul
\* (MostError::Arithmetic on u128 overflow).  [error |-> TRUE] means the
\* call fails, and with it the send_request that asked for the fee.
BaseFee(oracle_set, answer) ==
    LET p == GasPrice(oracle_set, answer)
        total == p * RelayGasUsage * (100 + BaseFeeBufferPercentage)
    IN  IF TimestampOverflows(oracle_set, answer)
           \/ p * RelayGasUsage > U128Max \/ total > U128Max
        THEN [error |-> TRUE, fee |-> 0]
        ELSE [error |-> FALSE, fee |-> total \div 100]
=============================================================================
