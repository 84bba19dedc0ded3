----------------------------- MODULE MC_GasFee -----------------------------
(***************************************************************************)
(* get_base_fee checked against the fee rule of spec 4.4 over every       *)
(* oracle answer with a timestamp in 0..U64Max: the state is one call's   *)
(* input (whether an oracle is configured, and its answer).               *)
(***************************************************************************)
EXTENDS GasFee

CONSTANTS Prices, Timestamps

VARIABLES oracle_set, answer

Init == oracle_set \in BOOLEAN /\ answer \in OracleAnswers(Prices, Timestamps)

Next == oracle_set' \in BOOLEAN /\ answer' \in OracleAnswers(Prices, Timestamps)

Spec == Init /\ [][Next]_<<oracle_set, answer>>

\* Spec 4.4: the clamped oracle price, or the default price when no oracle
\* is configured, the call fails, or the answer is older than the maximum
\* age (now - timestamp > max age); the fee fails only when the product
\* overflows u128.
SpecGasPrice ==
    IF ~oracle_set \/ answer = OracleFailed
       \/ BlockTimestamp - answer.timestamp > GasOracleMaxAge
    THEN DefaultGasPrice
    ELSE IF answer.price < MinGasPrice THEN MinGasPrice
    ELSE IF answer.price > MaxGasPrice THEN MaxGasPrice
    ELSE answer.price

SpecBaseFee ==
    LET total == SpecGasPrice * RelayGasUsage * 120 IN
    IF total > U128Max THEN [error |-> TRUE, fee |-> 0]
    ELSE [error |-> FALSE, fee |-> total \div 100]

\* The fee get_base_fee quotes, or its failure, is the one spec 4.4
\* prescribes for every answer the oracle can give: an oracle timestamp
\* near u64::MAX must not make send_request fail.
BaseFeeMatchesSpec == BaseFee(oracle_set, answer) = SpecBaseFee
=============================================================================
