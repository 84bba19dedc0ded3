------------------------------- MODULE MC_Bridge -------------------------------
(* Bridge with the constants of MC_Most and one more token holder.        *)
EXTENDS MC_Most, Bridge

CONSTANT u1

\* Without a gas price oracle get_base_fee ignores the answer.
BridgeOracleAnswers == {OracleFailed}
=============================================================================
