------------------------------ MODULE MC_Most ------------------------------
(* Model-checking instances of Most.                                       *)
EXTENDS Most

CONSTANTS g1, g2, g3, t1, r1, zero

\* Constructor argument gas_price_oracle: None or Some(oracle).
OracleNone == FALSE
OracleSome == TRUE

\* Inbound payloads: committee 0 or 1, nonce 0 or 1.
LedgerRequests ==
    [committee_id : {0, 1}, dest_token : {t1}, amount : {1},
     dest_receiver : {r1}, request_nonce : {0, 1}]

\* The peer bridge emitted nonce 0 under committee 0 and nonce 1 under
\* committee 1; the other two payloads are forgeries.
LedgerEthRequests ==
    {r \in LedgerRequests : r.committee_id = r.request_nonce}

\* The owner rotates either to the two honest guardians with threshold 1,
\* or adds the Byzantine g1 with threshold 2: no committee ever lets the
\* single Byzantine guardian reach the threshold in force.
LedgerCommitteeChoices ==
    {[members |-> {g2, g3}, threshold |-> 1],
     [members |-> {g1, g2, g3}, threshold |-> 2]}

\* One inbound request, emitted by the peer bridge under committee 0.
RewardRequests ==
    [committee_id : {0}, dest_token : {t1}, amount : {1},
     dest_receiver : {r1}, request_nonce : {0}]

\* A rotation to a committee that keeps one member of committee 0.
RewardCommitteeChoices == {[members |-> {g2, g3}, threshold |-> 1]}

\* A rotation that removes both members of committee 0 and lowers the
\* threshold from 2 to 1.
RotationChoices == {[members |-> {g3}, threshold |-> 1]}

\* The oracle fails, or answers a fresh price below, inside or above the
\* [MinGasPrice, MaxGasPrice] range.
MCOracleAnswers == OracleAnswers({0, 1, 3}, {0})
=============================================================================
