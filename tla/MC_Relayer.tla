----------------------------- MODULE MC_Relayer -----------------------------
(* Model-checking instances of Relayer.                                    *)
EXTENDS Relayer

CONSTANTS g1, g2, g3, t1, r1, zero

OracleSome == TRUE

\* A CrosschainTransferRequest of committee `cid` with nonce `n`.
Ev(cid, amount, n) ==
    [committee_id |-> cid, dest_token |-> t1, amount |-> amount,
     dest_receiver |-> r1, request_nonce |-> n]

\* The first block carries an amount wider than u128 (U128Max is the
\* model's u128::MAX); the second a regular request.
WideBlocks == << <<Ev(0, U128Max + 1, 0)>>, <<Ev(0, 1, 1)>> >>
WideRequests == {Ev(0, 1, 1)}

\* A request of committee 0, then one of committee 1.
RotationBlocks == << <<Ev(0, 1, 0)>>, <<Ev(1, 1, 1)>> >>
RotationRequests == {Ev(0, 1, 0), Ev(1, 1, 1)}

\* The owner re-installs g1 and g2 as committee 1, threshold 2.
RenewChoices == {[members |-> {g1, g2}, threshold |-> 2]}

\* The owner replaces g1 by g3, keeping the threshold at 2.
HandoverChoices == {[members |-> {g2, g3}, threshold |-> 2]}

\* Two blocks; the second ends with an event wider than u128.
FaultBlocks == << <<Ev(0, 1, 0)>>, <<Ev(0, 1, 1), Ev(0, U128Max + 1, 2)>> >>
FaultRequests == {Ev(0, 1, 0), Ev(0, 1, 1)}

\* The owner rotates to the two relayers with threshold 1.
LowerChoices == {[members |-> {g1, g2}, threshold |-> 1]}

NoChoices == {}
NoAnswers == {}
=============================================================================
