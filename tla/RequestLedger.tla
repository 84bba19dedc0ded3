--------------------------- MODULE RequestLedger ---------------------------
(***************************************************************************)
(* What the Most bridge promises about inbound requests, without votes,   *)
(* committees or thresholds: the status request_status reports for a      *)
(* request hash moves from RequestHashNotKnown to Pending to Processed,   *)
(* never back; a request is minted exactly when it becomes Processed; and *)
(* only requests the peer bridge emitted are ever processed (spec 8,      *)
(* invariants 1 and 3, and spec 1).                                        *)
(***************************************************************************)
EXTENDS Naturals

CONSTANTS
    Hashes,    \* request hashes
    Genuine,   \* the hashes of requests the peer bridge emitted
    Unknown, Pending, Processed  \* the three RequestStatus values

VARIABLES
    status,    \* hash -> its RequestStatus
    mints      \* hash -> number of mint calls made for it

ledgerState == <<status, mints>>

LedgerInit ==
    /\ status = [h \in Hashes |-> Unknown]
    /\ mints = [h \in Hashes |-> 0]

\* A vote is recorded for a request that is not yet processed.
Sign(h) ==
    /\ status[h] # Processed
    /\ status' = [status EXCEPT ![h] = Pending]
    /\ UNCHANGED mints

\* A genuine request that is not yet processed is minted and processed.
Process(h) ==
    /\ h \in Genuine
    /\ status[h] # Processed
    /\ status' = [status EXCEPT ![h] = Processed]
    /\ mints' = [mints EXCEPT ![h] = @ + 1]

LedgerNext == \E h \in Hashes : Sign(h) \/ Process(h)

LedgerSpec == LedgerInit /\ [][LedgerNext]_ledgerState
=============================================================================
