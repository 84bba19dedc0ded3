---------------------------- MODULE RequestHash ----------------------------
(***************************************************************************)
(* The canonical request encoding shared by both chains: the bytes that    *)
(* hash_request_data (crate `shared`, not in this repository) and the     *)
(* relayer's handle_event (relayer2/src/handlers/eth.rs) feed to          *)
(* Keccak-256:                                                             *)
(*   LE16(committee_id) ++ dest_token[32] ++ LE16(amount)                  *)
(*     ++ dest_receiver[32] ++ LE16(request_nonce)                         *)
(* A 32-byte address is one opaque element (a model value).  Keccak-256   *)
(* is assumed collision free, so a digest is identified with the bytes it *)
(* is computed from: two digests are equal iff their encodings are.       *)
(***************************************************************************)
EXTENDS Naturals, Sequences

\* Width in bytes of an encoded u128 (to_le_bytes of a u128).
U128Bytes == 16

\* n-byte little-endian encoding of the natural number x (to_le_bytes).
RECURSIVE LE(_, _)
LE(x, n) == IF n = 0 THEN <<>> ELSE <<x % 256>> \o LE(x \div 256, n - 1)

\* hash_request_data(committee_id, dest_token, amount, dest_receiver, nonce)
HashRequestData(committee_id, dest_token, amount, dest_receiver, request_nonce) ==
    LE(committee_id, U128Bytes) \o <<dest_token>> \o LE(amount, U128Bytes)
      \o <<dest_receiver>> \o LE(request_nonce, U128Bytes)

\* The digest of a request record with the fields of CrosschainTransferRequest.
HashRequest(r) ==
    HashRequestData(r.committee_id, r.dest_token, r.amount, r.dest_receiver,
                    r.request_nonce)
=============================================================================
