# TLA+ models of the Most bridge (Aleph Zero side) and its relayer

This directory holds TLA+ models of the Most cross-chain bridge in `src/`,
the TLC configurations that check them, and `PROJECT.json`. That file lists
the components, the runs, the mutants, the mapping from each definition to
source lines, the findings and the hazards.

## 1. Inventory

### Components, their state and operations

| Component | Source | State | Operations |
|---|---|---|---|
| C1 Canonical request encoding | `shared::hash_request_data` (not in this repository); the relayer's copy is `relayer2/src/handlers/eth.rs:133-144` | none | `hash(committee_id, dest_token, amount, dest_receiver, nonce)` = Keccak-256 of the LE16 / 32-byte fields, concatenated |
| C2 Committee registry | `most/lib.rs` | `committees: (id, account)`, `committee_sizes: id -> u128`, `signature_thresholds: id -> u128`, `Data.committee_id` | `new`, `set_committee`, `check_committee`, `is_in_committee` |
| C3 Request ledger | `most/lib.rs` | `pending_requests: hash -> count`, `signatures: (hash, account)`, `processed_requests: hash` | `receive_request`, `request_status` |
| C4 Fee and reward engine | `most/lib.rs` | `collected_committee_rewards: id -> u128`, `paid_out_member_rewards: (account, id) -> u128`, `Data.{pocket_money, pocket_money_balance, *_gas_price, relay_gas_usage, gas_price_oracle}`, the contract's native balance | `get_base_fee`, the fee part of `send_request`, `payout_rewards`, `get_outstanding_member_rewards`, `fund_pocket_money`, the pocket-money part of `receive_request` |
| C5 Bridge state machine | `most/lib.rs` | `Data.{request_nonce, is_halted}`, `supported_pairs`, `ownable_data` | `send_request`, `receive_request`, `add_pair`, `remove_pair`, `set_halted`, `set_gas_price_oracle`, `recover_psp22`, `recover_azero`, `set_code`, Ownable2Step (`transfer_ownership`, `accept_ownership`) |
| PSP22 token | `token/lib.rs` | `minter_burner`, PSP22 balances/allowances (external `psp22` crate), `ownable_data` | `mint`, `burn` (only by `minter_burner`), `set_minter_burner`, PSP22 transfers, Ownable2Step |
| C6 Event watcher | `relayer/src/eth_contract_listener.rs` (a stub) | the block cursor (spec 4.6) | subscribe, batch events per block, await the ack, advance |
| C7 Event handler | `relayer2/src/handlers/eth.rs` | none; one task per block | `EthHandler::run` spawns `handle_events` per block; `handle_event` hashes an event and calls `receive_request`; the ack is sent only after every event succeeded |
| C8 Circuit breaker | `eth.rs` (receiver accepted, never read) | broadcast channel | none implemented (TODO) |
| C9 Supervisor / config | `relayer/src/config.rs` | `Config` read from the environment | `Config::load` |

### How they interact

Inbound transfers start as a `CrosschainTransferRequest` event on the
Ethereum-side bridge. That contract is not in this repository. Every
guardian runs a relayer. Its watcher hands each block's events to the
handler (C7). For each event, the handler recomputes the request hash (C1)
and calls `receive_request` on the Most contract with its guardian key.

The contract records the vote (C3). The caller must be a member of the
committee named in the payload (C2). When the count reaches the current
committee's threshold, the contract mints through the token contract, pays
pocket money (C4) and marks the hash processed.

Outbound transfers go the other way. `send_request` burns the tokens,
charges the base fee from the gas oracle (C4), credits the fee to the
current committee, increments the nonce and emits the event for the peer
chain. The owner halts the bridge, rotates committees and edits pairs. Anyone
can trigger a reward payout on behalf of a committee member.

### Hard behaviours

- **Contract (C1-C5).** Each message runs atomically, and a message that
  returns `Err` reverts its writes. The difficulty is in the *sequences* of
  messages from many actors:
  - guardians racing on one hash, with late and repeated votes;
  - Byzantine guardians sending payloads that do not match the hash;
  - rotations while requests are in flight;
  - payouts interleaved with sends and rotations;
  - a best-effort transfer whose failure is swallowed;
  - the minter role changing under a pending request.
- **Relayer (C6-C9).**
  - Blocks are handled in concurrently spawned tasks, and their votes arrive
    in any order.
  - An error in any event drops the ack, so the block is re-delivered and
    its votes are repeated.
  - `as_u128` panics on wide values.
  - The circuit breaker is never read.
  - A restart forgets the cursor and replays from `ETH_FROM_BLOCK`.
  - A relayer meets requests of committees it does not belong to (before
    a rotation added it, or after one removed it).

### What makes each component correct

- C3 (ledger):
  - a pending hash is never processed;
  - the signature count equals the number of distinct signers;
  - a request is minted at most once, and exactly when it is processed.
- C2/C3 (quorum):
  - only requests the peer bridge emitted are minted while Byzantine
    guardians stay below every threshold;
  - signers are members of the request's committee;
  - only the current committee votes (spec 3);
  - a request is minted with the quorum of its own committee.
- C4 (rewards):
  - members of a committee are never paid more than it collected;
  - the fees of every committee can be claimed;
  - the bridge's funds back the pocket-money balance plus all unpaid rewards;
  - the base fee matches spec 4.4 for every oracle answer.
- C6/C7 (relayer):
  - every request the peer bridge emitted is eventually processed, given
    fair relayers and a bridge that is eventually never halted;
  - a block is acknowledged only after all its votes are on chain.

## 2. Plan and status

Modules, in the order they were built. All of them exist and are checked.

1. `RequestHash` (C1): `LE` (recursive little-endian encoding) and
   `HashRequestData`, translated from the relayer's encoding in
   `handle_event` (eth.rs 133-144); `shared::hash_request_data` itself is
   outside the repository.
2. `GasFee` (C4): `get_base_fee` as pure operators, checked by `MC_GasFee`
   against the spec 4.4 rule over every oracle answer.
3. `Most` (C2-C5 and the token's minter role): one action per message.
   `MC_Most` gives one configuration per question.
4. `RequestLedger`: the abstract request ledger (a request goes unknown ->
   pending -> processed, is minted once, when processed, and only if the
   peer bridge emitted it). `Most` is shown to implement it through
   `request_status` (refinement, checked as a PROPERTY).
5. `Relayer` (C6, C7, and C9's `eth_from_block`): `Most` composed with the relayers of the honest
   guardians, their per-block tasks, a fault model, and liveness under
   weak fairness.
6. `Token`: the PSP22 token contract with its ownership, minter/burner role,
   balances and allowances.
7. `Bridge`: `Most` composed with the tokens' ledgers (burn in
   `send_request`, mint on finalisation, `recover_psp22`).
8. `Watcher`: the abstract watcher of spec 4.6/4.7 (a cursor that
   advances one fully relayed block at a time, relayed requests that stay
   relayed, restarts from `ETH_FROM_BLOCK`). `Relayer` is shown to
   implement it (refinement, checked as a PROPERTY).

Not pursued, and why:
- Most's own `Ownable2Step` messages. No state of `Most` other than the
  owner depends on them: `ensure_owner` only gates the admin messages,
  which the model lets the owner take. In a model, ownership would
  therefore be a product with all other state, multiplying every state
  space without a property relating it to the bridge. The same
  `ownable2step` wrappers are modelled and checked in `Token`.
- A result variable for `receive_request`. See the ordering hazard in
  section 5: the divergence there is in return values only.

## 3. Modules and how they correspond to the code

- **`RequestHash`.** `LE(x, n)` is `to_le_bytes`. A 32-byte address is one
  opaque element. `HashRequest(r)` is the recomputation in `receive_request`
  (lines 391-397). Keccak-256 is assumed collision free, so a digest *is*
  its preimage bytes. `Digest` tabulates it over the payloads, and
  `RequestOf(h)` in `Most` inverts it.
- **`GasFee`.**
  - `GasPrice` is lines 593-618: no oracle or a failed call gives the
    default price; a stale answer gives the default; otherwise the price is
    clamped.
  - `TimestampOverflows` is the unchecked `timestamp + GAS_ORACLE_MAX_AGE`
    (line 604). Contracts are built with overflow checks, so it traps.
  - `BaseFee` is lines 620-627 with `checked_mul`. It returns a record with
    an `error` flag.
- **`Most`.** The variables are the storage fields: the `Data` block and the
  keyed mappings. Three variables are additions:
  - `balance`, the contract's native balance;
  - `minter`, each token's `minter_burner`;
  - two ghosts: `minted` (mint calls per hash) and `recovered` (funds
    removed by `recover_azero`).

  Partial mappings (`committee_sizes`, `signature_thresholds`,
  `pending_requests`) are functions whose domain is the set of keys present.
  Mappings read with `unwrap_or_default` are total functions that default
  to 0.

  Each successful message is one action; a failing message reverts and is a
  stuttering step. Guards come from the early returns, in code order.
  - `ReceiveRequest` is the whole of `receive_request`. Its finalisation is
    `Finalize`:
    - the mint reverts the call unless the bridge is the minter;
    - the pocket money is paid when both the recorded balance and the real
      balance allow it;
    - the recorded balance is **not** decremented, exactly as in the code.
  - `ReceiveRequestNoop` and `ReceiveRequestFails` are the conditions under
    which the call returns Ok without writing, or returns Err. `Relayer`
    needs them because the handler reacts to the result.
  - `SetCommittee` adds `(id+1, member)` keys and keeps the old ones. In
    ink!, `Mapping::new()` under the same `ManualKey` erases nothing. It
    sets the threshold and, as in the code, not the size.
  - `SendRequest` credits the quoted fee to the current committee and keeps
    it in `balance`, since the surplus is refunded.
  - Inputs come from small constant sets with `\E`.
  - `GuardianVote`: an honest guardian votes for a request the peer bridge
    emitted (`EthRequests`), as `handle_event` does.
  - `ByzantineVote`: a Byzantine guardian sends any hash with any payload.
  - `ChainNext` is every message except honest votes; `OtherNext` is the
    part of it that does not touch token balances. `Relayer` and `Bridge`
    reuse them.
- **`RequestLedger`** (abstract specification). The state is a status per
  request hash and a mint count per hash. `Sign(h)` makes a hash pending;
  `Process(h)` makes a genuine hash processed and mints it once. `Most`
  instantiates it with `status <- request_status` (lines 792-805) and
  `mints <- minted`. `LedgerRefinement == Ledger!LedgerSpec` is checked as
  a temporal property: every step of `Most` is a `Sign`, a `Process` or a
  stutter of the ledger.
- **`Relayer`.** It extends `Most` and adds, per honest guardian running a
  relayer:
  - `cursor`, the watcher's count of acknowledged blocks;
  - `waiting`, the watcher awaits an ack;
  - `tasks`, the running `handle_events` tasks, each a record of its
    block, the position of its next event, and whether its ack is still
    awaited;
  - `faults`, the number of faults so far.

  The peer bridge's event stream is the constant `EthBlocks`, a sequence
  of blocks of events. The actions are:
  - `Watch` (`EthHandler::run`, eth.rs 75-82): emit the block after the
    cursor and spawn its task;
  - `HandleEvent` (`handle_event`, 109-169, awaited with `?` at line 100):
    an `as_u128` panic or an Err ends the task; Ok, with or without a
    write, moves to the next event;
  - `Ack` (103-106): after the last event the task sends the ack, and the
    watcher advances if it still awaits it;
  - `RpcFault` (155-165): the submission fails at the transport after the
    transaction was or was not executed, and the task sees Err;
  - `Redeliver` and `AckTimeout`: the watcher re-emits a block whose ack
    channel closed, or whose ack timed out while the task still runs;
  - `Restart`: the relayer process restarts. Its tasks die, and one of
    their in-flight transactions may still be included. The watcher starts
    over from `FromBlock`, because the cursor is not persisted. The
    restart itself is spec-modelled (spec 4.6). `FromBlock` stands for the
    `ETH_FROM_BLOCK` that `Config::load` reads in `src/relayer/src/config.rs`
    (31-33), the repository's only `Config`; relayer2's own config module
    is not in the repository.

  The watcher is spec-modelled (spec 4.6), because
  `eth_contract_listener.rs` is a stub.
- **`Watcher`.** The abstract promise of watcher and handler together,
  per relayer: `acked` (blocks acknowledged) and `relayed` (requests
  relayed). `Relay` grows `relayed` for any relayers at once, `Advance`
  moves a cursor over the next block once all its events are relayed,
  and `Restart` resets the cursor to `FromBlock`. `Relayer` instantiates
  it with `acked <- cursor` and `relayed <- Relayed(g)`. `Relayed(g)` is
  the set of requests for which g's `receive_request` takes an early Ok
  return (lines 374-389): processed, or already signed by g.
  `WatcherRefinement == Abstract!WatcherSpec`.
- **`Token`.** The variables are `PSP22Data` (balances, allowances,
  supply), `Ownable2StepData` (owner, pending owner) and `minter_burner`.
  A history variable `caller` records who sent the last message that wrote
  storage, so that action properties can say who may take a step.
  - The message wrappers of `token/lib.rs` are mapped: `SetMinterBurner`,
    `Transfer`, `TransferFrom`, `Approve`, `IncreaseAllowance`,
    `DecreaseAllowance`, `Mint`, `Burn`, `TransferOwnership` and
    `AcceptOwnership`, with the `ensure_*` checks.
  - The `Data*` operators they call are the `psp22` and `ownable2step`
    crates. Those crates are not in this repository, so the operators are
    spec-modelled from the PSP22 standard:
    - the crate's early returns (zero value, `from == to`,
      `owner == spender`) are write-free stutters;
    - `transfer_from` by the holder itself is a plain transfer;
    - `increase_allowance` saturates;
    - `mint` checks the supply addition.
- **`Bridge`.** It extends `Most` with the tokens' balances, the
  allowances users give the bridge, the supply, and three ghosts: `burned`
  (burnt by `send_request`), `deposits` (tokens users sent to the bridge
  and the owner did not recover) and `foreign_minted` (minted by another
  minter_burner).
  - `BridgeSendRequest` is `SendRequest` together with `BurnFrom`
    (`burn_from`, lines 847-862). Its `transfer_from` into the bridge and
    its `burn` of the bridge's own balance net to a debit of the sender and
    of its allowance.
  - `BridgeReceiveRequest` is `ReceiveRequest` together with `MintTo`
    (lines 838-845) on the vote that finalises the request.
  - `RecoverPsp22` (lines 757-772) transfers the bridge's own tokens.
  - `UserApprove` and `UserTransfer` are the users' token messages.
  - `ForeignMint` is `Token::mint` (token/lib.rs 230-242) by the account
    the token's owner made minter_burner in place of the bridge
    (`SetMinterBurner`), up to `MaxForeignMint`.
  - Every other message is `OtherNext` and leaves the tokens unchanged.

## 4. Runs

| Run | Expect | What it shows |
|---|---|---|
| `ledger` | pass | Checks `TypeOK`, `LedgerConsistent`, `SignersAreMembers` and `LedgerRefinement`. Three guardians vote, one of them Byzantine, on four payloads: two emitted by the peer bridge and two forged. Committee 0 is `{g2,g3}` with threshold 2. One rotation goes either to `{g2,g3}`/1 or to `{g1,g2,g3}`/2. One outbound request and payouts interleave. 18,504 states. |
| `bridge` | pass | Checks `BridgeTypeOK`, `RewardsWithinCollected` and `TokensBacked`. Two users hold one token. There are up to three sends with fees, the inbound request's mint, transfers and deposits to the bridge, `recover_psp22`, payouts for any member of any committee, pocket-money funding, native recovery one rotation, and a mint by another minter_burner while the bridge has lost the role. 266,048 states. |
| `token` | pass | Checks `TokenTypeOK`, `NoUnauthorisedDebit`, `SupplyOnlyByMinterBurner` and `OwnershipOnlyByHandover`. The token is the one of the unit tests: alice deploys it and is owner, charlie is `minter_burner`, and bob and charlie are spenders. Every message is taken with values 1 and 2 under a supply bound of 2. 87,480 states. |
| `relay` | pass | Checks `RelayerTypeOK` and `AckedBlocksSigned`, plus the liveness properties `RequestsEventuallyProcessed` and `BlocksEventuallyAcked` and the refinement `WatcherRefinement`. Two relayers relay a committee-0 and a committee-1 request across a rotation that re-installs them, under halts, minter changes, one fault (a lost RPC outcome, an ack timeout or a restart) and duplicate tasks. Contrast `relay_handover`. 9,792 states. |
| `relay_faults` | pass | Checks `AckedBlocksSigned` under two faults, including restarts that replay from `ETH_FROM_BLOCK`, and a rotation to threshold 1. One block holds an event wider than u128. 158,624 states. |
| `rotation_votes` | violation | `OnlyCurrentCommitteeVotes`: after rotating `{g1,g2}` to `{g3}`, g1 still votes on a committee-0 request. |
| `rotation_quorum` | violation | `QuorumOfOwnCommittee`: the same rotation lowers the threshold from 2 to 1, and one vote mints a committee-0 request. |
| `pocket_money` | violation | `PocketMoneyBacked`: fund 1, unhalt, one vote finalises; the bridge pays 1 and its balance drops to 0 while `pocket_money_balance` stays 1. |
| `rewards_claimable` | violation | `CollectedRewardsClaimable`: rotate, add a pair, unhalt, send; committee 1 has collected a fee and has no size. |
| `base_fee` | violation | `BaseFeeMatchesSpec`: for an oracle timestamp of 16 with a maximum age of 5 and `U64Max` = 20, the code traps where spec 4.4 quotes the clamped price. |
| `relay_wide_amount` | violation | `RequestsEventuallyProcessed`: the first block holds an event whose amount exceeds u128. Every relayer's task panics on it, the block is re-delivered forever, and the regular request in the second block is never relayed. |
| `relay_handover` | violation | `RequestsEventuallyProcessed`: the owner replaces g1 by g3 (threshold 2). The stream holds a committee-0 request, then a committee-1 request. g3's relayer gets NotInCommittee on the committee-0 request, even after that request is processed, because membership is checked first (lib.rs 369). So g3 never acknowledges block 1 and never votes on the committee-1 request, which stays unprocessed. |

### What the properties say

- **`LedgerRefinement`.** Under any interleaving of honest and Byzantine
  votes and a rotation, `receive_request` implements the abstract ledger:
  - statuses only move forward;
  - each request is minted exactly once, when it becomes processed;
  - only requests the peer bridge emitted are minted.
- **`AckedBlocksSigned`** (spec 4.7). A block below a relayer's cursor
  carries that guardian's signature, or has been processed. This holds
  whatever halts, lost RPC outcomes, timeouts and duplicate tasks happened.
- **`RequestsEventuallyProcessed` and `BlocksEventuallyAcked`** (spec 1,
  at-least-once relay). Once the bridge stays operational, every emitted
  request is processed and every relayer's cursor reaches the head.
  Operational (`<>[]`) means unhalted, minter of every token, and with
  the committee of every emitted request installed (the owner mirrors the
  peer bridge's rotations).
- **`WatcherRefinement`** (spec 4.6, 4.7). The relayers implement
  `Watcher`:
  - a cursor moves forward one block at a time, only over a block whose
    requests the relayer has all relayed;
  - it moves back only to `ETH_FROM_BLOCK`, on a restart;
  - nothing relayed comes undone.
  This holds whatever late acks, duplicate tasks, lost outcomes, restarts
  and a rotation do.
- **`TokensBacked`.** A token's supply is the deployed supply, plus the
  amounts of finalised inbound requests (taken from `Most`'s `minted`),
  plus what another minter_burner minted, minus what outbound requests
  burned. So the bridge's own mints and burns are exact even while the
  role moves away from it and back. The bridge's own balance is exactly
  the deposits not yet recovered. So `recover_psp22` can return accidental
  deposits but never bridged funds.
- **`NoUnauthorisedDebit`.** Tokens leave an account only by its own
  message, or by a `transfer_from` of a spender within an allowance that
  shrinks by the amount.
- **`OwnershipOnlyByHandover`.** Ownership passes only to the nominee of
  the owner of that moment, by the nominee's own call, and that call
  consumes the nomination.

Every property of a passing run has a mutant in `PROJECT.json`: a plausible
bug in a mapped definition that TLC then catches under the run's own
configuration. The mutants are:
- a vote stored uncounted;
- finalisation that keeps the pending entry;
- no replay check;
- a quorum only above the threshold;
- an unchecked native or token transfer;
- a payout that ignores the claim watermark;
- `burn_from` that burns the bridge's own balance instead of the sender's;
- a watcher that emits past the head;
- a watcher that takes the late ack of a timed-out emission;
- a handler that ignores an Err, or treats an Ok no-op as a failure;
- a non-saturating `increase_allowance`;
- `transfer_from` passing `from` as the spender;
- `mint` without `ensure_minter`;
- `accept_ownership` by anyone.

### Bounds and why they are enough

- **Guardians.** Three guardians give a Byzantine member, two honest ones, a
  committee that excludes the Byzantine one, and a fresh voter after
  finalisation. A fresh voter is what a missing replay check needs to mint
  twice.
- **Requests.** Two committee ids times two nonces give requests of both
  committees. For each committee there is a genuine request and a forged
  one.
- **Rotations.** One rotation (`MaxCommitteeId` = 1) is enough for every
  rotation hazard: old committee keys are only ever read through the
  payload's id.
- **Sends.** `MaxNonce` = 3 with fees of 1 makes one committee collect
  several fees, so that shares, repeated claims and a rotation in between
  happen.
- **Gas fee.** The run covers every price 0..4 (below, inside and above the
  clamp range) and every timestamp up to `U64Max`. This includes stale,
  fresh, future and overflowing timestamps.
- **Relayer.**
  - Two relayers make tasks of different guardians interleave.
  - Two blocks give a re-delivered block next to a later one; in `relay`
    and `relay_handover` they carry requests of committees 0 and 1, so the
    rotation falls between them.
  - `MaxFaults` of 1 (2 in `relay_faults`) lets a lost RPC outcome, an
    ack timeout and a restart happen, alone or two together.
  - `FromBlock` is 0, the default of `ETH_FROM_BLOCK`. So a restart
    replays the whole stream.
  - `U128Max` is scaled down to 1000, with one event above it.
- **Token.**
  - Three accounts give an owner, a nominee and a bystander, and a spender
    other than the holder.
  - `U128Max` = 2 with values 1 and 2 reaches the saturation of
    `increase_allowance` and the supply bound of `mint`.
- **Bridge.** Two users with one token each are enough: one sends while
  the other receives the inbound request, and either can deposit into the
  bridge.

### Fairness

Only `Relayer` has fairness. `RelayerFairness` gives each relayer weak
fairness on four steps: `Watch`, `HandleEvent` on some task, `Ack` on some
task, and `Redeliver`. The code justifies this:
- tokio eventually polls every task that can make progress;
- the watcher keeps re-emitting a block until it is acknowledged.

Nothing else gets fairness: the owner, users, Byzantine guardians, faults
and `AckTimeout`. The liveness properties are therefore stated under the
hypothesis `<>[]Operational` (eventually never halted, minter of every
token, and the peer's committees installed), rather than assuming the owner cooperates.

## 5. Not modelled, and why

- **`set_code`** replaces the program itself.
- **Queries.** Read-only queries change no state.
- **Events and error values.** These are left out. One documented
  divergence lies entirely in them. `receive_request` returns Ok for a
  processed or already-signed hash before it recomputes the hash (lines
  375-389). So a call whose hash does not match its payload succeeds there,
  where spec 4.5 and its scenario 3 expect `HashDoesNotMatchData`. Neither
  order changes storage.
- **Most's ownership.** The owner is assumed to be the caller of Most's
  admin messages. Most's `Ownable2Step` wrappers (lines 875-909) call the
  same `ownable2step` operations that `Token` models and checks.
- **Token events.** `Token::accept_ownership` emits
  `TransferOwnershipInitiated` where `Most` emits
  `TransferOwnershipAccepted` (token/lib.rs 285). Events are not modelled.
- **Circuit breaker (C8).** The handler receives it but never reads it
  (TODOs at eth.rs 63, 73 and 95-97). So a permanent error is never
  signalled, which `relay_wide_amount` and `relay_handover` show.
- **A threshold raise in flight** is not run on its own. A rotation that
  raises the threshold to 3, above the 2 members of the committee that
  emitted an in-flight request, leaves that request unprocessable: only
  its own committee may vote (line 369), and the count is compared with
  the new threshold (line 419). That root cause is what `rotation_quorum`
  checks.
- **`Config::load`** is environment parsing. Only `eth_from_block`
  matters to the model: it is where `Restart` puts the cursor.
- **Watcher transport.** The subscription and the ack channel are reduced
  to the cursor, the ack and the re-delivery of spec 4.6.
- **Ethereum-side contract.** It is not in this repository. It is
  represented only by the blocks of requests it emitted.
