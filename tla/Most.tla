-------------------------------- MODULE Most --------------------------------
(***************************************************************************)
(* The Most bridge contract on Aleph Zero (src/azero/contracts/most/      *)
(* lib.rs) together with the part of the PSP22 token contract it calls    *)
(* (src/azero/contracts/token/lib.rs: the minter/burner role).            *)
(*                                                                         *)
(* Every ink! message runs to completion and a message returning Err      *)
(* reverts all its storage writes, so each successful message is one      *)
(* atomic action; a message that fails, or succeeds without writing       *)
(* storage (only emitting an event), is a stuttering step and is left     *)
(* out.  Admin messages are taken by the owner (Ownable2Step is modelled  *)
(* elsewhere); the caller of payout_rewards and fund_pocket_money is      *)
(* anyone.  Inbound requests come from the peer (Ethereum) bridge: honest *)
(* guardians relay exactly the requests in EthRequests, Byzantine ones    *)
(* call receive_request with any hash and any payload.                    *)
(***************************************************************************)
EXTENDS Integers, FiniteSets, FiniteSetsExt, Functions, TLC, RequestHash, GasFee

CONSTANTS
    Guardians,          \* accounts that can sit on a committee
    Byzantine,          \* guardians that vote on arbitrary data
    Tokens,             \* PSP22 token addresses (source and destination)
    Receivers,          \* destination receiver addresses
    ZeroAddress,        \* ETH_ZERO_ADDRESS, a member of Receivers
    Amounts,            \* transfer amounts (0 among them is rejected)
    NoPair,             \* supported_pairs.get(..) = None
    MostAccount,        \* the bridge's own account id
    OtherAccount,       \* any other minter/burner of a token
    InitCommittee,      \* constructor argument `committee`
    InitThreshold,      \* constructor argument `signature_threshold`
    InitGasPriceOracle, \* constructor argument `gas_price_oracle` is Some
    CommitteeChoices,   \* [members, threshold] records the owner installs
    Requests,           \* inbound request payloads a vote can carry
    EthRequests,        \* the payloads the peer bridge really emitted
    OracleAnswersSet,   \* answers the gas price oracle can give
    PocketMoney,        \* Data.pocket_money (constructor argument)
    FundAmounts,        \* transferred_value of fund_pocket_money
    RecoverAmounts,     \* amounts of recover_azero
    MaxCommitteeId,     \* bound: number of set_committee calls
    MaxNonce,           \* bound: number of send_request calls
    MaxPocketMoneyBalance \* bound on funding

ASSUME /\ Byzantine \subseteq Guardians
       /\ ZeroAddress \in Receivers
       /\ EthRequests \subseteq Requests
       /\ InitCommittee \subseteq Guardians

VARIABLES
    \* the `data: Lazy<Data>` block
    request_nonce, committee_id, pocket_money_balance, gas_price_oracle, is_halted,
    \* the keyed mappings
    committees,              \* set of <<committee_id, account>>
    committee_sizes,         \* partial function committee_id -> u128
    signature_thresholds,    \* partial function committee_id -> u128
    pending_requests,        \* partial function hash -> signature_count
    signatures,              \* set of <<hash, account>>
    processed_requests,      \* set of hashes
    supported_pairs,         \* token -> token or NoPair
    collected_committee_rewards, \* committee_id -> u128 (absent = 0)
    paid_out_member_rewards, \* <<account, committee_id>> -> u128 (absent = 0)
    \* the environment
    balance,                 \* native balance of the bridge account
    minter,                  \* token -> its minter_burner (token contract)
    minted,                  \* ghost: hash -> number of mint_to calls
    recovered                \* ghost: native funds taken by recover_azero

dataVars == <<request_nonce, committee_id, pocket_money_balance, gas_price_oracle, is_halted>>
committeeVars == <<committees, committee_sizes, signature_thresholds>>
ledgerVars == <<pending_requests, signatures, processed_requests, minted>>
rewardVars == <<collected_committee_rewards, paid_out_member_rewards>>
vars == <<dataVars, committeeVars, ledgerVars, rewardVars, supported_pairs,
          balance, minter, recovered>>

CommitteeIds == 0..MaxCommitteeId
\* hash_request_data of every payload a vote can carry, tabulated once.
Digest == [r \in Requests |-> HashRequest(r)]
Digests == Range(Digest)

\* The request a digest is the hash of (Keccak-256 is collision free).
RequestOf(h) == CHOOSE r \in Requests : Digest[r] = h

\* Members of committee `id`: the keys (id, account) of `committees`.
Members(id) == {g \in Guardians : <<id, g>> \in committees}

\* Accounts that signed `h`: the keys (h, account) of `signatures`.
Signers(h) == {g \in Guardians : <<h, g>> \in signatures}

\* check_committee (lines 823-836).  A committee is a set, so the
\* DuplicateCommitteeMember rejection is a failing call and left out.
CheckCommittee(members, threshold) ==
    threshold # 0 /\ Cardinality(members) >= threshold

ASSUME CheckCommittee(InitCommittee, InitThreshold)

-----------------------------------------------------------------------------
\* Most::new (lines 218-274) and the token contracts as deployed.
Init ==
    /\ request_nonce = 0
    /\ committee_id = 0
    /\ pocket_money_balance = 0
    /\ gas_price_oracle = InitGasPriceOracle
    /\ is_halted = TRUE
    /\ committees = {<<0, g>> : g \in InitCommittee}
    /\ committee_sizes = (0 :> Cardinality(InitCommittee))
    /\ signature_thresholds = (0 :> InitThreshold)
    /\ pending_requests = <<>>
    /\ signatures = {}
    /\ processed_requests = {}
    /\ supported_pairs = [t \in Tokens |-> NoPair]
    /\ collected_committee_rewards = [id \in CommitteeIds |-> 0]
    /\ paid_out_member_rewards = [k \in Guardians \X CommitteeIds |-> 0]
    /\ balance = 0
    /\ minter \in [Tokens -> {MostAccount, OtherAccount}]
    /\ minted = [h \in Digests |-> 0]
    /\ recovered = 0

-----------------------------------------------------------------------------
\* send_request (lines 283-353) with the fee of get_base_fee.  burn_from
\* (transfer_from to the bridge, then burn) succeeds only while the bridge
\* is the token's burner; transferred value above the fee is refunded, so
\* the bridge keeps exactly the base fee.
SendRequest(src, amount, dest_receiver, answer) ==
    LET quote == BaseFee(gas_price_oracle, answer) IN
    /\ ~is_halted
    /\ dest_receiver # ZeroAddress
    /\ amount # 0
    /\ supported_pairs[src] # NoPair
    /\ ~quote.error
    /\ minter[src] = MostAccount
    /\ request_nonce < MaxNonce
    /\ collected_committee_rewards' =
          [collected_committee_rewards EXCEPT ![committee_id] = @ + quote.fee]
    /\ request_nonce' = request_nonce + 1
    /\ balance' = balance + quote.fee
    /\ UNCHANGED <<committee_id, pocket_money_balance, gas_price_oracle, is_halted,
                   committeeVars, ledgerVars, paid_out_member_rewards,
                   supported_pairs, minter, recovered>>

\* The signature count a fresh vote on h reaches (unwrap_or_default + 1).
NextCount(h) ==
    (IF h \in DOMAIN pending_requests THEN pending_requests[h] ELSE 0) + 1

\* Mutant: quorum only once the count exceeds the threshold.
ReachesQuorumStrict(h) == NextCount(h) > signature_thresholds[committee_id]

\* The vote reaches the threshold of the CURRENT committee (lines 417-422).
ReachesQuorum(h) == NextCount(h) >= signature_thresholds[committee_id]

\* Mutant: finalisation that leaves the pending entry in place.
FinalizeKeepPending(h, r) ==
    /\ minter[r.dest_token] = MostAccount
    /\ minted' = [minted EXCEPT ![h] = @ + 1]
    /\ balance' = IF pocket_money_balance >= PocketMoney /\ balance >= PocketMoney
                  THEN balance - PocketMoney
                  ELSE balance
    /\ processed_requests' = processed_requests \cup {h}
    /\ UNCHANGED pending_requests

\* Finalisation (lines 423-448): mint (reverting the whole call if the
\* bridge is not the token's minter), best-effort pocket money, mark
\* processed, drop the pending entry.  The decremented pocket money
\* balance lives in the local `data` copy, which is never written back.
Finalize(h, r) ==
    /\ minter[r.dest_token] = MostAccount
    /\ minted' = [minted EXCEPT ![h] = @ + 1]
    /\ balance' = IF pocket_money_balance >= PocketMoney /\ balance >= PocketMoney
                  THEN balance - PocketMoney
                  ELSE balance
    /\ processed_requests' = processed_requests \cup {h}
    /\ pending_requests' = Restrict(pending_requests, DOMAIN pending_requests \ {h})

\* Mutant: the count is stored before it is incremented.
StoreVoteUncounted(h) ==
    /\ pending_requests' = (h :> NextCount(h) - 1) @@ pending_requests
    /\ UNCHANGED <<processed_requests, minted, balance>>

\* Below quorum the incremented count is stored (line 450).
StoreVote(h) ==
    /\ pending_requests' = (h :> NextCount(h)) @@ pending_requests
    /\ UNCHANGED <<processed_requests, minted, balance>>

\* Mutant: no replay check against processed_requests.
ReceiveRequestNoReplayCheck(g, h, r) ==
    /\ ~is_halted
    /\ <<r.committee_id, g>> \in committees
    /\ <<h, g>> \notin signatures
    /\ h = Digest[r]
    /\ signatures' = signatures \cup {<<h, g>>}
    /\ \/ ReachesQuorum(h) /\ Finalize(h, r)
       \/ ~ReachesQuorum(h) /\ StoreVote(h)
    /\ UNCHANGED <<dataVars, committeeVars, rewardVars, supported_pairs, minter,
                   recovered>>

\* Mutant: the payload is never checked against the hash.
ReceiveRequestNoHashCheck(g, h, r) ==
    /\ ~is_halted
    /\ <<r.committee_id, g>> \in committees
    /\ h \notin processed_requests
    /\ <<h, g>> \notin signatures
    /\ signatures' = signatures \cup {<<h, g>>}
    /\ \/ ReachesQuorum(h) /\ Finalize(h, r)
       \/ ~ReachesQuorum(h) /\ StoreVote(h)
    /\ UNCHANGED <<dataVars, committeeVars, rewardVars, supported_pairs, minter,
                   recovered>>

\* receive_request (lines 357-454) called by guardian g with request_hash h
\* and payload r.  A vote on a processed hash, a repeated vote, and a hash
\* that does not match the payload change no storage and are left out.
ReceiveRequest(g, h, r) ==
    /\ ~is_halted
    /\ <<r.committee_id, g>> \in committees
    /\ h \notin processed_requests
    /\ <<h, g>> \notin signatures
    /\ h = Digest[r]
    /\ signatures' = signatures \cup {<<h, g>>}
    /\ \/ ReachesQuorum(h) /\ Finalize(h, r)
       \/ ~ReachesQuorum(h) /\ StoreVote(h)
    /\ UNCHANGED <<dataVars, committeeVars, rewardVars, supported_pairs, minter,
                   recovered>>

\* receive_request returns Ok without writing storage (lines 366-389): the
\* request is already processed, or g already signed it.
ReceiveRequestNoop(g, h, r) ==
    /\ ~is_halted
    /\ <<r.committee_id, g>> \in committees
    /\ h \in processed_requests \/ <<h, g>> \in signatures

\* receive_request returns Err (lines 366-427), in the order of its checks:
\* halted, caller not in the payload's committee, hash mismatch, or a
\* quorum-reaching vote whose mint_to reverts.
ReceiveRequestFails(g, h, r) ==
    \/ is_halted
    \/ <<r.committee_id, g>> \notin committees
    \/ /\ h \notin processed_requests
       /\ <<h, g>> \notin signatures
       /\ \/ h # Digest[r]
          \/ ReachesQuorum(h) /\ minter[r.dest_token] # MostAccount

\* Mutant: the claim watermark is not subtracted.
OutstandingRewardsNoWatermark(id, member) ==
    collected_committee_rewards[id] \div committee_sizes[id]

\* get_outstanding_member_rewards (lines 569-588): the member's equal share
\* of the committee's fees minus what it was paid, saturating at zero.
OutstandingRewards(id, member) ==
    LET share == collected_committee_rewards[id] \div committee_sizes[id]
        paid == paid_out_member_rewards[<<member, id>>]
    IN  IF share > paid THEN share - paid ELSE 0

\* payout_rewards (lines 460-484), callable by anyone for any member.  It
\* fails unless the member is in the committee (NotInCommittee) and the
\* committee has a recorded size (NoSuchCommittee); a zero claim is a no-op;
\* a native transfer the bridge cannot cover reverts.
PayoutRewards(id, member) ==
    /\ ~is_halted
    /\ <<id, member>> \in committees
    /\ id \in DOMAIN committee_sizes
    /\ committee_sizes[id] # 0
    /\ OutstandingRewards(id, member) > 0
    /\ balance >= OutstandingRewards(id, member)
    /\ balance' = balance - OutstandingRewards(id, member)
    /\ paid_out_member_rewards' = [paid_out_member_rewards EXCEPT
          ![<<member, id>>] = @ + OutstandingRewards(id, member)]
    /\ UNCHANGED <<dataVars, committeeVars, ledgerVars, collected_committee_rewards,
                   supported_pairs, minter, recovered>>

\* fund_pocket_money (lines 488-497): payable, no halt check.
FundPocketMoney(funds) ==
    /\ pocket_money_balance + funds <= MaxPocketMoneyBalance
    /\ pocket_money_balance' = pocket_money_balance + funds
    /\ balance' = balance + funds
    /\ UNCHANGED <<request_nonce, committee_id, gas_price_oracle, is_halted,
                   committeeVars, ledgerVars, rewardVars, supported_pairs, minter,
                   recovered>>

-----------------------------------------------------------------------------
(* Owner operations.                                                       *)

\* set_committee (lines 701-727).  The old (id, account) keys stay in
\* storage: `Mapping::new()` under the same ManualKey erases nothing.
\* committee_sizes is not written for the new id.
SetCommittee(c) ==
    /\ is_halted
    /\ CheckCommittee(c.members, c.threshold)
    /\ committee_id < MaxCommitteeId
    /\ committees' = committees \cup {<<committee_id + 1, g>> : g \in c.members}
    /\ committee_id' = committee_id + 1
    /\ signature_thresholds' = (committee_id + 1 :> c.threshold) @@ signature_thresholds
    /\ UNCHANGED <<request_nonce, pocket_money_balance, gas_price_oracle, is_halted,
                   committee_sizes, ledgerVars, rewardVars, supported_pairs,
                   balance, minter, recovered>>

\* set_halted (lines 733-751); a call with the current state writes nothing.
SetHalted ==
    /\ is_halted' = ~is_halted
    /\ UNCHANGED <<request_nonce, committee_id, pocket_money_balance, gas_price_oracle,
                   committeeVars, ledgerVars, rewardVars, supported_pairs,
                   balance, minter, recovered>>

\* add_pair (lines 666-679): halted, and the bridge must be the minter of `from`.
AddPair(from, to) ==
    /\ is_halted
    /\ minter[from] = MostAccount
    /\ supported_pairs' = [supported_pairs EXCEPT ![from] = to]
    /\ UNCHANGED <<dataVars, committeeVars, ledgerVars, rewardVars, balance, minter,
                   recovered>>

\* remove_pair (lines 655-660).
RemovePair(from) ==
    /\ is_halted
    /\ supported_pairs[from] # NoPair
    /\ supported_pairs' = [supported_pairs EXCEPT ![from] = NoPair]
    /\ UNCHANGED <<dataVars, committeeVars, ledgerVars, rewardVars, balance, minter,
                   recovered>>

\* set_gas_price_oracle (lines 685-694): not gated on halt.
SetGasPriceOracle ==
    /\ ~gas_price_oracle
    /\ gas_price_oracle' = TRUE
    /\ UNCHANGED <<request_nonce, committee_id, pocket_money_balance, is_halted,
                   committeeVars, ledgerVars, rewardVars, supported_pairs,
                   balance, minter, recovered>>

\* Mutant: a transfer that does not check the balance.
RecoverAzeroUnchecked(amount) ==
    /\ amount > 0
    /\ balance' = balance - amount
    /\ recovered' = recovered + amount
    /\ UNCHANGED <<dataVars, committeeVars, ledgerVars, rewardVars, supported_pairs,
                   minter>>

\* recover_azero (lines 774-783): the owner takes native funds.
RecoverAzero(amount) ==
    /\ amount > 0
    /\ balance >= amount
    /\ balance' = balance - amount
    /\ recovered' = recovered + amount
    /\ UNCHANGED <<dataVars, committeeVars, ledgerVars, rewardVars, supported_pairs,
                   minter>>

\* Token::set_minter_burner (token/lib.rs 82-89), by the token's owner.
SetMinterBurner(t, account) ==
    /\ minter[t] # account
    /\ minter' = [minter EXCEPT ![t] = account]
    /\ UNCHANGED <<dataVars, committeeVars, ledgerVars, rewardVars, supported_pairs,
                   balance, recovered>>

-----------------------------------------------------------------------------
\* An honest guardian's relayer votes for a request the peer bridge emitted.
GuardianVote ==
    \E g \in Guardians \ Byzantine, r \in EthRequests :
        ReceiveRequest(g, Digest[r], r)

\* A Byzantine guardian votes with any hash and any payload.
ByzantineVote ==
    \E g \in Byzantine, h \in Digests, r \in Requests : ReceiveRequest(g, h, r)

\* The messages that neither burn nor mint tokens.
OtherNext ==
    \/ \E id \in CommitteeIds, m \in Guardians : PayoutRewards(id, m)
    \/ \E f \in FundAmounts : FundPocketMoney(f)
    \/ \E c \in CommitteeChoices : SetCommittee(c)
    \/ SetHalted
    \/ \E from, to \in Tokens : AddPair(from, to)
    \/ \E from \in Tokens : RemovePair(from)
    \/ SetGasPriceOracle
    \/ \E a \in RecoverAmounts : RecoverAzero(a)
    \/ \E t \in Tokens, a \in {MostAccount, OtherAccount} : SetMinterBurner(t, a)

\* Every message except the votes of honest guardians.
ChainNext ==
    \/ \E src \in Tokens, a \in Amounts, rcv \in Receivers, ans \in OracleAnswersSet :
          SendRequest(src, a, rcv, ans)
    \/ ByzantineVote
    \/ OtherNext

Next == GuardianVote \/ ChainNext

Spec == Init /\ [][Next]_vars

-----------------------------------------------------------------------------
(* Properties.                                                             *)

\* request_status (lines 793-805).
RequestStatus(h) ==
    IF h \in processed_requests THEN "Processed"
    ELSE IF h \in DOMAIN pending_requests THEN "Pending"
    ELSE "RequestHashNotKnown"

\* The abstract request ledger, seen through request_status and the
\* ghost count of mint calls.
Ledger == INSTANCE RequestLedger
            WITH Hashes <- Digests,
                 Genuine <- {Digest[r] : r \in EthRequests},
                 Unknown <- "RequestHashNotKnown",
                 Pending <- "Pending",
                 Processed <- "Processed",
                 status <- [h \in Digests |-> RequestStatus(h)],
                 mints <- minted

TypeOK ==
    /\ request_nonce \in 0..MaxNonce
    /\ committee_id \in CommitteeIds
    /\ pocket_money_balance \in Nat
    /\ gas_price_oracle \in BOOLEAN
    /\ is_halted \in BOOLEAN
    /\ committees \subseteq CommitteeIds \X Guardians
    /\ DOMAIN committee_sizes \subseteq CommitteeIds
    /\ DOMAIN signature_thresholds = 0..committee_id
    /\ DOMAIN pending_requests \subseteq Digests
    /\ \A h \in DOMAIN pending_requests : pending_requests[h] \in Nat \ {0}
    /\ signatures \subseteq Digests \X Guardians
    /\ processed_requests \subseteq Digests
    /\ supported_pairs \in [Tokens -> Tokens \cup {NoPair}]
    /\ collected_committee_rewards \in [CommitteeIds -> Nat]
    /\ paid_out_member_rewards \in [Guardians \X CommitteeIds -> Nat]
    /\ balance \in Nat
    /\ minter \in [Tokens -> {MostAccount, OtherAccount}]
    /\ minted \in [Digests -> Nat]
    /\ recovered \in Nat

\* The request ledger is consistent (spec invariants 1 and 2): a pending
\* hash is not processed, and its signature_count equals the number of
\* distinct accounts recorded in `signatures` for it.  This is what the
\* already-processed and already-signed early returns of receive_request,
\* and the removal of the pending entry on finalisation, maintain across
\* interleaved votes of many guardians.
LedgerConsistent ==
    \A h \in DOMAIN pending_requests :
        /\ h \notin processed_requests
        /\ pending_requests[h] = Cardinality(Signers(h))

\* Every recorded signature on a request is by a member of the committee
\* named in that request: receive_request checks membership against the
\* payload's committee_id and the hash check ties the payload to the hash.
SignersAreMembers ==
    \A <<h, g>> \in signatures : g \in Members(RequestOf(h).committee_id)

\* receive_request implements the abstract request ledger: across the
\* votes of honest and Byzantine guardians and committee rotations, a
\* request's status only moves forward (a processed request is never
\* reopened, a pending one never forgotten), each mint_to call is the
\* step that processes a request, and only genuine requests get there.
LedgerRefinement == Ledger!LedgerSpec

\* Reward accounting (spec invariant 5): the members of a committee are
\* never paid more, in total, than the fees collected for it.
RewardsWithinCollected ==
    \A id \in CommitteeIds :
        MapThenSumSet(LAMBDA m : paid_out_member_rewards[<<m, id>>], Guardians)
            <= collected_committee_rewards[id]

\* Spec 3 (Committee): only the currently active committee accepts new
\* votes.  receive_request checks membership against the committee_id in
\* the payload, and set_committee leaves the old members in storage.
OnlyCurrentCommitteeVotes ==
    [][\A s \in signatures' \ signatures : s[2] \in Members(committee_id)]_vars

\* A processed request collected at least the threshold of the committee
\* named in the request.  receive_request compares the count with the
\* threshold of the current committee (lines 417-422) instead.
QuorumOfOwnCommittee ==
    \A h \in processed_requests :
        Cardinality(Signers(h)) >= signature_thresholds[RequestOf(h).committee_id]

\* Spec 4.4 (pocket money funds and fee pool are disjoint): the bridge
\* always holds the pocket money balance plus every unpaid reward, except
\* what the owner took with recover_azero.  receive_request pays pocket
\* money but never writes the decremented balance back (line 435).
PocketMoneyBacked ==
    LET unpaid(id) ==
            collected_committee_rewards[id]
              - MapThenSumSet(LAMBDA m : paid_out_member_rewards[<<m, id>>], Guardians)
    IN  balance + recovered
          >= pocket_money_balance + MapThenSumSet(unpaid, CommitteeIds)

\* Spec 4.2/4.4: the fees collected for a committee can be claimed by its
\* members, which needs the committee's size.  set_committee records the
\* threshold of the new committee but not its size (lines 701-727).
CollectedRewardsClaimable ==
    \A id \in CommitteeIds :
        collected_committee_rewards[id] > 0 => id \in DOMAIN committee_sizes
=============================================================================
