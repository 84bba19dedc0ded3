------------------------------- MODULE Bridge -------------------------------
(***************************************************************************)
(* Most composed with the PSP22 ledgers of the tokens it bridges.         *)
(*                                                                         *)
(* Most abstracts each token to its minter_burner role.  Here the tokens' *)
(* balances, the allowances users give the bridge, and the total supply   *)
(* are state too, and the messages that call the tokens move them:        *)
(* send_request burns the amount through burn_from (transfer_from into    *)
(* the bridge, then burn), the quorum-reaching receive_request mints      *)
(* through mint_to, and recover_psp22 transfers the bridge's own tokens.  *)
(* Users approve the bridge and transfer tokens, to each other or to the  *)
(* bridge itself (an accidental deposit, what recover_psp22 is for).      *)
(* When a token's owner has moved the minter_burner role away from the    *)
(* bridge, the new minter_burner mints too.                               *)
(* The token side follows Token's wrappers and PSP22Data (see Token).     *)
(* A call into a token that fails reverts the whole bridge message.       *)
(***************************************************************************)
EXTENDS Most

CONSTANTS
    Users,        \* accounts that hold tokens and call send_request
    TokenValues,  \* values of user approvals and transfers
    InitBalance,  \* each user's balance of each token at deployment
    MaxForeignMint \* bound: tokens minted by a minter_burner other than the bridge

\* Every account with a balance: the users and the bridge.
Holders == Users \cup {MostAccount}

ASSUME /\ MostAccount \notin Users
       /\ {r.dest_receiver : r \in Requests} \subseteq Users

VARIABLES
    balances,      \* token -> account -> PSP22Data balance
    allowances,    \* token -> user -> allowance of the bridge
    total_supply,  \* token -> PSP22Data total_supply
    burned,        \* ghost: token -> amount burned by send_request
    deposits,      \* ghost: token -> deposits to the bridge not yet recovered
    foreign_minted \* ghost: token -> amount minted by another minter_burner

tokenVars == <<balances, allowances, total_supply, burned, deposits, foreign_minted>>
bridgeVars == <<vars, tokenVars>>

BridgeInit ==
    /\ Init
    /\ balances = [t \in Tokens |-> [a \in Holders |-> IF a = MostAccount THEN 0 ELSE InitBalance]]
    /\ allowances = [t \in Tokens |-> [u \in Users |-> 0]]
    /\ total_supply = [t \in Tokens |-> InitBalance * Cardinality(Users)]
    /\ burned = [t \in Tokens |-> 0]
    /\ deposits = [t \in Tokens |-> 0]
    /\ foreign_minted = [t \in Tokens |-> 0]

-----------------------------------------------------------------------------
\* Mutant: burn_from moves the tokens into the bridge and does not burn them.
BurnFromNoBurn(t, from, amount) ==
    /\ allowances[t][from] >= amount
    /\ balances[t][from] >= amount
    /\ allowances' = [allowances EXCEPT ![t][from] = @ - amount]
    /\ balances' = [balances EXCEPT ![t][from] = @ - amount, ![t][MostAccount] = @ + amount]
    /\ UNCHANGED total_supply

\* Mutant: burn_from burns the bridge's own balance without transfer_from.
BurnFromOwnBalance(t, from, amount) ==
    /\ balances[t][MostAccount] >= amount
    /\ balances' = [balances EXCEPT ![t][MostAccount] = @ - amount]
    /\ total_supply' = [total_supply EXCEPT ![t] = @ - amount]
    /\ UNCHANGED allowances

\* burn_from (most/lib.rs 847-862): transfer_from(from, bridge, amount)
\* called by the bridge (the allowance must cover amount, then the
\* balance; the allowance shrinks), then burn(amount) of the bridge's own
\* balance (the bridge must be burner, checked in SendRequest).  The
\* tokens pass through the bridge's balance and leave it within the call.
BurnFrom(t, from, amount) ==
    /\ allowances[t][from] >= amount
    /\ balances[t][from] >= amount
    /\ allowances' = [allowances EXCEPT ![t][from] = @ - amount]
    /\ balances' = [balances EXCEPT ![t][from] = @ - amount]
    /\ total_supply' = [total_supply EXCEPT ![t] = @ - amount]

\* Mutant: mint_to credits the bridge instead of the receiver.
MintToBridge(t, to, amount) ==
    /\ total_supply[t] + amount <= U128Max
    /\ total_supply' = [total_supply EXCEPT ![t] = @ + amount]
    /\ balances' = [balances EXCEPT ![t][MostAccount] = @ + amount]
    /\ UNCHANGED allowances

\* mint_to (most/lib.rs 838-845): Token::mint by the bridge (its minter
\* role is checked in Finalize); the supply addition is checked.
MintTo(t, to, amount) ==
    /\ total_supply[t] + amount <= U128Max
    /\ total_supply' = [total_supply EXCEPT ![t] = @ + amount]
    /\ balances' = [balances EXCEPT ![t][to] = @ + amount]
    /\ UNCHANGED allowances

\* send_request by `sender`: Most's effects, and burn_from of src.
BridgeSendRequest(sender, src, amount, dest_receiver, answer) ==
    /\ SendRequest(src, amount, dest_receiver, answer)
    /\ BurnFrom(src, sender, amount)
    /\ burned' = [burned EXCEPT ![src] = @ + amount]
    /\ UNCHANGED <<deposits, foreign_minted>>

\* receive_request: the vote that finalises h mints its amount to its
\* receiver; any other vote leaves the tokens alone.
BridgeReceiveRequest(g, h, r) ==
    /\ ReceiveRequest(g, h, r)
    /\ IF h \in processed_requests'
       THEN MintTo(r.dest_token, r.dest_receiver, r.amount)
       ELSE UNCHANGED <<balances, allowances, total_supply>>
    /\ UNCHANGED <<burned, deposits, foreign_minted>>

\* recover_psp22 (most/lib.rs 757-772): the owner has the bridge transfer
\* its own tokens (Token::transfer with the bridge as caller).
RecoverPsp22(t, receiver, amount) ==
    /\ balances[t][MostAccount] >= amount
    /\ balances' = [balances EXCEPT ![t][MostAccount] = @ - amount, ![t][receiver] = @ + amount]
    /\ deposits' = [deposits EXCEPT ![t] = @ - amount]
    /\ UNCHANGED <<vars, allowances, total_supply, burned, foreign_minted>>

\* Token::mint (token/lib.rs 230-242) by the minter_burner the token's
\* owner installed in place of the bridge.
ForeignMint(t, to, amount) ==
    /\ minter[t] = OtherAccount
    /\ foreign_minted[t] + amount <= MaxForeignMint
    /\ MintTo(t, to, amount)
    /\ foreign_minted' = [foreign_minted EXCEPT ![t] = @ + amount]
    /\ UNCHANGED <<vars, burned, deposits>>

\* A user approves the bridge (Token::approve, token/lib.rs 196-202).
UserApprove(u, t, value) ==
    /\ allowances[t][u] # value
    /\ allowances' = [allowances EXCEPT ![t][u] = value]
    /\ UNCHANGED <<vars, balances, total_supply, burned, deposits, foreign_minted>>

\* Mutant: a transfer that does not check the balance.
UserTransferUnchecked(u, t, to, value) ==
    /\ u # to
    /\ balances' = [balances EXCEPT ![t][u] = @ - value, ![t][to] = @ + value]
    /\ deposits' = IF to = MostAccount THEN [deposits EXCEPT ![t] = @ + value] ELSE deposits
    /\ UNCHANGED <<vars, allowances, total_supply, burned, foreign_minted>>

\* A user transfers tokens (Token::transfer, token/lib.rs 169-180), to
\* another user or to the bridge.
UserTransfer(u, t, to, value) ==
    /\ u # to
    /\ balances[t][u] >= value
    /\ balances' = [balances EXCEPT ![t][u] = @ - value, ![t][to] = @ + value]
    /\ deposits' = IF to = MostAccount THEN [deposits EXCEPT ![t] = @ + value] ELSE deposits
    /\ UNCHANGED <<vars, allowances, total_supply, burned, foreign_minted>>

BridgeNext ==
    \/ \E s \in Users, src \in Tokens, a \in Amounts, rcv \in Receivers, ans \in OracleAnswersSet :
          BridgeSendRequest(s, src, a, rcv, ans)
    \/ \E g \in Guardians \ Byzantine, r \in EthRequests : BridgeReceiveRequest(g, Digest[r], r)
    \/ \E g \in Byzantine, h \in Digests, r \in Requests : BridgeReceiveRequest(g, h, r)
    \/ OtherNext /\ UNCHANGED tokenVars
    \/ \E t \in Tokens, u \in Users, v \in TokenValues :
          \/ RecoverPsp22(t, u, v)
          \/ UserApprove(u, t, v)
          \/ ForeignMint(t, u, v)
          \/ \E to \in Holders : UserTransfer(u, t, to, v)

BridgeSpec == BridgeInit /\ [][BridgeNext]_bridgeVars

-----------------------------------------------------------------------------
(* Properties.                                                             *)

BridgeTypeOK ==
    /\ TypeOK
    /\ balances \in [Tokens -> [Holders -> 0..U128Max]]
    /\ allowances \in [Tokens -> [Users -> 0..U128Max]]
    /\ total_supply \in [Tokens -> 0..U128Max]

\* The amount minted into token t by finalised inbound requests.
MintedAmount(t) ==
    MapThenSumSet(LAMBDA h : minted[h] * RequestOf(h).amount,
                  {h \in Digests : RequestOf(h).dest_token = t})

\* Every token is backed: its supply is the deployed supply plus what
\* finalised inbound requests minted, plus what another minter_burner
\* minted while it held the role, minus what outbound requests burned,
\* and the bridge holds exactly the tokens deposited into it and not
\* recovered, so send_request leaves nothing behind that recover_psp22
\* could take.
TokensBacked ==
    \A t \in Tokens :
        /\ total_supply[t] = InitBalance * Cardinality(Users) + MintedAmount(t)
                              + foreign_minted[t] - burned[t]
        /\ balances[t][MostAccount] = deposits[t]
=============================================================================
