-------------------------------- MODULE Token --------------------------------
(***************************************************************************)
(* The PSP22 token contract the bridge mints and burns                    *)
(* (src/azero/contracts/token/lib.rs).                                    *)
(*                                                                         *)
(* Token's messages are thin wrappers: each checks its role (ensure_owner, *)
(* ensure_minter, ensure_burner) and hands the caller to PSP22Data or      *)
(* Ownable2StepData, from the psp22 and ownable2step crates.  Those crates *)
(* are dependencies outside this repository; their operations are         *)
(* modelled from the PSP22 standard and the spec's token and two-step      *)
(* ownership descriptions.                                                 *)
(* A message that returns Err reverts; one that returns Ok without a      *)
(* write (value 0, to == from, owner == spender) is a stutter and is left *)
(* out.  `caller` records the caller of the last message that wrote        *)
(* storage, so that properties can say who may take a step.              *)
(***************************************************************************)
EXTENDS Naturals

CONSTANTS
    Accounts,       \* account ids that call the token
    Spenders,       \* the accounts approved as spenders
    Values,         \* value / delta_value arguments (non-zero)
    U128Max,        \* u128::MAX, scaled down: the bound of total_supply
    Deployer,       \* the caller of Token::new
    InitSupply,     \* constructor argument `total_supply`
    InitMinterBurner, \* constructor argument `minter_burner`
    NoAccount       \* Option<AccountId>::None (no pending owner)

ASSUME /\ {Deployer, InitMinterBurner} \cup Spenders \subseteq Accounts
       /\ NoAccount \notin Accounts
       /\ InitSupply \in 0..U128Max

VARIABLES
    balances,       \* PSP22Data.balances (absent = 0)
    allowances,     \* PSP22Data.allowances, <<owner, spender>> -> u128
    total_supply,   \* PSP22Data.total_supply
    owner,          \* Ownable2StepData owner
    pending_owner,  \* Ownable2StepData pending owner, or NoAccount
    minter_burner,  \* Token.minter_burner
    caller          \* history: caller of the last storage-writing message

dataVars == <<balances, allowances, total_supply>>
ownableVars == <<owner, pending_owner>>
tokenVars == <<dataVars, ownableVars, minter_burner, caller>>

\* Token::new (lines 59-79): PSP22Data::new credits the whole supply to
\* the deployer, Ownable2StepData::new makes it the owner.
TokenInit ==
    /\ balances = [a \in Accounts |-> IF a = Deployer THEN InitSupply ELSE 0]
    /\ allowances = [k \in Accounts \X Accounts |-> 0]
    /\ total_supply = InitSupply
    /\ owner = Deployer
    /\ pending_owner = NoAccount
    /\ minter_burner = InitMinterBurner
    /\ caller = Deployer

-----------------------------------------------------------------------------
(* PSP22Data (psp22 crate): the writes of each operation, under the       *)
(* guard that it neither fails nor returns early.                          *)

\* transfer(caller, to, value): InsufficientBalance unless covered.
DataTransfer(from, to, value) ==
    /\ from # to
    /\ balances[from] >= value
    /\ balances' = [balances EXCEPT ![from] = @ - value, ![to] = @ + value]
    /\ UNCHANGED <<allowances, total_supply>>

\* transfer_from(caller, from, to, value): a caller spending its own
\* balance is a plain transfer; otherwise the allowance must cover value,
\* then the balance, and the allowance decreases by value.
DataTransferFrom(spender, from, to, value) ==
    \/ spender = from /\ DataTransfer(from, to, value)
    \/ /\ spender # from
       /\ from # to
       /\ allowances[<<from, spender>>] >= value
       /\ balances[from] >= value
       /\ allowances' = [allowances EXCEPT ![<<from, spender>>] = @ - value]
       /\ balances' = [balances EXCEPT ![from] = @ - value, ![to] = @ + value]
       /\ UNCHANGED total_supply

\* approve(owner, spender, value): sets the allowance.
DataApprove(holder, spender, value) ==
    /\ holder # spender
    /\ allowances[<<holder, spender>>] # value
    /\ allowances' = [allowances EXCEPT ![<<holder, spender>>] = value]
    /\ UNCHANGED <<balances, total_supply>>

\* Mutant: the addition is not saturated at u128::MAX.
DataIncreaseAllowanceUnsaturated(holder, spender, delta) ==
    /\ holder # spender
    /\ allowances[<<holder, spender>>] < U128Max
    /\ allowances' = [allowances EXCEPT ![<<holder, spender>>] = @ + delta]
    /\ UNCHANGED <<balances, total_supply>>

\* increase_allowance: saturating addition.
DataIncreaseAllowance(holder, spender, delta) ==
    /\ holder # spender
    /\ allowances[<<holder, spender>>] < U128Max
    /\ allowances' = [allowances EXCEPT ![<<holder, spender>>] =
                          IF @ + delta > U128Max THEN U128Max ELSE @ + delta]
    /\ UNCHANGED <<balances, total_supply>>

\* decrease_allowance: InsufficientAllowance below delta.
DataDecreaseAllowance(holder, spender, delta) ==
    /\ holder # spender
    /\ allowances[<<holder, spender>>] >= delta
    /\ allowances' = [allowances EXCEPT ![<<holder, spender>>] = @ - delta]
    /\ UNCHANGED <<balances, total_supply>>

\* mint(to, value): the supply addition is checked (overflow is an Err).
DataMint(to, value) ==
    /\ total_supply + value <= U128Max
    /\ total_supply' = total_supply + value
    /\ balances' = [balances EXCEPT ![to] = @ + value]
    /\ UNCHANGED allowances

\* burn(from, value): InsufficientBalance unless covered.
DataBurn(from, value) ==
    /\ balances[from] >= value
    /\ balances' = [balances EXCEPT ![from] = @ - value]
    /\ total_supply' = total_supply - value
    /\ UNCHANGED allowances

(* Ownable2StepData (ownable2step crate).                                 *)

\* ensure_owner(caller): CallerNotOwner otherwise.
DataEnsureOwner(account) == account = owner

\* transfer_ownership(caller, new_owner): the owner nominates new_owner.
DataTransferOwnership(account, new_owner) ==
    /\ DataEnsureOwner(account)
    /\ pending_owner' = new_owner
    /\ UNCHANGED owner

\* Mutant: any caller may accept.
DataAcceptOwnershipAnyone(account) ==
    /\ pending_owner # NoAccount
    /\ owner' = account
    /\ pending_owner' = NoAccount

\* accept_ownership(caller): CallerNotPendingOwner unless nominated.
DataAcceptOwnership(account) ==
    /\ pending_owner = account
    /\ owner' = account
    /\ pending_owner' = NoAccount

-----------------------------------------------------------------------------
(* Token's messages (lines 82-293), each by caller `c`.                    *)

\* The message of `c` wrote storage.
Wrote(c) == caller' = c

\* ensure_minter / ensure_burner (lines 96-114) compare the caller with
\* minter() and burner() (lines 240-242, 255-257): both are minter_burner.
EnsureMinter(c) == c = minter_burner
EnsureBurner(c) == c = minter_burner

\* set_minter_burner (lines 82-89) with ensure_owner (lines 91-94).
SetMinterBurner(c, new_minter_burner) ==
    /\ DataEnsureOwner(c)
    /\ minter_burner # new_minter_burner
    /\ minter_burner' = new_minter_burner
    /\ Wrote(c)
    /\ UNCHANGED <<dataVars, ownableVars>>

\* PSP22::transfer (lines 169-180).
Transfer(c, to, value) ==
    /\ DataTransfer(c, to, value)
    /\ Wrote(c)
    /\ UNCHANGED <<ownableVars, minter_burner>>

\* Mutant: transfer_from hands `from` to PSP22Data as the spender.
TransferFromAsHolder(c, from, to, value) ==
    /\ DataTransferFrom(from, from, to, value)
    /\ Wrote(c)
    /\ UNCHANGED <<ownableVars, minter_burner>>

\* PSP22::transfer_from (lines 181-195).
TransferFrom(c, from, to, value) ==
    /\ DataTransferFrom(c, from, to, value)
    /\ Wrote(c)
    /\ UNCHANGED <<ownableVars, minter_burner>>

\* PSP22::approve, increase_allowance, decrease_allowance (lines 196-227).
Approve(c, spender, value) ==
    /\ DataApprove(c, spender, value)
    /\ Wrote(c)
    /\ UNCHANGED <<ownableVars, minter_burner>>

IncreaseAllowance(c, spender, delta) ==
    /\ DataIncreaseAllowance(c, spender, delta)
    /\ Wrote(c)
    /\ UNCHANGED <<ownableVars, minter_burner>>

DecreaseAllowance(c, spender, delta) ==
    /\ DataDecreaseAllowance(c, spender, delta)
    /\ Wrote(c)
    /\ UNCHANGED <<ownableVars, minter_burner>>

\* Mutant: mint without ensure_minter.
MintUnchecked(c, to, value) ==
    /\ DataMint(to, value)
    /\ Wrote(c)
    /\ UNCHANGED <<ownableVars, minter_burner>>

\* Mintable::mint (lines 230-242).
Mint(c, to, value) ==
    /\ EnsureMinter(c)
    /\ DataMint(to, value)
    /\ Wrote(c)
    /\ UNCHANGED <<ownableVars, minter_burner>>

\* Burnable::burn (lines 245-257): the burner burns its own balance.
Burn(c, value) ==
    /\ EnsureBurner(c)
    /\ DataBurn(c, value)
    /\ Wrote(c)
    /\ UNCHANGED <<ownableVars, minter_burner>>

\* Ownable2Step::transfer_ownership / accept_ownership (lines 271-288).
TransferOwnership(c, new_owner) ==
    /\ DataTransferOwnership(c, new_owner)
    /\ Wrote(c)
    /\ UNCHANGED <<dataVars, minter_burner>>

AcceptOwnership(c) ==
    /\ DataAcceptOwnership(c)
    /\ Wrote(c)
    /\ UNCHANGED <<dataVars, minter_burner>>

TokenNext ==
    \E c \in Accounts :
        \/ \E m \in Accounts : SetMinterBurner(c, m) \/ TransferOwnership(c, m)
        \/ AcceptOwnership(c)
        \/ \E a, b \in Accounts, v \in Values :
              \/ Transfer(c, a, v)
              \/ TransferFrom(c, a, b, v)
              \/ Mint(c, a, v)
        \/ \E s \in Spenders, v \in Values :
              \/ Approve(c, s, v)
              \/ IncreaseAllowance(c, s, v)
              \/ DecreaseAllowance(c, s, v)
        \/ \E v \in Values : Burn(c, v)

TokenSpec == TokenInit /\ [][TokenNext]_tokenVars

-----------------------------------------------------------------------------
(* Properties.                                                             *)

TokenTypeOK ==
    /\ balances \in [Accounts -> 0..U128Max]
    /\ allowances \in [Accounts \X Accounts -> 0..U128Max]
    /\ total_supply \in 0..U128Max
    /\ owner \in Accounts
    /\ pending_owner \in Accounts \cup {NoAccount}
    /\ minter_burner \in Accounts
    /\ caller \in Accounts

\* Tokens leave an account only by a message of that account (transfer,
\* burn, transfer_from of its own balance) or by transfer_from of a
\* spender, within an allowance the account granted, which shrinks by
\* the amount taken.
NoUnauthorisedDebit ==
    [][\A a \in Accounts :
         balances'[a] < balances[a] =>
            \/ caller' = a
            \/ allowances[<<a, caller'>>] - allowances'[<<a, caller'>>]
                   = balances[a] - balances'[a]]_tokenVars

\* The supply grows or shrinks only by a message of the minter_burner of
\* that moment, and the role is moved only by the owner of that moment.
SupplyOnlyByMinterBurner ==
    [][/\ total_supply' # total_supply => caller' = minter_burner
       /\ minter_burner' # minter_burner => caller' = owner]_tokenVars

\* Two-step handover: ownership passes only to the account the owner of
\* that moment nominated, by a message of that account, and a
\* nomination is consumed by its acceptance.
OwnershipOnlyByHandover ==
    [][owner' # owner =>
         /\ pending_owner = owner'
         /\ caller' = owner'
         /\ pending_owner' = NoAccount]_tokenVars
=============================================================================
