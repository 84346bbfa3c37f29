---------------------------- MODULE CushionVault ----------------------------
(***************************************************************************)
(* The lending vault of the Cushion program: the four liquidity            *)
(* instructions deposit, mint, redeem and withdraw                         *)
(* (programs/cushion/src/handlers/vault/liquidity.rs) over the vault       *)
(* account, the share mint and the vault's idle token account.             *)
(*                                                                         *)
(* An instruction is one transaction: it runs alone and is undone when any *)
(* check fails, so each is one action whose guards are all its checks.     *)
(*                                                                         *)
(* The instructions on loan positions move tokens in and out of the same   *)
(* idle account behind the depositors' back.  MoveIdle stands for all of   *)
(* them here; module Cushion says what they do and that nothing else of    *)
(* the vault changes with them.                                            *)
(***************************************************************************)
EXTENDS VaultShares, FiniteSets, Functions

CONSTANTS
  Users,        \* depositors
  MinDeposit,   \* vault.min_deposit
  DepositCap,   \* vault.deposit_cap
  Amounts,      \* instruction arguments explored; any positive u64 in the code
  Limits,       \* slippage guards explored; any u64 in the code
  InitialAssets,\* tokens each depositor starts with
  IdleAmounts   \* balances MoveIdle may leave; bounds the model, any u64 in the code

(* The check of init_vault on the configuration it stores.                 *)
ValidVaultConfig == DepositCap > 0 /\ DepositCap >= MinDeposit

ASSUME ConfigAssumption ==
  /\ MinDeposit \in 0 .. U64_MAX
  /\ DepositCap \in 0 .. U64_MAX
  /\ ValidVaultConfig

ASSUME BoundAssumption ==
  /\ Amounts \subseteq 0 .. U64_MAX
  /\ Limits \subseteq 0 .. U64_MAX
  /\ InitialAssets \in 0 .. U64_MAX
  /\ IdleAmounts \subseteq Nat

(* A chain has finitely many accounts.                                     *)
ASSUME UsersAssumption == IsFiniteSet(Users)

VARIABLES
  totalManagedAssets,  \* vault.total_managed_assets
  shareSupply,         \* share_mint.supply
  userShares,          \* user_share_account.amount, per user
  userAssets,          \* user_asset_account.amount, per user
  vaultToken           \* vault_token_account.amount: the idle liquidity

vaultVars == <<totalManagedAssets, shareSupply, userShares, userAssets, vaultToken>>

VaultTypeOK ==
  /\ totalManagedAssets \in 0 .. U128_MAX
  /\ shareSupply \in 0 .. U64_MAX
  /\ userShares \in [Users -> 0 .. U64_MAX]
  /\ userAssets \in [Users -> Nat]
  /\ vaultToken \in Nat

VaultInit ==
  /\ totalManagedAssets = 0
  /\ shareSupply = 0
  /\ userShares = [u \in Users |-> 0]
  /\ userAssets = [u \in Users |-> InitialAssets]
  /\ vaultToken = 0

-----------------------------------------------------------------------------
(* Managers: previews and policy checks (managers/vault_manager_v1.rs).    *)

(* Mutants of the previews: the rounding of the opposite instruction.      *)
PreviewMintRoundedDown(shares_out) == AssetsFloor(shares_out, totalManagedAssets, shareSupply)
PreviewRedeemRoundedUp(shares_in) == AssetsCeil(shares_in, totalManagedAssets, shareSupply)

PreviewDeposit(assets_in)   == SharesFloor(assets_in, totalManagedAssets, shareSupply)
PreviewMint(shares_out)     == AssetsCeil(shares_out, totalManagedAssets, shareSupply)
PreviewRedeem(shares_in)    == AssetsFloor(shares_in, totalManagedAssets, shareSupply)
PreviewWithdraw(assets_out) == SharesCeil(assets_out, totalManagedAssets, shareSupply)

DepositAllowed(assets_in) ==
  /\ assets_in >= MinDeposit
  /\ totalManagedAssets + assets_in <= DepositCap

VaultHasLiquidity(assets) == vaultToken >= assets

IncreaseManagedAssets(delta) ==
  /\ totalManagedAssets + delta <= U128_MAX
  /\ totalManagedAssets' = totalManagedAssets + delta

(* checked_sub: underflow aborts the transaction.                          *)
DecreaseManagedAssets(delta) ==
  /\ totalManagedAssets >= delta
  /\ totalManagedAssets' = totalManagedAssets - delta

-----------------------------------------------------------------------------
(* The SPL token program as the handlers use it.                           *)

PayVault(u, assets) ==
  /\ userAssets[u] >= assets
  /\ userAssets' = [userAssets EXCEPT ![u] = @ - assets]
  /\ vaultToken' = vaultToken + assets

PayUser(u, assets) ==
  /\ vaultToken >= assets
  /\ userAssets' = [userAssets EXCEPT ![u] = @ + assets]
  /\ vaultToken' = vaultToken - assets

MintTo(u, shares) ==
  /\ shareSupply + shares <= U64_MAX
  /\ userShares[u] + shares <= U64_MAX
  /\ shareSupply' = shareSupply + shares
  /\ userShares' = [userShares EXCEPT ![u] = @ + shares]

(* Mutant: the balance of the burning account is not checked.              *)
BurnUnchecked(u, shares) ==
  /\ shareSupply >= shares
  /\ shareSupply' = shareSupply - shares
  /\ userShares' = [userShares EXCEPT ![u] = @ - shares]

Burn(u, shares) ==
  /\ shareSupply >= shares
  /\ userShares[u] >= shares
  /\ shareSupply' = shareSupply - shares
  /\ userShares' = [userShares EXCEPT ![u] = @ - shares]

-----------------------------------------------------------------------------
(* Instructions.                                                           *)

Deposit(u, assets_in, min_shares_out) ==
  /\ assets_in > 0
  /\ DepositAllowed(assets_in)
  /\ \E shares_out \in PreviewDeposit(assets_in) :
       /\ shares_out > 0
       /\ shares_out >= min_shares_out
       /\ PayVault(u, assets_in)
       /\ MintTo(u, shares_out)
  /\ IncreaseManagedAssets(assets_in)

Mint(u, shares_out, max_assets_in) ==
  /\ shares_out > 0
  /\ \E assets_in \in PreviewMint(shares_out) :
       /\ assets_in > 0
       /\ assets_in <= max_assets_in
       /\ DepositAllowed(assets_in)
       /\ PayVault(u, assets_in)
       /\ MintTo(u, shares_out)
       /\ IncreaseManagedAssets(assets_in)

Redeem(u, shares_in, min_assets_out) ==
  /\ shares_in > 0
  /\ \E assets_out \in PreviewRedeem(shares_in) :
       /\ assets_out > 0
       /\ assets_out >= min_assets_out
       /\ VaultHasLiquidity(assets_out)
       /\ Burn(u, shares_in)
       /\ PayUser(u, assets_out)
       /\ DecreaseManagedAssets(assets_out)

Withdraw(u, assets_out, max_shares_burn) ==
  /\ assets_out > 0
  /\ VaultHasLiquidity(assets_out)
  /\ \E shares_to_burn \in PreviewWithdraw(assets_out) :
       /\ shares_to_burn > 0
       /\ shares_to_burn <= max_shares_burn
       /\ Burn(u, shares_to_burn)
       /\ PayUser(u, assets_out)
       /\ DecreaseManagedAssets(assets_out)

LiquidityInstruction ==
  \E u \in Users, amount \in Amounts, limit \in Limits :
    \/ Deposit(u, amount, limit)
    \/ Mint(u, amount, limit)
    \/ Redeem(u, amount, limit)
    \/ Withdraw(u, amount, limit)

-----------------------------------------------------------------------------
(* Everything else that touches these accounts.                            *)

(* A position instruction, or a direct transfer to the idle account, moves *)
(* idle tokens; no share and no managed asset moves with it.               *)
MoveIdle ==
  /\ vaultToken' \in IdleAmounts
  /\ UNCHANGED <<totalManagedAssets, shareSupply, userShares, userAssets>>

(* The share mint is an SPL mint: holders may burn their own shares there. *)
BurnOwnShares ==
  /\ \E u \in Users, amount \in Amounts : amount > 0 /\ Burn(u, amount)
  /\ UNCHANGED <<totalManagedAssets, userAssets, vaultToken>>

VaultNext == LiquidityInstruction \/ MoveIdle \/ BurnOwnShares

VaultSpec == VaultInit /\ [][VaultNext]_vaultVars
-----------------------------------------------------------------------------
(* Safety.  In all of them "price" is the value of a share in assets,      *)
(* (totalManagedAssets + VirtualAssets) / (shareSupply + VirtualShares).   *)

(* The price never falls below the virtual one the vault opened at: every  *)
(* rounding in vault_shares.rs favours the vault, however deposits, mints, *)
(* redemptions and withdrawals are interleaved.                            *)
SharePriceCovered ==
  totalManagedAssets * VirtualShares >= shareSupply * VirtualAssets

(* No claim that can be presented exceeds what the vault manages, so       *)
(* decrease_total_managed_assets never underflows under a redeem or a      *)
(* withdraw whose shares exist: only idle liquidity can block an exit.     *)
ClaimsCovered ==
  /\ \A shares_in \in 1 .. shareSupply :
       \A assets_out \in PreviewRedeem(shares_in) : assets_out <= totalManagedAssets
  /\ \A assets_out \in Amounts :
       \A shares_to_burn \in PreviewWithdraw(assets_out) :
         shares_to_burn \in 1 .. shareSupply => assets_out <= totalManagedAssets

(* What the depositors may claim for all their shares, none twice.         *)
AllClaimsWithin(funds) ==
  LET claimsOf(u) == {0} \cup PreviewRedeem(userShares[u])
  IN  \A claims \in [Users -> UNION {claimsOf(u) : u \in Users}] :
        (\A u \in Users : claims[u] \in claimsOf(u)) => SumFunction(claims) <= funds

(* Nor do all depositors' claims together: however each of them came to    *)
(* have its shares, nobody's are worth what another one's should be.       *)
AllClaimsCovered == AllClaimsWithin(totalManagedAssets)

(* No sequence of two instructions by one depositor, with nothing between  *)
(* them, gains anything: deposit-redeem, deposit-withdraw, mint-redeem and *)
(* mint-withdraw cost at least what they return.                           *)
RoundTripNoProfit ==
  \A amount \in Amounts \ {0} :
    /\ \A shares \in PreviewDeposit(amount) \ {0} :
         LET assets == totalManagedAssets + amount
             supply == shareSupply + shares
         IN  /\ \A back \in AssetsFloor(shares, assets, supply) : back <= amount
             /\ \A burned \in SharesCeil(amount, assets, supply) : burned >= shares
    /\ \A cost \in PreviewMint(amount) \ {0} :
         LET assets == totalManagedAssets + cost
             supply == shareSupply + amount
         IN  /\ \A back \in AssetsFloor(amount, assets, supply) : back <= cost
             /\ \A burned \in SharesCeil(cost, assets, supply) : burned >= amount

(* No step of anybody lowers the price for those who hold shares: nobody   *)
(* is diluted by another depositor's instruction.                          *)
PriceDoesNotFall ==
  ~Degenerate(totalManagedAssets, shareSupply)
    => (totalManagedAssets' + VirtualAssets) * (shareSupply + VirtualShares)
         >= (totalManagedAssets + VirtualAssets) * (shareSupply' + VirtualShares)

NoDilution == [][PriceDoesNotFall]_vaultVars
=============================================================================
