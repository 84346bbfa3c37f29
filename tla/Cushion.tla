------------------------------ MODULE Cushion ------------------------------
(***************************************************************************)
(* The on-chain program: the lending vault, the loan positions it insures  *)
(* and the Kamino obligations behind them                                  *)
(* (programs/cushion/src/handlers/vault/position_ops, .../obligation).     *)
(*                                                                         *)
(* Instructions are transactions: each is one action, aborted as a whole   *)
(* when a check fails.  Inject, withdraw and liquidate are open to any     *)
(* caller; borrowers act on their own positions; the price moves at will.  *)
(* Nothing orders them, and a liquidation takes two of them.               *)
(***************************************************************************)
EXTENDS CushionVault, LtvMath, Klend

CONSTANTS
  InterestRate,         \* vault.interest_rate, of TOKEN_PRECISION
  InitialCollateral,    \* tokens each borrower starts with
  CollateralAmounts,    \* collateral arguments explored; any positive u64 in the code
  DebtAmounts,          \* debt arguments explored, as values
  SwapSurplus,          \* what the pool may pay above min_usdc_out
  IndexBound,           \* bounds the model: no withdrawal above this interest index
  ElapsedBound          \* bounds the model: ticks the clock runs past the last interest update

ASSUME CushionAssumption ==
  /\ InterestRate \in 0 .. U64_MAX
  /\ InitialCollateral \in 0 .. U64_MAX
  /\ CollateralAmounts \subseteq 1 .. U64_MAX
  /\ DebtAmounts \subseteq Nat \ {0}
  /\ SwapSurplus \subseteq Nat
  /\ IndexBound \in Nat
  /\ ElapsedBound \in Nat
  /\ UnitsPerToken = MintFactor

(* A chain has finitely many accounts.                                     *)
ASSUME PositionsAssumption == IsFiniteSet(Positions)

VARIABLES
  injected,             \* position.injected
  injectedAmount,       \* position.injected_amount
  wallet,               \* the borrower's own collateral tokens
  vaultUsdc,            \* vault_debt_token_account.amount
  vaultPrice,           \* vault.market_price; 0 until the first update
  accumulatedInterest,  \* vault.accumulated_interest
  sinceInterest         \* clock - vault.interest_last_updated

ledger == <<totalManagedAssets, shareSupply, userShares, userAssets>>
insurance == <<injected, injectedAmount>>
interest == <<accumulatedInterest, sinceInterest>>
prices == <<reservePrice, vaultPrice>>
vars == <<vaultVars, obligations, insurance, wallet, vaultUsdc, prices, interest>>

CushionTypeOK ==
  /\ VaultTypeOK
  /\ KlendTypeOK
  /\ injected \in [Positions -> BOOLEAN]
  /\ injectedAmount \in [Positions -> Nat]
  /\ wallet \in [Positions -> Nat]
  /\ vaultUsdc \in Nat
  /\ vaultPrice \in Prices \cup {0}
  /\ accumulatedInterest \in 0 .. U64_MAX
  /\ sinceInterest \in Nat

CushionInit ==
  /\ VaultInit
  /\ KlendInit
  /\ injected = [p \in Positions |-> FALSE]
  /\ injectedAmount = [p \in Positions |-> 0]
  /\ wallet = [p \in Positions |-> InitialCollateral]
  /\ vaultUsdc = 0
  /\ vaultPrice = 0
  /\ accumulatedInterest = TOKEN_PRECISION
  /\ sinceInterest = 0

-----------------------------------------------------------------------------
(* Idle liquidity of the vault leaves for a position, and returns.         *)

FromVault(amount) ==
  /\ vaultToken >= amount
  /\ vaultToken' = vaultToken - amount
  /\ UNCHANGED ledger

(* Mutant: what returns is booked as managed again.                        *)
ToVaultCredited(amount) ==
  /\ vaultToken' = vaultToken + amount
  /\ totalManagedAssets' = totalManagedAssets + amount
  /\ UNCHANGED <<shareSupply, userShares, userAssets>>

ToVault(amount) ==
  /\ vaultToken' = vaultToken + amount
  /\ UNCHANGED ledger

(* process_withdraw_after_inject_or_liquidate                              *)
Release(p) ==
  /\ injected' = [injected EXCEPT ![p] = FALSE]
  /\ injectedAmount' = [injectedAmount EXCEPT ![p] = 0]

-----------------------------------------------------------------------------
(* inject_collateral: a buffer for an unsafe position.                     *)

UnsafePosition(p) ==
  \E ltv \in CurrentLtv(debt[p], DepositedValue(p)),
     insuring \in InsuringLtv(AllowedBorrow(p), DepositedValue(p)) : ltv > insuring

(* The amounts the instruction would inject now: at most one.              *)
Injectable(p) ==
  {amount \in AmountToInject(DepositedValue(p), debt[p], vaultPrice) :
     /\ ~injected[p]
     /\ UnsafePosition(p)
     /\ vaultPrice > 0
     /\ amount < totalManagedAssets
     /\ amount <= vaultToken}

Inject(p) ==
  /\ \E amount \in Injectable(p) :
       /\ injected' = [injected EXCEPT ![p] = TRUE]
       /\ injectedAmount' = [injectedAmount EXCEPT ![p] = @ + amount]
       /\ FromVault(amount)
       /\ DepositCollateral(p, amount)
  /\ UNCHANGED <<debt, wallet, vaultUsdc, prices, interest>>

-----------------------------------------------------------------------------
(* withdraw_injected_collateral: the buffer and its interest, once the     *)
(* position is safe without them.                                          *)

(* Mutant: the threshold of the wrong instruction.                         *)
SafeWithoutUnbuffered(p, amount) ==
  \E value \in MarketValue(amount, reservePrice) :
    \E ltv \in LtvAfterRemoving(value, DepositedValue(p), debt[p]),
       threshold \in LiquidationLtv(UnhealthyBorrow(p), DepositedValue(p)) : ltv < threshold

SafeWithout(p, amount) ==
  \E value \in MarketValue(amount, reservePrice) :
    \E ltv \in LtvAfterRemoving(value, DepositedValue(p), debt[p]),
       threshold \in WithdrawingLtv(AllowedBorrow(p), DepositedValue(p)) : ltv < threshold

CurrentIndex == NextIndex(accumulatedInterest, InterestRate, sinceInterest)

(* The amounts the instruction would withdraw now: at most one.            *)
Withdrawable(p) ==
  {amount \in UNION {AmountToWithdraw(index, accumulatedInterest, injectedAmount[p]) :
                       index \in CurrentIndex} :
     /\ injected[p]
     /\ amount > 0
     /\ SafeWithout(p, amount)}

WithdrawInjected(p) ==
  /\ accumulatedInterest <= IndexBound
  /\ \E amount \in Withdrawable(p), index \in CurrentIndex :
       /\ accumulatedInterest' = index
       /\ sinceInterest' = 0
       /\ Release(p)
       /\ WithdrawCollateral(p, amount)
       /\ ToVault(amount)
  /\ UNCHANGED <<debt, wallet, vaultUsdc, prices>>

-----------------------------------------------------------------------------
(* Liquidation, in two transactions.                                       *)

Liquidatable(p) ==
  \E ltv \in CurrentLtv(debt[p], DepositedValue(p)),
     threshold \in LiquidationLtv(UnhealthyBorrow(p), DepositedValue(p)) : ltv >= threshold

(* swap_wsol_to_usdc: the pool pays at least min_usdc_out, or the swap is  *)
(* refused.                                                                *)
SwapWsolToUsdc(amount, min_usdc_out) ==
  \E surplus \in SwapSurplus :
    /\ FromVault(amount)
    /\ vaultUsdc' = vaultUsdc + min_usdc_out + surplus

(* Tokens for the debt and 1% more, for at least the debt in USDC.         *)
SwapForDebt(p) ==
  \E exact \in AmountOfValue(debt[p], reservePrice) :
    \E amount \in {a \in {(exact * 101) \div 100} : exact * 101 <= U64_MAX} :
      /\ amount > 0
      /\ SwapWsolToUsdc(amount, debt[p])

LiquidateSwap(p) ==
  /\ injected[p]
  /\ Liquidatable(p)
  /\ SwapForDebt(p)
  /\ UNCHANGED <<obligations, insurance, wallet, prices, interest>>

(* The vault authority's variant marks the position itself.                *)
AdminLiquidateSwap(p) ==
  /\ ~injected[p]
  /\ injected' = [injected EXCEPT ![p] = TRUE]
  /\ injectedAmount' = [injectedAmount EXCEPT ![p] = 0]
  /\ SwapForDebt(p)
  /\ UNCHANGED <<obligations, wallet, prices, interest>>

(* The second transaction sweeps all the USDC the vault holds.             *)
Liquidate(p) ==
  /\ injected[p]
  /\ vaultUsdc > 0
  /\ \E amount \in AmountToWithdrawAfterRepay(debt[p], DepositedValue(p), vaultPrice) :
       /\ amount > 0
       /\ Release(p)
       /\ RepayLiquidity(p, vaultUsdc)
       /\ vaultUsdc' = 0
       /\ WithdrawCollateral(p, amount)
       /\ ToVault(amount)
  /\ UNCHANGED <<wallet, prices, interest>>

-----------------------------------------------------------------------------
(* Borrowers: increase_collateral, decrease_collateral, borrow_asset and   *)
(* increase_debt, repay.                                                   *)

IncreaseCollateral(p, amount) ==
  /\ wallet[p] >= amount
  /\ wallet' = [wallet EXCEPT ![p] = @ - amount]
  /\ DepositCollateral(p, amount)
  /\ UNCHANGED <<vaultVars, debt, insurance, vaultUsdc, prices, interest>>

(* Mutant: the buffer is no obstacle.                                      *)
CollateralIsFree(p) == p \in Positions

(* A position that holds a buffer keeps its collateral.                    *)
CollateralIsOwn(p) == ~injected[p]

DecreaseCollateral(p, amount) ==
  /\ CollateralIsOwn(p)
  /\ \E value \in MarketValue(amount, reservePrice) :
       \E ltv \in LtvAfterRemoving(value, DepositedValue(p), debt[p]),
          maximum \in MaxSafeLtv(UnhealthyBorrow(p), DepositedValue(p)) : ltv <= maximum
  /\ WithdrawCollateral(p, amount)
  /\ wallet' = [wallet EXCEPT ![p] = @ + amount]
  /\ UNCHANGED <<vaultVars, debt, insurance, vaultUsdc, prices, interest>>

SafeWithDebt(p, value) ==
  \E ltv \in LtvAfterBorrowing(value, DepositedValue(p), debt[p]),
     maximum \in MaxSafeLtv(UnhealthyBorrow(p), DepositedValue(p)) : ltv <= maximum

BorrowAsset(p, value) ==
  /\ SafeWithDebt(p, value)
  /\ BorrowLiquidity(p, value)
  /\ UNCHANGED <<vaultVars, collateral, insurance, wallet, vaultUsdc, prices, interest>>

RepayDebt(p, value) ==
  /\ RepayLiquidity(p, value)
  /\ UNCHANGED <<vaultVars, collateral, insurance, wallet, vaultUsdc, prices, interest>>

-----------------------------------------------------------------------------
(* Prices and time.                                                        *)

(* update_market_price: any signer posts any price update that the oracle  *)
(* network signed in the last MAX_PRICE_AGE_SECONDS, 347 days.             *)
UpdateMarketPrice ==
  /\ vaultPrice' \in Prices
  /\ UNCHANGED <<vaultVars, obligations, insurance, wallet, vaultUsdc, reservePrice, interest>>

MarketMoves ==
  /\ PriceMoves
  /\ UNCHANGED <<vaultVars, insurance, wallet, vaultUsdc, vaultPrice, interest>>

ClockTicks ==
  /\ sinceInterest < ElapsedBound
  /\ sinceInterest' = sinceInterest + 1
  /\ UNCHANGED <<vaultVars, obligations, insurance, wallet, vaultUsdc, prices, accumulatedInterest>>

DepositorActs ==
  /\ LiquidityInstruction \/ BurnOwnShares
  /\ UNCHANGED <<obligations, insurance, wallet, vaultUsdc, prices, interest>>

BufferInstruction == \E p \in Positions : Inject(p) \/ WithdrawInjected(p)

Liquidation == \E p \in Positions : LiquidateSwap(p) \/ AdminLiquidateSwap(p) \/ Liquidate(p)

BorrowerActs ==
  \E p \in Positions :
    \/ \E amount \in CollateralAmounts : IncreaseCollateral(p, amount) \/ DecreaseCollateral(p, amount)
    \/ \E value \in DebtAmounts : BorrowAsset(p, value) \/ RepayDebt(p, value)

CushionNext ==
  \/ DepositorActs
  \/ BufferInstruction
  \/ Liquidation
  \/ BorrowerActs
  \/ UpdateMarketPrice
  \/ MarketMoves
  \/ ClockTicks

CushionSpec == CushionInit /\ [][CushionNext]_vars

-----------------------------------------------------------------------------
(* Safety of the buffer.                                                   *)

(* The collateral of an insured position includes its buffer until the     *)
(* buffer is returned: no sequence of the borrower's own instructions, of  *)
(* price moves and of others' injections takes it out.                     *)
BufferInPlace == \A p \in Positions : injectedAmount[p] > 0 => collateral[p] >= injectedAmount[p]

(* Principal that is out as buffers.                                       *)
Deployed == SumFunction(injectedAmount)

(* What the vault has above what it owes its depositors to manage.         *)
Surplus == vaultToken + Deployed - totalManagedAssets

(* Only a liquidation can cost the depositors anything: under every other  *)
(* instruction, in any order, idle tokens and deployed principal together  *)
(* keep up with total_managed_assets.  In particular a withdrawal returns  *)
(* at least the principal, whatever the interest index has become: the     *)
(* check that withdraw.rs wonders about is not needed.                     *)
BackingKept == [][~Liquidation => Surplus' >= Surplus]_vars

(* Collateral tokens, wherever they are.                                   *)
Tokens ==
  vaultToken + SumFunction(userAssets) + SumFunction(wallet) + SumFunction(collateral)

(* Nobody is paid what nobody had.  The stand-in books what it can of a    *)
(* withdrawal and pays all of it, so every instruction must itself ask for *)
(* no more than the position has; three ask for amounts that they compute  *)
(* from values, and a liquidation from the vault's price, not the market's:*)
(* it may ask for more while that one is the lower.  Only swaps spend      *)
(* tokens.                                                                 *)
TokensKept ==
  [][(\A p \in Positions :
        /\ ~LiquidateSwap(p) /\ ~AdminLiquidateSwap(p)
        /\ Liquidate(p) => vaultPrice >= reservePrice)
       => Tokens' = Tokens]_vars

(* The two thresholds do not chatter: a buffer just injected cannot be     *)
(* withdrawn, and a position just released cannot be injected again, until *)
(* a price, an amount or the clock has changed.                            *)
Hysteresis ==
  [][\A p \in Positions :
       /\ Inject(p) => Withdrawable(p)' = {}
       /\ WithdrawInjected(p) => Injectable(p)' = {}]_vars

(* No instruction of a borrower brings a position with debt within reach   *)
(* of Cushion's liquidation at the price of that instruction, buffer or    *)
(* not.  (Without debt there is nothing to liquidate.)                     *)
BorrowerKeepsMargin ==
  [][\A p \in Positions :
       (\/ \E amount \in CollateralAmounts : DecreaseCollateral(p, amount)
        \/ \E value \in DebtAmounts : BorrowAsset(p, value))
         => ~(debt[p] > 0 /\ Liquidatable(p))']_vars

(* The depositors' vault is the abstraction of the whole program: position *)
(* instructions appear to it as movements of idle liquidity and as nothing *)
(* else, so its theorems hold here.                                        *)
Vault == INSTANCE CushionVault WITH IdleAmounts <- Nat

VaultRefinement == Vault!VaultSpec

-----------------------------------------------------------------------------
(* What the documentation says, and the program does not do.               *)

(* vault.rs: total_managed_assets is the "source of truth for total assets *)
(* economically managed by the vault"; so with no buffer out and no USDC   *)
(* held, the assets it names are there.                                    *)
ManagedAssetsExist ==
  (\A p \in Positions : ~injected[p]) /\ vaultUsdc = 0 => vaultToken >= totalManagedAssets

(* liquidate.rs: "repay full USDC debt (u64::MAX = repay all)".            *)
LiquidateRepaysAll == [][\A p \in Positions : Liquidate(p) => debt'[p] = 0]_vars

(* README: the buffer is withdrawn "with interest paid to vault            *)
(* depositors"; so what comes back above the principal is theirs to redeem.*)
InterestIsTheDepositors ==
  [][\A p \in Positions :
       WithdrawInjected(p) /\ vaultToken' > vaultToken + injectedAmount[p]
         => totalManagedAssets' > totalManagedAssets]_vars

(* README: the borrower is charged "time-based interest while the buffer   *)
(* is deployed"; so while the clock stands still none is due.              *)
InterestNeedsTime ==
  [][\A p \in Positions :
       ElapsedBound = 0 /\ WithdrawInjected(p)
         => vaultToken' = vaultToken + injectedAmount[p]]_vars

(* README: "crossing the insuring threshold: Cushion injects collateral";  *)
(* so a solvent position past it, whatever its size, can be injected when  *)
(* the vault has a price and more idle liquidity than the position is      *)
(* worth.  The comparison is exact, with no division.                      *)
PastInsuring(p) ==
  debt[p] * WAD * 100 > DepositedValue(p) * LtvPct * InsuringMultiplier

UnsafeIsInsurable ==
  \A p \in Positions :
    /\ ~injected[p]
    /\ debt[p] <= DepositedValue(p)
    /\ PastInsuring(p)
    /\ vaultPrice = reservePrice
    /\ vaultToken > collateral[p]
    /\ totalManagedAssets > collateral[p]
    => Injectable(p) # {}

(* README: "returning below the withdrawing threshold: Cushion withdraws   *)
(* the buffer back to the vault"; so a buffer can be withdrawn whenever    *)
(* the position is safe even without twice the buffer.                     *)
RecoveredIsWithdrawable ==
  \A p \in Positions :
    /\ injectedAmount[p] > 0
    /\ SafeWithout(p, 2 * injectedAmount[p])
    => Withdrawable(p) # {}
=============================================================================
