------------------------------- MODULE Klend -------------------------------
(***************************************************************************)
(* The lending market Cushion's positions live in, as the repository's own *)
(* Kamino stand-in implements it (programs/klend_mock/src/lib.rs): SOL     *)
(* collateral and USDC debt, one obligation per position.                  *)
(*                                                                         *)
(* Every Cushion instruction refreshes the obligation before it reads it,  *)
(* so its four values are functions of the deposited amount, the debt and  *)
(* the price stored in the SOL reserve.  USDC is at par: a debt is kept as *)
(* its value, which is what the stand-in stores (borrowed_amount_sf).      *)
(***************************************************************************)
EXTENDS CheckedMath

CONSTANTS
  Positions,          \* loan positions, each with its own obligation
  Prices,             \* prices the SOL reserve may take, per token
  InitialPrice,
  LtvPct,             \* reserve.config.loan_to_value_pct
  LiquidationPct,     \* reserve.config.liquidation_threshold_pct
  UnitsPerToken       \* 10^mint_decimals of the SOL reserve

ASSUME MarketAssumption ==
  /\ Prices \subseteq Nat \ {0}
  /\ InitialPrice \in Prices
  /\ LtvPct \in 0 .. 100
  /\ LiquidationPct \in LtvPct .. 100
  /\ UnitsPerToken \in Nat \ {0}

VARIABLES
  collateral,    \* obligation.deposits[SOL].deposited_amount
  debt,          \* obligation.borrow_factor_adjusted_debt_value_sf
  reservePrice   \* SOL reserve.liquidity.market_price_sf

obligations == <<collateral, debt>>

KlendInit ==
  /\ collateral = [p \in Positions |-> 0]
  /\ debt = [p \in Positions |-> 0]
  /\ reservePrice = InitialPrice

KlendTypeOK ==
  /\ collateral \in [Positions -> Nat]
  /\ debt \in [Positions -> Nat]
  /\ reservePrice \in Prices

-----------------------------------------------------------------------------
(* recompute_obligation_values                                             *)

DepositedValue(p) == FloorDiv(collateral[p] * reservePrice, UnitsPerToken)
AllowedBorrow(p) == FloorDiv(DepositedValue(p) * LtvPct, 100)
UnhealthyBorrow(p) == FloorDiv(DepositedValue(p) * LiquidationPct, 100)

-----------------------------------------------------------------------------
(* Instructions, each for the part that touches the obligation.            *)

SaturatingSub(a, b) == IF b > a THEN 0 ELSE a - b

DepositCollateral(p, amount) ==
  collateral' = [collateral EXCEPT ![p] = @ + amount]

(* No check that the position stays healthy: the market pays, and books    *)
(* what it can.                                                            *)
WithdrawCollateral(p, amount) ==
  collateral' = [collateral EXCEPT ![p] = SaturatingSub(@, amount)]

WithinBorrowLimit(p, value) ==
  DepositedValue(p) = 0 \/ debt[p] + value <= UnhealthyBorrow(p)

BorrowLiquidity(p, value) ==
  /\ WithinBorrowLimit(p, value)
  /\ debt' = [debt EXCEPT ![p] = @ + value]

(* Mutant: apply_repay without saturation.                                 *)
RepayLiquidityUnsaturated(p, value) == debt' = [debt EXCEPT ![p] = @ - value]

RepayLiquidity(p, value) == debt' = [debt EXCEPT ![p] = SaturatingSub(@, value)]

(* refresh_reserve with a new oracle price, or set_mock_reserve_config.    *)
PriceMoves ==
  /\ reservePrice' \in Prices \ {reservePrice}
  /\ UNCHANGED obligations
=============================================================================
