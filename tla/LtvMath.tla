------------------------------ MODULE LtvMath ------------------------------
(***************************************************************************)
(* Risk, buffer and interest arithmetic of the position instructions       *)
(* (programs/cushion/src/math/{health_factor,inject,withdraw,interest}.rs).*)
(*                                                                         *)
(* A loan-to-value ratio (LTV) is a number of WADs.  deposit, debt,        *)
(* allowed and unhealthy are the four values of a Kamino obligation, in    *)
(* USD and also in WADs; an amount is a number of token units.             *)
(***************************************************************************)
EXTENDS CheckedMath

CONSTANTS
  WAD,                         \* 10^18: one unit of value, price or ratio
  TOKEN_PRECISION,             \* 10^9: one token of the vault, interest index 1.0
  MintFactor,                  \* ten_pow(reserve.mint_decimals), units in a token
  InsuringMultiplier,          \* 0.85 WAD, of the allowed LTV
  WithdrawingMultiplier,       \* 0.7433 WAD, of the allowed LTV
  LiquidationMultiplier,       \* 0.93 WAD, of the unhealthy LTV
  BorrowBufferMultiplier,      \* 0.95 WAD, of the liquidation threshold
  LiquidationProfit,           \* 0.01 WAD: the vault's part of the equity
  Year                         \* clock ticks in a year

(* utils/consts.rs: the thresholds leave room between release, insurance,  *)
(* what a borrower may reach and what Cushion liquidates.                  *)
ASSUME ScaleAssumption ==
  /\ WAD \in 1 .. U128_MAX
  /\ TOKEN_PRECISION \in 1 .. U64_MAX
  /\ MintFactor \in 1 .. U64_MAX
  /\ Year \in Nat \ {0}

ASSUME ThresholdAssumption ==
  /\ WithdrawingMultiplier \in 0 .. WAD
  /\ InsuringMultiplier \in WithdrawingMultiplier .. WAD
  /\ LiquidationMultiplier \in 0 .. WAD
  /\ BorrowBufferMultiplier \in 0 .. WAD
  /\ LiquidationProfit \in 0 .. WAD

-----------------------------------------------------------------------------
(* health_factor.rs                                                        *)

(* get_market_value_from_reserve                                           *)
MarketValue(amount, price) == MulDiv(amount, price, MintFactor)

(* get_amount_from_market_value_from_reserve                               *)
AmountOfValue(value, price) == UNION {U64(a) : a \in MulDiv(value, MintFactor, price)}

CurrentLtv(debt, deposit) ==
  IF deposit = 0 THEN {0} ELSE MulDiv(debt, WAD, deposit)

(* Mutant: whatever is taken leaves nothing, and nothing has no LTV.       *)
LtvAfterRemovingSaturated(value, deposit, debt) ==
  IF value >= deposit THEN {0} ELSE MulDiv(debt, WAD, deposit - value)

(* compute_potential_ltv for a decrease of the collateral ...              *)
LtvAfterRemoving(value, deposit, debt) ==
  IF value > deposit THEN {} ELSE MulDiv(debt, WAD, deposit - value)

(* ... and for an increase of the debt.                                    *)
LtvAfterBorrowing(value, deposit, debt) ==
  UNION {MulDiv(d, WAD, deposit) : d \in U128(debt + value)}

Scaled(ltvs, multiplier) == UNION {MulDiv(ltv, multiplier, WAD) : ltv \in ltvs}

InsuringLtv(allowed, deposit) ==
  Scaled(MulDiv(allowed, WAD, deposit), InsuringMultiplier)

WithdrawingLtv(allowed, deposit) ==
  Scaled(CurrentLtv(allowed, deposit), WithdrawingMultiplier)

LiquidationLtv(unhealthy, deposit) ==
  Scaled(MulDiv(unhealthy, WAD, deposit), LiquidationMultiplier)

(* The LTV a borrower's own instruction may leave behind.                  *)
MaxSafeLtvUnbuffered(unhealthy, deposit) ==  \* mutant
  MulDiv(unhealthy, WAD, deposit)

MaxSafeLtvTwiceBuffered(unhealthy, deposit) ==  \* mutant
  Scaled(Scaled(LiquidationLtv(unhealthy, deposit), BorrowBufferMultiplier), BorrowBufferMultiplier)

MaxSafeLtv(unhealthy, deposit) ==
  Scaled(LiquidationLtv(unhealthy, deposit), BorrowBufferMultiplier)

-----------------------------------------------------------------------------
(* inject.rs: (collateral - debt) * (debt / collateral) * 0.5, in tokens.  *)

ValueToInject(deposit, debt) ==
  IF debt > deposit
    THEN {}
    ELSE UNION {MulDiv(deposit - debt, ratio, 2 * WAD) : ratio \in MulDiv(debt, WAD, deposit)}

AmountToInject(deposit, debt, price) ==
  UNION {U64(amount) : amount \in
           UNION {MulDiv(value, TOKEN_PRECISION, price) : value \in ValueToInject(deposit, debt)}}

-----------------------------------------------------------------------------
(* interest.rs: the index grows by the rate once per call, and by a power  *)
(* of itself when at least a year went by since the last call.             *)

Annualized(elapsed) == elapsed \div Year

(* checked_pow: where the last power fits, all before it do.               *)
Power(base, exponent) ==
  LET pow[n \in 0 .. exponent] == IF n = 0 THEN 1 ELSE base * pow[n - 1]
  IN  pow[exponent]

NextIndex(index, rate, elapsed) ==
  LET grown == {g \in {(index * (rate + TOKEN_PRECISION)) \div TOKEN_PRECISION} :
                  index * (rate + TOKEN_PRECISION) <= U64_MAX}
      years == Annualized(elapsed)
  IN  IF years = 0 THEN grown ELSE UNION {U64(Power(g, years)) : g \in grown}

-----------------------------------------------------------------------------
(* withdraw.rs                                                             *)

(* Mutant: the quotient of the indices upside down.                        *)
AmountToWithdrawInverted(current, stored, injected) ==
  UNION {U64((q * injected) \div TOKEN_PRECISION) : q \in
           {r \in {(stored * TOKEN_PRECISION) \div current} : stored * TOKEN_PRECISION <= U64_MAX}}

(* Principal and interest to return of an injected amount.                 *)
AmountToWithdraw(current, stored, injected) ==
  IF stored = 0
    THEN {}
    ELSE UNION {U64((q * injected) \div TOKEN_PRECISION) : q \in
                  {r \in {(current * TOKEN_PRECISION) \div stored} :
                     current * TOKEN_PRECISION <= U64_MAX}}

(* Collateral to take for a debt repaid, and the profit on the equity.     *)
AmountToWithdrawAfterRepay(debt, deposit, price) ==
  IF debt > deposit
    THEN {}
    ELSE UNION {U64(amount) : amount \in
           UNION {MulDiv(debt + profit, TOKEN_PRECISION, price) : profit \in
                    MulDiv(deposit - debt, LiquidationProfit, WAD)}}
=============================================================================
