----------------------------- MODULE PriceCycle -----------------------------
(***************************************************************************)
(* The price simulation (sdk/scripts/simulateMockPriceCycle.ts), which     *)
(* moves the stand-in's SOL price over the triggers of one position, for   *)
(* the keeper to act on.  It computes every price from what it reads of    *)
(* the obligation.  What comes of it is a question about the program at    *)
(* that price, asked here in every state the program can reach.            *)
(***************************************************************************)
EXTENDS Cushion

(* set_mock_reserve_config: the market, and with it the program, with the  *)
(* SOL reserve at a price.                                                 *)
MarketAt(price) == INSTANCE Klend WITH reservePrice <- price
ProgramAt(price) == INSTANCE Cushion WITH reservePrice <- price

(* refreshObligation and fetchRisk: values of the obligation as of a price *)
(* that the reserve had.                                                   *)
FetchRisk(p, price) ==
  [debt |-> debt[p],
   deposited |-> MarketAt(price)!DepositedValue(p),
   allowed |-> MarketAt(price)!AllowedBorrow(p),
   unhealthy |-> MarketAt(price)!UnhealthyBorrow(p)]

PartOf(amount, bps) == (amount * bps) \div 10000

MIN_PRICE_SF == WAD \div 1000

ClampPrice(next, price) ==
  LET top == PartOf(price, 200000)
  IN  IF next < MIN_PRICE_SF THEN MIN_PRICE_SF ELSE IF next > top THEN top ELSE next

-----------------------------------------------------------------------------
(* computeTargetPrice.                                                     *)

(* Deposit and limits are proportional to the price; this is where the     *)
(* debt is the given part of the limit.                                    *)
Boundary(price, value, limit, multiplier) ==
  (price * value * WAD) \div (limit * multiplier)

Epsilon(boundary) == boundary \div 1000 + 1

Above(boundary) == boundary + Epsilon(boundary)

(* Mutant: on the other side.                                              *)
BelowFromAbove(boundary) == boundary + Epsilon(boundary)

Below(boundary) ==
  IF boundary > Epsilon(boundary) THEN boundary - Epsilon(boundary) ELSE MIN_PRICE_SF

Multiplier(kind) ==
  CASE kind = "inject" -> InsuringMultiplier
    [] kind = "withdraw" -> WithdrawingMultiplier
    [] kind = "liquidate" -> LiquidationMultiplier

Limit(kind, risk) == IF kind = "liquidate" THEN risk.unhealthy ELSE risk.allowed

(* A limit of zero is refused.                                             *)
ComputeTargetPrice(kind, price, risk) ==
  {ClampPrice(IF kind = "withdraw" THEN Above(b) ELSE Below(b), price) :
     b \in {Boundary(price, risk.debt, limit, Multiplier(kind)) : limit \in {Limit(kind, risk)} \ {0}}}

-----------------------------------------------------------------------------
(* computeAdaptiveLiquidatePrice.                                          *)

LtvCap == PartOf(WAD, 8800)

UnstableLtv == PartOf(WAD, 9200)

(* Two points above what the program liquidates, within the cap.           *)
CappedTargetLtv(risk) ==
  LET ltv == (risk.unhealthy * LiquidationMultiplier) \div risk.deposited + PartOf(WAD, 200)
  IN  IF ltv > LtvCap THEN LtvCap ELSE ltv

Moved(price, risk) ==
  LET ltv == (risk.debt * WAD) \div risk.deposited
      target == CappedTargetLtv(risk)
      raw == (price * ltv) \div target
  IN  CASE risk.deposited <= risk.debt -> PartOf(price, 10500)
        [] risk.deposited > risk.debt /\ ltv >= UnstableLtv -> PartOf(price, 10300)
        [] ltv < UnstableLtv /\ ltv >= target -> PartOf(price, 9850)
        [] ltv < UnstableLtv /\ ltv < target ->
             IF raw < PartOf(price, 9400) THEN PartOf(price, 9400) ELSE raw

(* null, like the price it has, leaves the reserve alone.                  *)
AdaptiveLiquidatePrice(price, risk) ==
  IF risk.deposited = 0 \/ risk.debt = 0 \/ risk.unhealthy = 0
    THEN price
    ELSE ClampPrice(Moved(price, risk), price)

LiquidateMaxAdjustments == 12

(* Mutant: no refresh between the nudges.                                  *)
NudgedUnrefreshed(p, reserve) ==
  {[reserve EXCEPT !.price = AdaptiveLiquidatePrice(reserve.price, FetchRisk(p, reserve.before))]}

(* The refresh is sent and not confirmed: the values read after it are     *)
(* those of the price that was just set or those of the one before.  (By   *)
(* the next one, a wait later, it has landed.)                             *)
NudgedFrom(p, reserve) ==
  {[price |-> AdaptiveLiquidatePrice(reserve.price, FetchRisk(p, seen)), before |-> reserve.price] :
     seen \in {reserve.price, reserve.before}}

(* The stage sets its target when the obligation's values are those of the *)
(* price that it computed the target from.                                 *)
LiquidateStart(target) == [price |-> target, before |-> reservePrice]

(* The prices the liquidate stage may show the keeper from there on.  A    *)
(* reserve that has been there before has its nudges counted.              *)
LiquidatePrices(p, start) ==
  LET within[n \in 0 .. LiquidateMaxAdjustments] ==
        IF n = 0
          THEN [shown |-> {start}, last |-> {start}]
          ELSE LET before == within[n - 1]
                   next == UNION {NudgedFrom(p, reserve) : reserve \in before.last}
               IN  [shown |-> before.shown \cup next, last |-> next \ before.shown]
  IN  {reserve.price : reserve \in within[LiquidateMaxAdjustments].shown}

-----------------------------------------------------------------------------
(* What the prices are for.                                                *)

CanInject(p, price) ==
  /\ ProgramAt(price)!UnsafePosition(p)
  /\ AmountToInject(MarketAt(price)!DepositedValue(p), debt[p], price) # {}

CanLiquidate(p, price) ==
  /\ ProgramAt(price)!Liquidatable(p)
  /\ AmountToWithdrawAfterRepay(debt[p], MarketAt(price)!DepositedValue(p), price) # {}

(* A stage's price, once the refresh it sent has landed.                   *)
Targets(kind, p) == ComputeTargetPrice(kind, reservePrice, FetchRisk(p, reservePrice))

(* The stages promise nothing for a debt below one unit of USDC, where a   *)
(* price was clamped, and of a position whose ratios the program cannot    *)
(* compute at it (from 340 USD: run overflow).                             *)
Promised(p, price) ==
  /\ debt[p] > 0 /\ debt[p] >= WAD \div 1000000
  /\ MIN_PRICE_SF < price /\ price < PartOf(reservePrice, 200000)
  /\ MarketAt(price)!DepositedValue(p) * WAD <= U128_MAX

PromisedTargets(kind, p) == {price \in Targets(kind, p) : Promised(p, price)}

(* From wherever the position is, and whatever the divisions lose, each    *)
(* stage's price is on its side of the program's threshold and of no other *)
(* one's: at the inject stage's the position can be injected and is not    *)
(* liquidated instead; at the withdraw stage's it is not unsafe any more;  *)
(* at the liquidate stage's both transactions of a liquidation go through. *)
StageTargetsTrigger ==
  \A p \in Positions :
    /\ ~injected[p] => \A price \in PromisedTargets("inject", p) :
                         CanInject(p, price) /\ ~ProgramAt(price)!Liquidatable(p)
    /\ injected[p] => \A price \in PromisedTargets("withdraw", p) :
                        ~ProgramAt(price)!UnsafePosition(p)
    /\ injected[p] => \A price \in PromisedTargets("liquidate", p) : CanLiquidate(p, price)

(* Where a stage has to raise the price, nothing is promised of values     *)
(* from before: computed from those, the first nudge lifts a price that is *)
(* only just below the threshold over it.  There, the first refresh is     *)
(* taken to have landed.                                                   *)
PromisedStart(target) ==
  IF target <= reservePrice THEN LiquidateStart(target)
                            ELSE [LiquidateStart(target) EXCEPT !.before = target]

(* The nudges give the keeper as many chances as there are adjustments:    *)
(* none of them, though computed from values one price old, takes the      *)
(* position out of the reach of a liquidation or under water, where the    *)
(* second transaction's amount cannot be computed.  The price before the   *)
(* first may be any from which the stage comes down to its target, as it   *)
(* does after an inject stage.                                             *)
NudgesKeepLiquidatable ==
  \A p \in Positions :
    injected[p] =>
      \A target \in PromisedTargets("liquidate", p) :
        \A price \in LiquidatePrices(p, PromisedStart(target)) : CanLiquidate(p, price)
=============================================================================
