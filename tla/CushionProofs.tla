--------------------------- MODULE CushionProofs ---------------------------
(***************************************************************************)
(* Safety of the whole program for every set of positions and users, every *)
(* price, amount, threshold and width.                                     *)
(*                                                                         *)
(* The inductive invariant is CushionInv: the vault's own invariant, the   *)
(* types of the positions, and for each position that its buffer is zero   *)
(* while it is not injected and is covered by its collateral.  The vault's *)
(* theorems carry over because a position instruction moves idle tokens    *)
(* and leaves the ledger alone.  Then what every buffer that returns       *)
(* brings back, what backs the depositors, and what the program's          *)
(* thresholds are apart, which are statements about single steps.          *)
(***************************************************************************)
EXTENDS Cushion, CushionVaultProofs

Buffer(p) ==
  /\ ~injected[p] => injectedAmount[p] = 0
  /\ collateral[p] >= injectedAmount[p]

PositionInv ==
  /\ collateral \in [Positions -> Nat]
  /\ injected \in [Positions -> BOOLEAN]
  /\ injectedAmount \in [Positions -> Nat]
  /\ \A p \in Positions : Buffer(p)

MarketInv ==
  /\ debt \in [Positions -> Nat]
  /\ wallet \in [Positions -> Nat]
  /\ vaultUsdc \in Nat
  /\ reservePrice \in Prices
  /\ vaultPrice \in Prices \cup {0}
  /\ accumulatedInterest \in 0 .. U64_MAX
  /\ sinceInterest \in Nat

CushionInv == VaultInv /\ PositionInv /\ MarketInv

-----------------------------------------------------------------------------
(* Powers.                                                                 *)

Powers(base, pow, exponent) ==
  pow = [n \in 0 .. exponent |-> IF n = 0 THEN 1 ELSE base * pow[n - 1]]

LEMMA PowerIsChosen ==
  ASSUME NEW base, NEW e
  PROVE  Power(base, e) = (CHOOSE pow : Powers(base, pow, e))[e]
BY DEF Power, Powers

LEMMA PowersExist ==
  ASSUME NEW base \in Nat, NEW e \in Nat
  PROVE  \E pow \in [0 .. e -> Nat] : Powers(base, pow, e)
<1> DEFINE Bad == {n \in Nat : ~ \E pow \in [0 .. n -> Nat] : Powers(base, pow, n)}
<1> SUFFICES ASSUME Bad # {}
             PROVE  FALSE
  OBVIOUS
<1>1. PICK n \in Bad : \A k \in Bad : n <= k
  BY LeastMember
<1>2. CASE n = 0
  <2>1. [i \in 0 .. 0 |-> 1] \in [0 .. 0 -> Nat] /\ Powers(base, [i \in 0 .. 0 |-> 1], 0)
    BY DEF Powers
  <2> QED
    BY <1>1, <1>2, <2>1
<1>3. CASE n # 0
  <2>1. n - 1 \in Nat /\ n - 1 \notin Bad
    BY <1>1, <1>3
  <2>2. PICK pow \in [0 .. n - 1 -> Nat] : Powers(base, pow, n - 1)
    BY <2>1
  <2> DEFINE next == [i \in 0 .. n |-> IF i = n THEN base * pow[n - 1] ELSE pow[i]]
  <2>3. \A i \in 0 .. n : i # n => i \in 0 .. n - 1
    BY <1>3
  <2>4. n - 1 \in 0 .. n - 1
    BY <2>1
  <2>5. base * pow[n - 1] \in Nat
    BY <2>4
  <2>6. next \in [0 .. n -> Nat]
    BY <2>3, <2>5
  <2>7. ASSUME NEW i \in 0 .. n
        PROVE  next[i] = IF i = 0 THEN 1 ELSE base * next[i - 1]
    BY <1>3, <2>1, <2>2, <2>3 DEF Powers
  <2> HIDE DEF next
  <2>8. Powers(base, next, n)
    BY <2>6, <2>7 DEF Powers
  <2> QED
    BY <1>1, <2>6, <2>8
<1> QED
  BY <1>2, <1>3

(* A power is no less than its base.                                       *)
LEMMA PowerGrows ==
  ASSUME NEW base \in Nat \ {0}, NEW e \in Nat \ {0}
  PROVE  Power(base, e) \in Nat /\ Power(base, e) >= base
<1> DEFINE pow == CHOOSE pow : Powers(base, pow, e)
<1>1. Powers(base, pow, e)
  BY PowersExist
<1>2. Power(base, e) = pow[e]
  BY PowerIsChosen
<1> HIDE DEF pow
<1> DEFINE Bad == {n \in 1 .. e : ~(pow[n] \in Nat /\ pow[n] >= base)}
<1>3. SUFFICES ASSUME Bad # {}
             PROVE  FALSE
  BY <1>2
<1>a. Bad \in SUBSET Nat
  OBVIOUS
<1>b. \A S \in SUBSET Nat : S # {} => \E n \in S : \A k \in S : n <= k
  BY LeastMember
<1> HIDE DEF Bad
<1>4. PICK n \in Bad : \A k \in Bad : n <= k
  BY <1>3, <1>a, <1>b
<1> USE DEF Bad
<1>5. n \in 0 .. e /\ pow[n] = base * pow[n - 1]
  BY <1>1, <1>4 DEF Powers
<1>6. CASE n = 1
  <2>1. pow[0] = 1
    BY <1>1 DEF Powers
  <2> QED
    BY <1>4, <1>5, <1>6, <2>1
<1>7. CASE n # 1
  <2>1. n - 1 \in 1 .. e /\ n - 1 \notin Bad
    BY <1>4, <1>7
  <2>2. pow[n - 1] \in Nat /\ pow[n - 1] >= base
    BY <2>1
  <2>3. \A q \in Nat : q >= base => base * q \in Nat /\ base * q >= q
    OBVIOUS
  <2> QED
    BY <1>4, <1>5, <2>2, <2>3
<1> QED
  BY <1>6, <1>7

-----------------------------------------------------------------------------
(* What the arithmetic returns.                                            *)

LEMMA FitsInU64 == \A n : \A m \in U64(n) : m \in 0 .. U64_MAX
  BY DEF U64

LEMMA TokenAmounts ==
  /\ \A deposit, d, price : \A a \in AmountToInject(deposit, d, price) : a \in 0 .. U64_MAX
  /\ \A current, stored, i : \A a \in AmountToWithdraw(current, stored, i) : a \in 0 .. U64_MAX
  /\ \A d, deposit, price : \A a \in AmountToWithdrawAfterRepay(d, deposit, price) :
       a \in 0 .. U64_MAX
  /\ \A value, price : \A a \in AmountOfValue(value, price) : a \in 0 .. U64_MAX
<1>1. \A deposit, d, price : \A a \in AmountToInject(deposit, d, price) : a \in 0 .. U64_MAX
  BY FitsInU64 DEF AmountToInject
<1>2. \A current, stored, i : \A a \in AmountToWithdraw(current, stored, i) : a \in 0 .. U64_MAX
  BY FitsInU64 DEF AmountToWithdraw
<1>3. \A d, deposit, price : \A a \in AmountToWithdrawAfterRepay(d, deposit, price) :
        a \in 0 .. U64_MAX
  BY FitsInU64 DEF AmountToWithdrawAfterRepay
<1>4. \A value, price : \A a \in AmountOfValue(value, price) : a \in 0 .. U64_MAX
  BY FitsInU64 DEF AmountOfValue
<1>5. QED
  BY <1>1, <1>2, <1>3, <1>4

(* The next interest index is a u64 whatever the rate and the power.       *)
LEMMA IndexFits ==
  ASSUME accumulatedInterest \in 0 .. U64_MAX, sinceInterest \in Nat
  PROVE  \A index \in CurrentIndex : index \in 0 .. U64_MAX
<1> DEFINE product == accumulatedInterest * (InterestRate + TOKEN_PRECISION)
           grown == {g \in {product \div TOKEN_PRECISION} : product <= U64_MAX}
           years == Annualized(sinceInterest)
<1>1. \A g \in grown : g \in 0 .. U64_MAX
  <2>1. /\ product \in Nat
        /\ TOKEN_PRECISION \in Nat \ {0}
    BY CushionAssumption, ScaleAssumption, WidthAssumption
  <2>2. \A n \in Nat, d \in Nat \ {0} : n \div d \in 0 .. n
    OBVIOUS
  <2>3. product \div TOKEN_PRECISION \in 0 .. product
    BY <2>1, <2>2
  <2>4. QED
    BY <2>1, <2>3, WidthAssumption
<1>2. CurrentIndex = IF years = 0 THEN grown ELSE UNION {U64(Power(g, years)) : g \in grown}
  BY DEF CurrentIndex, NextIndex
<1>3. \A index \in UNION {U64(Power(g, years)) : g \in grown} : index \in 0 .. U64_MAX
  BY FitsInU64
<1>4. QED
  BY <1>1, <1>2, <1>3

-----------------------------------------------------------------------------
(* The vault's side of a step.                                             *)

(* Idle tokens come and go without touching the ledger.                    *)
IdleMoves == UNCHANGED ledger /\ vaultToken' \in Nat

LEMMA LedgerAlone ==
  ASSUME VaultInv, IdleMoves
  PROVE  VaultInv' /\ PriceDoesNotFall
<1>1. VaultInv'
  BY DEF IdleMoves, ledger, VaultInv, VaultTypeOK, SharePriceCovered, SharesAddUp
<1>2. PriceDoesNotFall
  <2>1. /\ totalManagedAssets' = totalManagedAssets
        /\ shareSupply' = shareSupply
    BY DEF IdleMoves, ledger
  <2>2. /\ totalManagedAssets + VirtualAssets \in Nat
        /\ shareSupply + VirtualShares \in Nat
    BY VirtualAssumption, WidthAssumption DEF VaultInv, VaultTypeOK
  <2>3. \A a, s \in Nat : a * s >= a * s
    OBVIOUS
  <2>4. QED
    BY <2>1, <2>2, <2>3 DEF PriceDoesNotFall
<1>3. QED
  BY <1>1, <1>2

LEMMA DepositorsTrade ==
  ASSUME VaultInv, DepositorActs
  PROVE  VaultInv' /\ PriceDoesNotFall
BY StepPreserves DEF DepositorActs, VaultNext

LEMMA Leaves ==
  ASSUME VaultInv, NEW amount \in 0 .. U64_MAX, FromVault(amount)
  PROVE  IdleMoves
BY WidthAssumption DEF VaultInv, VaultTypeOK, FromVault, IdleMoves

LEMMA Returns ==
  ASSUME VaultInv, NEW amount \in 0 .. U64_MAX, ToVault(amount)
  PROVE  IdleMoves
BY WidthAssumption DEF VaultInv, VaultTypeOK, ToVault, IdleMoves

LEMMA NothingMoves ==
  ASSUME VaultInv, UNCHANGED vaultVars
  PROVE  IdleMoves
BY DEF VaultInv, VaultTypeOK, vaultVars, ledger, IdleMoves

-----------------------------------------------------------------------------
(* Steps of a position: one lemma per action.                              *)

LEMMA InjectKeeps ==
  ASSUME CushionInv, NEW p \in Positions, Inject(p)
  PROVE  IdleMoves /\ PositionInv' /\ MarketInv'
<1>1. PICK amount \in Injectable(p) :
        /\ injected' = [injected EXCEPT ![p] = TRUE]
        /\ injectedAmount' = [injectedAmount EXCEPT ![p] = @ + amount]
        /\ FromVault(amount)
        /\ DepositCollateral(p, amount)
  BY DEF Inject
<1>2. amount \in 0 .. U64_MAX /\ ~injected[p]
  BY TokenAmounts DEF Injectable
<1>3. IdleMoves
  BY <1>1, <1>2, Leaves DEF CushionInv
<1>4. PositionInv'
  <2>1. amount \in Nat
    BY <1>2, WidthAssumption
  <2>2. collateral' = [collateral EXCEPT ![p] = @ + amount]
    BY <1>1 DEF DepositCollateral
  <2>3. injectedAmount[p] = 0
    BY <1>2 DEF CushionInv, PositionInv, Buffer
  <2>4. /\ collateral' \in [Positions -> Nat]
        /\ injected' \in [Positions -> BOOLEAN]
        /\ injectedAmount' \in [Positions -> Nat]
    BY <1>1, <2>1, <2>2 DEF CushionInv, PositionInv
  <2>5. ASSUME NEW q \in Positions
        PROVE  Buffer(q)'
    BY <1>1, <2>1, <2>2, <2>3 DEF CushionInv, PositionInv, Buffer
  <2>6. QED
    BY <2>4, <2>5 DEF PositionInv
<1>5. MarketInv'
  BY DEF Inject, CushionInv, MarketInv, prices, interest
<1>6. QED
  BY <1>3, <1>4, <1>5

(* Release and withdrawal: what withdrawal and liquidation share.          *)
LEMMA ReleaseKeeps ==
  ASSUME CushionInv, NEW p \in Positions, NEW amount \in 0 .. U64_MAX,
         Release(p), WithdrawCollateral(p, amount)
  PROVE  PositionInv'
<1>1. /\ collateral' = [collateral EXCEPT ![p] = SaturatingSub(@, amount)]
      /\ injected' = [injected EXCEPT ![p] = FALSE]
      /\ injectedAmount' = [injectedAmount EXCEPT ![p] = 0]
  BY DEF Release, WithdrawCollateral
<1>2. SaturatingSub(collateral[p], amount) \in Nat
  BY WidthAssumption DEF CushionInv, PositionInv, SaturatingSub
<1>3. /\ collateral' \in [Positions -> Nat]
      /\ injected' \in [Positions -> BOOLEAN]
      /\ injectedAmount' \in [Positions -> Nat]
  BY <1>1, <1>2 DEF CushionInv, PositionInv
<1>4. ASSUME NEW q \in Positions
      PROVE  Buffer(q)'
  <2>1. CASE q = p
    BY <1>1, <1>2, <2>1 DEF CushionInv, PositionInv, Buffer
  <2>2. CASE q # p
    BY <1>1, <2>2 DEF CushionInv, PositionInv, Buffer
  <2>3. QED
    BY <2>1, <2>2
<1>5. QED
  BY <1>3, <1>4 DEF PositionInv

LEMMA WithdrawInjectedKeeps ==
  ASSUME CushionInv, NEW p \in Positions, WithdrawInjected(p)
  PROVE  IdleMoves /\ PositionInv' /\ MarketInv'
<1>1. PICK amount \in Withdrawable(p), index \in CurrentIndex :
        /\ accumulatedInterest' = index
        /\ sinceInterest' = 0
        /\ Release(p)
        /\ WithdrawCollateral(p, amount)
        /\ ToVault(amount)
  BY DEF WithdrawInjected
<1>2. amount \in 0 .. U64_MAX
  BY TokenAmounts DEF Withdrawable
<1>3. IdleMoves
  BY <1>1, <1>2, Returns DEF CushionInv
<1>4. PositionInv'
  BY <1>1, <1>2, ReleaseKeeps
<1>5. index \in 0 .. U64_MAX
  BY IndexFits DEF CushionInv, MarketInv
<1>6. MarketInv'
  BY <1>1, <1>5 DEF WithdrawInjected, CushionInv, MarketInv, prices
<1>7. QED
  BY <1>3, <1>4, <1>6

(* What the swap gives up is a token amount, and its USDC a value.         *)
LEMMA SwapMoves ==
  ASSUME CushionInv, NEW p \in Positions, SwapForDebt(p)
  PROVE  IdleMoves /\ vaultUsdc' \in Nat
<1>1. PICK exact \in AmountOfValue(debt[p], reservePrice), surplus \in SwapSurplus :
        /\ exact * 101 <= U64_MAX
        /\ FromVault((exact * 101) \div 100)
        /\ vaultUsdc' = vaultUsdc + debt[p] + surplus
  BY DEF SwapForDebt, SwapWsolToUsdc
<1>2. exact \in Nat
  BY TokenAmounts, WidthAssumption
<1>3. (exact * 101) \div 100 \in 0 .. U64_MAX
  BY <1>1, <1>2, WidthAssumption
<1>4. IdleMoves
  BY <1>1, <1>3, Leaves DEF CushionInv
<1>5. surplus \in Nat /\ debt[p] \in Nat /\ vaultUsdc \in Nat
  BY CushionAssumption DEF CushionInv, MarketInv
<1>6. QED
  BY <1>1, <1>4, <1>5

LEMMA LiquidateSwapKeeps ==
  ASSUME CushionInv, NEW p \in Positions, LiquidateSwap(p)
  PROVE  IdleMoves /\ PositionInv' /\ MarketInv'
<1>1. IdleMoves /\ vaultUsdc' \in Nat
  BY SwapMoves DEF LiquidateSwap
<1>2. PositionInv'
  BY DEF LiquidateSwap, CushionInv, PositionInv, Buffer, obligations, insurance
<1>3. MarketInv'
  BY <1>1 DEF LiquidateSwap, CushionInv, MarketInv, obligations, prices, interest
<1>4. QED
  BY <1>1, <1>2, <1>3

LEMMA AdminLiquidateSwapKeeps ==
  ASSUME CushionInv, NEW p \in Positions, AdminLiquidateSwap(p)
  PROVE  IdleMoves /\ PositionInv' /\ MarketInv'
<1>1. IdleMoves /\ vaultUsdc' \in Nat
  BY SwapMoves DEF AdminLiquidateSwap
<1>2. PositionInv'
  <2>1. /\ injected' = [injected EXCEPT ![p] = TRUE]
        /\ injectedAmount' = [injectedAmount EXCEPT ![p] = 0]
        /\ collateral' = collateral
    BY DEF AdminLiquidateSwap, obligations
  <2>2. ASSUME NEW q \in Positions
        PROVE  Buffer(q)'
    BY <2>1 DEF CushionInv, PositionInv, Buffer
  <2>3. QED
    BY <2>1, <2>2 DEF CushionInv, PositionInv
<1>3. MarketInv'
  BY <1>1 DEF AdminLiquidateSwap, CushionInv, MarketInv, obligations, prices, interest
<1>4. QED
  BY <1>1, <1>2, <1>3

LEMMA LiquidateKeeps ==
  ASSUME CushionInv, NEW p \in Positions, Liquidate(p)
  PROVE  IdleMoves /\ PositionInv' /\ MarketInv'
<1>1. PICK amount \in AmountToWithdrawAfterRepay(debt[p], DepositedValue(p), vaultPrice) :
        /\ Release(p)
        /\ RepayLiquidity(p, vaultUsdc)
        /\ vaultUsdc' = 0
        /\ WithdrawCollateral(p, amount)
        /\ ToVault(amount)
  BY DEF Liquidate
<1>2. amount \in 0 .. U64_MAX
  BY TokenAmounts
<1>3. IdleMoves
  BY <1>1, <1>2, Returns DEF CushionInv
<1>4. PositionInv'
  BY <1>1, <1>2, ReleaseKeeps
<1>5. debt' \in [Positions -> Nat]
  BY <1>1 DEF RepayLiquidity, SaturatingSub, CushionInv, MarketInv
<1>6. MarketInv'
  BY <1>1, <1>5 DEF Liquidate, CushionInv, MarketInv, prices, interest
<1>7. QED
  BY <1>3, <1>4, <1>6

LEMMA IncreaseCollateralKeeps ==
  ASSUME CushionInv, NEW p \in Positions, NEW amount \in Nat,
         IncreaseCollateral(p, amount)
  PROVE  IdleMoves /\ PositionInv' /\ MarketInv'
<1>1. IdleMoves
  BY NothingMoves DEF IncreaseCollateral, CushionInv
<1>2. PositionInv'
  <2>1. collateral' = [collateral EXCEPT ![p] = @ + amount]
    BY DEF IncreaseCollateral, DepositCollateral
  <2>2. injected' = injected /\ injectedAmount' = injectedAmount
    BY DEF IncreaseCollateral, insurance
  <2>3. QED
    BY <2>1, <2>2 DEF CushionInv, PositionInv, Buffer
<1>3. MarketInv'
  BY DEF IncreaseCollateral, CushionInv, MarketInv, prices, interest
<1>4. QED
  BY <1>1, <1>2, <1>3

(* The one place where the borrower takes collateral: not under a buffer.  *)
LEMMA DecreaseCollateralKeeps ==
  ASSUME CushionInv, NEW p \in Positions, NEW amount \in Nat,
         DecreaseCollateral(p, amount)
  PROVE  IdleMoves /\ PositionInv' /\ MarketInv'
<1>1. IdleMoves
  BY NothingMoves DEF DecreaseCollateral, CushionInv
<1>2. PositionInv'
  <2>1. collateral' = [collateral EXCEPT ![p] = SaturatingSub(@, amount)]
    BY DEF DecreaseCollateral, WithdrawCollateral
  <2>2. injected' = injected /\ injectedAmount' = injectedAmount
    BY DEF DecreaseCollateral, insurance
  <2>3. injectedAmount[p] = 0
    BY DEF DecreaseCollateral, CollateralIsOwn, CushionInv, PositionInv, Buffer
  <2>4. SaturatingSub(collateral[p], amount) \in Nat
    BY DEF SaturatingSub, CushionInv, PositionInv
  <2>5. QED
    BY <2>1, <2>2, <2>3, <2>4 DEF CushionInv, PositionInv, Buffer
<1>3. MarketInv'
  BY DEF DecreaseCollateral, CushionInv, MarketInv, prices, interest
<1>4. QED
  BY <1>1, <1>2, <1>3

LEMMA DebtKeeps ==
  ASSUME CushionInv, NEW p \in Positions, NEW value \in Nat,
         BorrowAsset(p, value) \/ RepayDebt(p, value)
  PROVE  IdleMoves /\ PositionInv' /\ MarketInv'
<1>1. IdleMoves
  BY NothingMoves DEF BorrowAsset, RepayDebt, CushionInv
<1>2. PositionInv'
  BY DEF BorrowAsset, RepayDebt, CushionInv, PositionInv, Buffer, insurance
<1>3. debt' \in [Positions -> Nat]
  BY DEF BorrowAsset, RepayDebt, BorrowLiquidity, RepayLiquidity, SaturatingSub,
              CushionInv, MarketInv
<1>4. MarketInv'
  BY <1>3 DEF BorrowAsset, RepayDebt, CushionInv, MarketInv, prices, interest
<1>5. QED
  BY <1>1, <1>2, <1>4

(* Prices, time and stuttering.                                            *)
LEMMA OutsideKeeps ==
  ASSUME CushionInv, UpdateMarketPrice \/ MarketMoves \/ ClockTicks \/ UNCHANGED vars
  PROVE  IdleMoves /\ PositionInv' /\ MarketInv'
<1>1. IdleMoves
  BY NothingMoves DEF UpdateMarketPrice, MarketMoves, ClockTicks, vars, CushionInv
<1>2. PositionInv'
  BY DEF UpdateMarketPrice, MarketMoves, PriceMoves, ClockTicks, vars, CushionInv, PositionInv,
         Buffer, insurance, obligations
<1>3. MarketInv'
  BY DEF UpdateMarketPrice, MarketMoves, PriceMoves, ClockTicks, vars, CushionInv, MarketInv,
         obligations, prices, interest
<1>4. QED
  BY <1>1, <1>2, <1>3

-----------------------------------------------------------------------------
(* The whole program.                                                      *)

LEMMA CushionInitEstablishes == CushionInit => CushionInv
<1> SUFFICES ASSUME CushionInit
             PROVE  CushionInv
  OBVIOUS
<1>1. VaultInv
  BY InitEstablishes DEF CushionInit
<1>2. PositionInv
  BY DEF CushionInit, KlendInit, PositionInv, Buffer
<1>3. MarketInv
  BY CushionAssumption, MarketAssumption, ScaleAssumption, WidthAssumption
     DEF CushionInit, KlendInit, MarketInv
<1>4. QED
  BY <1>1, <1>2, <1>3 DEF CushionInv

(* Every step is a trade of the depositors' or moves idle tokens at most.  *)
LEMMA CushionStep ==
  ASSUME CushionInv, [CushionNext]_vars
  PROVE  /\ DepositorActs \/ IdleMoves
         /\ PositionInv'
         /\ MarketInv'
<1>1. CASE DepositorActs
  <2>1. PositionInv'
    BY <1>1 DEF DepositorActs, CushionInv, PositionInv, Buffer, insurance, obligations
  <2>2. MarketInv'
    BY <1>1 DEF DepositorActs, CushionInv, MarketInv, obligations, prices, interest
  <2>3. QED
    BY <1>1, <2>1, <2>2
<1>2. ASSUME NEW p \in Positions, Inject(p) \/ WithdrawInjected(p)
      PROVE  IdleMoves /\ PositionInv' /\ MarketInv'
  BY <1>2, InjectKeeps, WithdrawInjectedKeeps
<1>3. ASSUME NEW p \in Positions, LiquidateSwap(p) \/ AdminLiquidateSwap(p) \/ Liquidate(p)
      PROVE  IdleMoves /\ PositionInv' /\ MarketInv'
  BY <1>3, LiquidateSwapKeeps, AdminLiquidateSwapKeeps, LiquidateKeeps
<1>4. ASSUME NEW p \in Positions, NEW amount \in CollateralAmounts,
             IncreaseCollateral(p, amount) \/ DecreaseCollateral(p, amount)
      PROVE  IdleMoves /\ PositionInv' /\ MarketInv'
  BY <1>4, CushionAssumption, WidthAssumption, IncreaseCollateralKeeps, DecreaseCollateralKeeps
<1>5. ASSUME NEW p \in Positions, NEW value \in DebtAmounts,
             BorrowAsset(p, value) \/ RepayDebt(p, value)
      PROVE  IdleMoves /\ PositionInv' /\ MarketInv'
  BY <1>5, CushionAssumption, WidthAssumption, DebtKeeps
<1>6. CASE UpdateMarketPrice \/ MarketMoves \/ ClockTicks \/ UNCHANGED vars
  BY <1>6, OutsideKeeps
<1>7. QED
  BY <1>1, <1>2, <1>3, <1>4, <1>5, <1>6
     DEF CushionNext, BufferInstruction, Liquidation, BorrowerActs

LEMMA CushionStepPreserves ==
  ASSUME CushionInv, [CushionNext]_vars
  PROVE  CushionInv' /\ PriceDoesNotFall
<1>1. VaultInv' /\ PriceDoesNotFall
  BY CushionStep, LedgerAlone, DepositorsTrade DEF CushionInv
<1>2. QED
  BY <1>1, CushionStep DEF CushionInv

(* The inductive invariant holds in every state of the program.            *)
THEOREM CushionInvariant == CushionSpec => []CushionInv
<1>1. CushionInit => CushionInv
  BY CushionInitEstablishes
<1>2. CushionInv /\ [CushionNext]_vars => CushionInv'
  BY CushionStepPreserves
<1>3. QED
  BY <1>1, <1>2, PTL DEF CushionSpec

(* Accounts and amounts of the whole program keep their types and widths.  *)
THEOREM CushionTypes == CushionSpec => []CushionTypeOK
<1>1. CushionInv => CushionTypeOK
  BY DEF CushionInv, VaultInv, PositionInv, MarketInv, CushionTypeOK, KlendTypeOK
<1>2. QED
  BY <1>1, CushionInvariant, PTL

(* The buffer stays in place: a borrower's instructions, prices and others'*)
(* transactions never leave an insured position with less collateral than  *)
(* the vault lent it.                                                      *)
THEOREM BufferStaysInPlace == CushionSpec => []BufferInPlace
<1>1. CushionInv => BufferInPlace
  BY DEF CushionInv, PositionInv, Buffer, BufferInPlace
<1>2. QED
  BY <1>1, CushionInvariant, PTL

(* No instruction on a position, and no price, dilutes the depositors: the *)
(* price of a share falls under no step of the whole program.              *)
THEOREM NobodyIsDilutedByPositions == CushionSpec => [][PriceDoesNotFall]_vars
<1>1. CushionInv /\ [CushionNext]_vars => PriceDoesNotFall
  BY CushionStepPreserves
<1>2. QED
  BY <1>1, CushionInvariant, PTL DEF CushionSpec

(* Trades and movements of idle tokens are the steps of CushionVault.      *)
LEMMA VaultSteps ==
  ASSUME DepositorActs \/ IdleMoves
  PROVE  Vault!VaultNext
<1>1. CASE IdleMoves
  BY <1>1 DEF IdleMoves, ledger, Vault!VaultNext, Vault!MoveIdle
<1>2. CASE DepositorActs
  <2>1. CASE BurnOwnShares
    BY <2>1 DEF BurnOwnShares, Burn, Vault!VaultNext, Vault!BurnOwnShares, Vault!Burn
  <2>2. CASE LiquidityInstruction
    <3>1. \A x, a, q :
            /\ Vault!SharesFloor(x, a, q) = SharesFloor(x, a, q)
            /\ Vault!AssetsFloor(x, a, q) = AssetsFloor(x, a, q)
            /\ Vault!AssetsCeil(x, a, q) = AssetsCeil(x, a, q)
            /\ Vault!SharesCeil(x, a, q) = SharesCeil(x, a, q)
      BY DEF SharesFloor, AssetsFloor, AssetsCeil, SharesCeil,
             Degenerate, OneToOne, ConvertFloor, ConvertCeil, FloorDiv, CeilDiv,
             Vault!SharesFloor, Vault!AssetsFloor, Vault!AssetsCeil, Vault!SharesCeil,
             Vault!Degenerate, Vault!OneToOne, Vault!ConvertFloor, Vault!ConvertCeil,
             Vault!FloorDiv, Vault!CeilDiv
    <3>2. \A x :
            /\ Vault!PreviewDeposit(x) = PreviewDeposit(x)
            /\ Vault!PreviewMint(x) = PreviewMint(x)
            /\ Vault!PreviewRedeem(x) = PreviewRedeem(x)
            /\ Vault!PreviewWithdraw(x) = PreviewWithdraw(x)
      BY <3>1 DEF PreviewDeposit, PreviewMint, PreviewRedeem, PreviewWithdraw,
             Vault!PreviewDeposit, Vault!PreviewMint, Vault!PreviewRedeem, Vault!PreviewWithdraw
    <3>3. \A u \in Users, amount \in Amounts, limit \in Limits :
            /\ Deposit(u, amount, limit) => Vault!Deposit(u, amount, limit)
            /\ Mint(u, amount, limit) => Vault!Mint(u, amount, limit)
      BY <3>2 DEF Deposit, Mint, DepositAllowed, IncreaseManagedAssets, PayVault, MintTo,
             Vault!Deposit, Vault!Mint, Vault!DepositAllowed, Vault!IncreaseManagedAssets,
             Vault!PayVault, Vault!MintTo
    <3>4. \A u \in Users, amount \in Amounts, limit \in Limits :
            /\ Redeem(u, amount, limit) => Vault!Redeem(u, amount, limit)
            /\ Withdraw(u, amount, limit) => Vault!Withdraw(u, amount, limit)
      BY <3>2 DEF Redeem, Withdraw, VaultHasLiquidity, DecreaseManagedAssets, PayUser, Burn,
             Vault!Redeem, Vault!Withdraw, Vault!VaultHasLiquidity,
             Vault!DecreaseManagedAssets, Vault!PayUser, Vault!Burn
    <3>5. Vault!LiquidityInstruction
      BY <2>2, <3>3, <3>4 DEF LiquidityInstruction, Vault!LiquidityInstruction
    <3>6. QED
      BY <3>5 DEF Vault!VaultNext
  <2>3. QED
    BY <1>2, <2>1, <2>2 DEF DepositorActs
<1> QED
  BY <1>1, <1>2

LEMMA VaultStarts == CushionInit => Vault!VaultInit
BY DEF CushionInit, VaultInit, Vault!VaultInit

(* The program implements the depositors' vault: every behaviour of the    *)
(* whole is one of CushionVault in which idle tokens move at will.         *)
THEOREM CushionImplementsVault == CushionSpec => VaultRefinement
<1>1. CushionInv /\ [CushionNext]_vars => [Vault!VaultNext]_Vault!vaultVars
  BY CushionStep, VaultSteps
<1> QED
  BY <1>1, VaultStarts, CushionInvariant, PTL DEF CushionSpec, VaultRefinement, Vault!VaultSpec

-----------------------------------------------------------------------------
(* The principal comes back.                                               *)

LEMMA DivisionKeepsOrder ==
  ASSUME NEW d \in Nat \ {0}, NEW a \in Nat, NEW n \in Nat, n >= d * a
  PROVE  n \div d >= a
<1> DEFINE q == n \div d
           r == n % d
<1>1. /\ q \in Nat
      /\ r \in 0 .. (d - 1)
      /\ n = d * q + r
  OBVIOUS
<1>2. SUFFICES ASSUME q + 1 <= a
               PROVE  FALSE
  BY <1>1
<1> HIDE DEF q, r
<1>3. d * (q + 1) <= d * a
  BY <1>1, <1>2
<1>4. d * (q + 1) = d * q + d
  BY <1>1
<1>5. QED
  BY <1>1, <1>3, <1>4

(* withdraw.rs: an index that did not fall returns at least the principal. *)
LEMMA RecoversPrincipal ==
  ASSUME NEW stored \in Nat \ {0}, NEW current \in Nat, current >= stored,
         NEW principal \in Nat,
         NEW amount \in AmountToWithdraw(current, stored, principal)
  PROVE  amount >= principal
<1>1. TOKEN_PRECISION \in Nat \ {0}
  BY ScaleAssumption, WidthAssumption
<1> DEFINE q == (current * TOKEN_PRECISION) \div stored
<1>2. amount = (q * principal) \div TOKEN_PRECISION
  BY DEF AmountToWithdraw, U64
<1>3. current * TOKEN_PRECISION \in Nat
  BY <1>1
<1>4. current * TOKEN_PRECISION >= stored * TOKEN_PRECISION
  BY <1>1
<1>5. q >= TOKEN_PRECISION /\ q \in Nat
  BY <1>1, <1>3, <1>4, DivisionKeepsOrder
<1> HIDE DEF q
<1>6. q * principal \in Nat
  BY <1>5
<1>7. q * principal >= TOKEN_PRECISION * principal
  BY <1>1, <1>5
<1>8. (q * principal) \div TOKEN_PRECISION >= principal
  BY <1>1, <1>6, <1>7, DivisionKeepsOrder
<1>9. QED
  BY <1>2, <1>8

(* interest.rs: the index never falls, in any number of years.             *)
LEMMA IndexGrows ==
  ASSUME NEW index \in Nat \ {0}, NEW elapsed \in Nat,
         NEW next \in NextIndex(index, InterestRate, elapsed)
  PROVE  next \in Nat /\ next >= index
<1> DEFINE product == index * (InterestRate + TOKEN_PRECISION)
           grown == product \div TOKEN_PRECISION
           years == Annualized(elapsed)
<1>1. TOKEN_PRECISION \in Nat \ {0} /\ InterestRate \in Nat
  BY ScaleAssumption, CushionAssumption, WidthAssumption
<1>2. product \in Nat /\ product >= TOKEN_PRECISION * index
  BY <1>1
<1>3. grown \in Nat /\ grown >= index
  BY <1>1, <1>2, DivisionKeepsOrder
<1>4. years \in Nat
  BY ScaleAssumption DEF Annualized
<1>5. next = IF years = 0 THEN grown ELSE Power(grown, years)
  BY DEF NextIndex, U64
<1> HIDE DEF grown, years
<1>6. CASE years = 0
  BY <1>3, <1>5, <1>6
<1>7. CASE years # 0
  <2>1. grown \in Nat \ {0} /\ years \in Nat \ {0}
    BY <1>3, <1>4, <1>7
  <2>2. Power(grown, years) \in Nat /\ Power(grown, years) >= grown
    BY <2>1, PowerGrows
  <2> QED
    BY <1>3, <1>5, <1>7, <2>2
<1> QED
  BY <1>6, <1>7

(* A buffer that is withdrawn brings back at least what was injected,      *)
(* whenever that is, so the check that withdraw.rs wonders about can never *)
(* fail.                                                                   *)
PrincipalReturns ==
  \A p \in Positions : WithdrawInjected(p) => vaultToken' >= vaultToken + injectedAmount[p]

LEMMA PrincipalStep == CushionInv => PrincipalReturns
<1> SUFFICES ASSUME CushionInv, NEW p \in Positions, WithdrawInjected(p)
             PROVE  vaultToken' >= vaultToken + injectedAmount[p]
  BY DEF PrincipalReturns
<1>1. PICK amount \in Withdrawable(p) : ToVault(amount)
  BY DEF WithdrawInjected
<1>2. PICK index \in CurrentIndex :
        amount \in AmountToWithdraw(index, accumulatedInterest, injectedAmount[p])
  BY DEF Withdrawable
<1>3. /\ accumulatedInterest \in Nat \ {0}
      /\ sinceInterest \in Nat
      /\ injectedAmount[p] \in Nat
      /\ vaultToken \in Nat
  BY <1>2, WidthAssumption
     DEF AmountToWithdraw, CushionInv, MarketInv, PositionInv, VaultInv, VaultTypeOK
<1>4. index \in Nat /\ index >= accumulatedInterest
  BY <1>2, <1>3, IndexGrows DEF CurrentIndex
<1>5. amount >= injectedAmount[p]
  BY <1>2, <1>3, <1>4, RecoversPrincipal
<1>6. amount \in Nat
  BY TokenAmounts, WidthAssumption DEF Withdrawable
<1>7. QED
  BY <1>1, <1>3, <1>5, <1>6 DEF ToVault

(* So it is in every behaviour of the program.                             *)
THEOREM PrincipalComesBack == CushionSpec => [][PrincipalReturns]_vars
<1>1. CushionInv /\ [CushionNext]_vars => [PrincipalReturns]_vars
  BY PrincipalStep
<1> QED
  BY <1>1, CushionInvariant, PTL DEF CushionSpec

-----------------------------------------------------------------------------
(* What backs the depositors.                                              *)

(* The deployed principal is a number, and moves with one buffer.          *)
LEMMA DeployedMoves ==
  ASSUME PositionInv, NEW p \in Positions, NEW amount \in Nat,
         injectedAmount' = [injectedAmount EXCEPT ![p] = amount]
  PROVE  Deployed \in Int /\ Deployed' = Deployed - injectedAmount[p] + amount
<1>1. injectedAmount \in [Positions -> Int] /\ amount \in Int
  BY DEF PositionInv
<1>2. /\ SumFunction(injectedAmount) \in Int
      /\ SumFunction([injectedAmount EXCEPT ![p] = amount])
           = SumFunction(injectedAmount) - injectedAmount[p] + amount
  BY <1>1, PositionsAssumption, SumAfterUpdate
<1> QED
  BY <1>2 DEF Deployed

LEMMA DeployedStays ==
  ASSUME injectedAmount' = injectedAmount
  PROVE  Deployed' = Deployed
BY DEF Deployed

LEMMA DeployedIsInteger == PositionInv => Deployed \in Int
<1>1. PositionInv => injectedAmount \in [Positions -> Int]
  BY DEF PositionInv
<1> QED
  BY <1>1, PositionsAssumption, SumIsInteger DEF Deployed

(* Every instruction of a depositor brings or takes some amount.           *)
LEMMA InstructionsTrade ==
  ASSUME VaultInv, LiquidityInstruction
  PROVE  \E u \in Users, x \in Nat, q \in Nat : Enter(u, x, q) \/ Leave(u, x, q)
<1>1. PICK u \in Users, amount \in Amounts, limit \in Limits :
        \/ Deposit(u, amount, limit)
        \/ Mint(u, amount, limit)
        \/ Redeem(u, amount, limit)
        \/ Withdraw(u, amount, limit)
  BY DEF LiquidityInstruction
<1>2. amount \in Nat
  BY BoundAssumption, WidthAssumption
<1>3. CASE Deposit(u, amount, limit)
  BY <1>2, <1>3, DepositEnters
<1>4. CASE Mint(u, amount, limit)
  BY <1>2, <1>4, MintEnters
<1>5. CASE Redeem(u, amount, limit)
  BY <1>2, <1>5, RedeemLeaves
<1>6. CASE Withdraw(u, amount, limit)
  BY <1>2, <1>6, WithdrawLeaves, WidthAssumption DEF VaultInv, VaultTypeOK
<1> QED
  BY <1>1, <1>3, <1>4, <1>5, <1>6

(* Depositors bring and take what total_managed_assets says they do.       *)
LEMMA TradesAreBooked ==
  ASSUME VaultInv, LiquidityInstruction \/ BurnOwnShares
  PROVE  \E d \in Int : /\ vaultToken' = vaultToken + d
                        /\ totalManagedAssets' = totalManagedAssets + d
<1>1. vaultToken \in Nat /\ totalManagedAssets \in Nat
  BY DEF VaultInv, VaultTypeOK
<1>2. ASSUME NEW u, NEW x \in Nat, NEW q, Enter(u, x, q) \/ Leave(u, x, q)
      PROVE  \E d \in Int : /\ vaultToken' = vaultToken + d
                            /\ totalManagedAssets' = totalManagedAssets + d
  <2>1. CASE Enter(u, x, q)
    BY <2>1 DEF Enter, PayVault, IncreaseManagedAssets
  <2>2. CASE Leave(u, x, q)
    <3>1. /\ -x \in Int
          /\ vaultToken - x = vaultToken + -x
          /\ totalManagedAssets - x = totalManagedAssets + -x
      BY <1>1
    <3> QED
      BY <2>2, <3>1 DEF Leave, PayUser, DecreaseManagedAssets
  <2> QED
    BY <1>2, <2>1, <2>2
<1>3. CASE LiquidityInstruction
  BY <1>2, <1>3, InstructionsTrade
<1>4. CASE BurnOwnShares
  <2>1. vaultToken' = vaultToken + 0 /\ totalManagedAssets' = totalManagedAssets + 0
    BY <1>1, <1>4 DEF BurnOwnShares
  <2> QED
    BY <2>1
<1> QED
  BY <1>3, <1>4

(* What an instruction on a buffer moves: principal out, and at least as   *)
(* much back in.                                                           *)
LEMMA BufferKeepsBacking ==
  ASSUME CushionInv, NEW p \in Positions, Inject(p) \/ WithdrawInjected(p)
  PROVE  Surplus' >= Surplus
<1>1. /\ vaultToken \in Nat /\ totalManagedAssets \in Nat /\ injectedAmount[p] \in Nat
      /\ PositionInv
  BY DEF CushionInv, VaultInv, VaultTypeOK, PositionInv
<1>2. totalManagedAssets' = totalManagedAssets
  BY DEF Inject, WithdrawInjected, FromVault, ToVault, ledger
<1>3. CASE Inject(p)
  <2>1. PICK amount \in Injectable(p) :
          /\ injectedAmount' = [injectedAmount EXCEPT ![p] = @ + amount]
          /\ FromVault(amount)
    BY <1>3 DEF Inject
  <2>2. amount \in Nat /\ injectedAmount[p] = 0
    BY TokenAmounts, WidthAssumption DEF Injectable, CushionInv, PositionInv, Buffer
  <2>3. injectedAmount' = [injectedAmount EXCEPT ![p] = amount]
    BY <2>1, <2>2
  <2>4. Deployed \in Int /\ Deployed' = Deployed - injectedAmount[p] + amount
    BY <1>1, <2>2, <2>3, DeployedMoves
  <2>5. vaultToken' = vaultToken - amount
    BY <2>1 DEF FromVault
  <2> QED
    BY <1>1, <1>2, <2>2, <2>4, <2>5 DEF Surplus
<1>4. CASE WithdrawInjected(p)
  <2>1. injectedAmount' = [injectedAmount EXCEPT ![p] = 0]
    BY <1>4 DEF WithdrawInjected, Release
  <2>2. Deployed \in Int /\ Deployed' = Deployed - injectedAmount[p] + 0
    BY <1>1, <2>1, DeployedMoves
  <2>3. vaultToken' >= vaultToken + injectedAmount[p]
    BY <1>4, PrincipalStep DEF PrincipalReturns
  <2>4. vaultToken' \in Nat
    BY <1>4, WithdrawInjectedKeeps DEF IdleMoves
  <2> QED
    BY <1>1, <1>2, <2>2, <2>3, <2>4 DEF Surplus
<1> QED
  BY <1>3, <1>4

LEMMA BackingUntouched ==
  ASSUME CushionInv, UNCHANGED <<vaultVars, insurance>>
  PROVE  Surplus' >= Surplus
<1>1. UNCHANGED <<vaultToken, totalManagedAssets, injectedAmount>>
  BY DEF vaultVars, insurance
<1>2. Deployed' = Deployed
  BY <1>1, DeployedStays
<1>3. vaultToken \in Nat /\ totalManagedAssets \in Nat /\ Deployed \in Int
  BY DeployedIsInteger DEF CushionInv, VaultInv, VaultTypeOK
<1> QED
  BY <1>1, <1>2, <1>3 DEF Surplus

LEMMA BackingStep ==
  ASSUME CushionInv, [CushionNext]_vars, ~Liquidation
  PROVE  Surplus' >= Surplus
<1>1. /\ vaultToken \in Nat /\ totalManagedAssets \in Nat /\ Deployed \in Int
      /\ PositionInv
  BY DeployedIsInteger DEF CushionInv, VaultInv, VaultTypeOK
<1>2. CASE DepositorActs
  <2>1. Deployed' = Deployed
    BY <1>1, <1>2, DeployedStays DEF DepositorActs, insurance
  <2>2. PICK d \in Int : /\ vaultToken' = vaultToken + d
                         /\ totalManagedAssets' = totalManagedAssets + d
    BY <1>2, TradesAreBooked DEF DepositorActs, CushionInv
  <2> QED
    BY <1>1, <2>1, <2>2 DEF Surplus
<1>3. CASE BufferInstruction
  BY <1>3, BufferKeepsBacking DEF BufferInstruction
<1>4. CASE BorrowerActs \/ UpdateMarketPrice \/ MarketMoves \/ ClockTicks \/ UNCHANGED vars
  <2>1. UNCHANGED <<vaultVars, insurance>>
    BY <1>4 DEF BorrowerActs, IncreaseCollateral, DecreaseCollateral, BorrowAsset, RepayDebt,
                UpdateMarketPrice, MarketMoves, ClockTicks, vars
  <2> QED
    BY <2>1, BackingUntouched
<1> QED
  BY <1>2, <1>3, <1>4 DEF CushionNext

(* Only a liquidation can cost the depositors anything, for any number of  *)
(* positions: idle tokens and deployed principal together keep up with     *)
(* total_managed_assets under every other instruction, whatever the        *)
(* interest index, the prices and the order.                               *)
THEOREM BackingIsKept == CushionSpec => BackingKept
<1>1. CushionInv /\ [CushionNext]_vars => [~Liquidation => Surplus' >= Surplus]_vars
  BY BackingStep
<1> QED
  BY <1>1, CushionInvariant, PTL DEF CushionSpec, BackingKept

(* So a program that is never asked to liquidate has its depositors'       *)
(* assets, idle or as buffers, in every state.                             *)
THEOREM BackedUnlessLiquidated ==
  CushionSpec /\ [][~Liquidation]_vars => [](Surplus >= 0)
<1>1. CushionInit => Surplus >= 0
  <2> SUFFICES ASSUME CushionInit
               PROVE  Surplus >= 0
    OBVIOUS
  <2>1. vaultToken = 0 /\ totalManagedAssets = 0 /\ injectedAmount = [p \in Positions |-> 0]
    BY DEF CushionInit, VaultInit
  <2>2. Deployed = 0
    BY <2>1, PositionsAssumption, SumOfZeros DEF Deployed
  <2> QED
    BY <2>1, <2>2 DEF Surplus
<1>2. CushionInv => Surplus \in Int
  BY DeployedIsInteger DEF CushionInv, VaultInv, VaultTypeOK, Surplus
<1>3. /\ CushionInv /\ Surplus \in Int /\ (Surplus \in Int)' /\ Surplus >= 0
      /\ [CushionNext]_vars /\ [~Liquidation]_vars
      => (Surplus >= 0)'
  <2> SUFFICES ASSUME CushionInv, Surplus \in Int, (Surplus \in Int)', Surplus >= 0,
                      [CushionNext]_vars, [~Liquidation]_vars
               PROVE  Surplus' >= 0
    OBVIOUS
  <2>1. CASE ~Liquidation
    <3>1. Surplus' >= Surplus
      BY <2>1, BackingStep
    <3> QED
      BY <3>1
  <2>2. CASE UNCHANGED vars
    <3>1. Surplus' >= Surplus
      BY <2>2, BackingUntouched DEF vars
    <3> QED
      BY <3>1
  <2> QED
    BY <2>1, <2>2
<1> QED
  BY <1>1, <1>2, <1>3, CushionInvariant, PTL DEF CushionSpec

(* And all its depositors' claims together are within the tokens that are  *)
(* idle and those that are out as buffers.                                 *)
THEOREM EveryClaimIsBacked ==
  CushionSpec /\ [][~Liquidation]_vars => []AllClaimsWithin(vaultToken + Deployed)
<1>1. ASSUME CushionInv, Surplus >= 0
      PROVE  AllClaimsWithin(vaultToken + Deployed)
  <2> DEFINE claimsOf(u) == {0} \cup PreviewRedeem(userShares[u])
  <2> SUFFICES ASSUME NEW claims \in [Users -> UNION {claimsOf(u) : u \in Users}],
                      \A u \in Users : claims[u] \in claimsOf(u)
               PROVE  SumFunction(claims) <= vaultToken + Deployed
    BY DEF AllClaimsWithin
  <2>1. SumFunction(claims) <= totalManagedAssets
    BY <1>1, ClaimsAddUp DEF CushionInv, AllClaimsCovered, AllClaimsWithin
  <2>2. totalManagedAssets \in Nat /\ vaultToken \in Nat /\ Deployed \in Int
    BY <1>1, DeployedIsInteger DEF CushionInv, VaultInv, VaultTypeOK
  <2>3. SumFunction(claims) \in Int
    <3>1. PreviewRedeem(0) \subseteq Nat /\ \A u \in Users : claims[u] \in Int
      <4>1. /\ userShares \in [Users -> Nat] /\ 0 \in Nat
            /\ totalManagedAssets \in Nat /\ shareSupply \in Nat
        BY <1>1, WidthAssumption DEF CushionInv, VaultInv, VaultTypeOK
      <4> QED
        BY <4>1, ConversionIsNat DEF PreviewRedeem
    <3>2. claims \in [Users -> Int]
      BY <3>1
    <3> QED
      BY <3>2, UsersAssumption, SumIsInteger
  <2> QED
    BY <1>1, <2>1, <2>2, <2>3 DEF Surplus
<1>2. CushionInv /\ Surplus >= 0 => AllClaimsWithin(vaultToken + Deployed)
  BY <1>1
<1> QED
  BY <1>2, CushionInvariant, BackedUnlessLiquidated, PTL

-----------------------------------------------------------------------------
(* Thresholds.                                                             *)
(*                                                                         *)
(* Two thresholds that are compared before and after an instruction are    *)
(* each rounded three times, and the collateral between them once more.    *)
(* They keep their order where a token unit is worth enough for what all   *)
(* these divisions may lose.                                               *)

(* The result of a checked product and division.                           *)
LEMMA MulDivBounds ==
  ASSUME NEW a \in Nat, NEW b \in Nat, NEW d \in Nat \ {0}, NEW x \in MulDiv(a, b, d)
  PROVE  /\ x \in Nat
         /\ x * d <= a * b
         /\ a * b < (x + 1) * d
<1> DEFINE n == a * b
<1>1. n \in Nat /\ x = n \div d
  BY ProductInNat DEF MulDiv, FloorDiv, U128
<1> HIDE DEF n
<1>2. x \in Nat /\ x * d <= n /\ n < (x + 1) * d
  BY <1>1
<1> QED
  BY <1>2 DEF n

(* A sum, rounded down as a whole and in parts.                            *)
LEMMA FloorOfSum ==
  ASSUME NEW a \in Nat, NEW b \in Nat, NEW d \in Nat \ {0}
  PROVE  /\ FloorDiv(a, d) \in Nat /\ FloorDiv(b, d) \in Nat /\ FloorDiv(a + b, d) \in Nat
         /\ FloorDiv(a, d) + FloorDiv(b, d) <= FloorDiv(a + b, d)
         /\ FloorDiv(a + b, d) <= FloorDiv(a, d) + FloorDiv(b, d) + 1
<1> DEFINE i == FloorDiv(a, d)
           j == FloorDiv(b, d)
           k == FloorDiv(a + b, d)
<1>1. i \in Nat /\ i * d <= a /\ a < (i + 1) * d
  BY DEF FloorDiv
<1>2. j \in Nat /\ j * d <= b /\ b < (j + 1) * d
  BY DEF FloorDiv
<1>3. k \in Nat /\ k * d <= a + b /\ a + b < (k + 1) * d
  BY DEF FloorDiv
<1> HIDE DEF i, j, k
<1>4. (i + j) * d < (k + 1) * d
  <2>1. (i + j) * d = i * d + j * d
    BY <1>1, <1>2, Distribute
  <2>2. i * d \in Nat /\ j * d \in Nat /\ (k + 1) * d \in Nat
    BY <1>1, <1>2, <1>3, ProductInNat
  <2> QED
    BY <1>1, <1>2, <1>3, <2>1, <2>2
<1>5. k * d < (i + j + 2) * d
  <2>1. ((i + 1) + (j + 1)) * d = (i + 1) * d + (j + 1) * d /\ (i + 1) + (j + 1) = i + j + 2
    BY <1>1, <1>2, Distribute
  <2>2. (i + 1) * d \in Nat /\ (j + 1) * d \in Nat /\ k * d \in Nat
    BY <1>1, <1>2, <1>3, ProductInNat
  <2> QED
    BY <1>1, <1>2, <1>3, <2>1, <2>2
<1>6. ~(k + 1 <= i + j)
  <2> SUFFICES ASSUME k + 1 <= i + j PROVE FALSE
    OBVIOUS
  <2>1. (k + 1) * d <= (i + j) * d
    BY <1>1, <1>2, <1>3, MulMonotone
  <2>2. (k + 1) * d \in Nat /\ (i + j) * d \in Nat
    BY <1>1, <1>2, <1>3, ProductInNat
  <2> QED
    BY <1>4, <2>1, <2>2
<1>7. ~(i + j + 2 <= k)
  <2> SUFFICES ASSUME i + j + 2 <= k PROVE FALSE
    OBVIOUS
  <2>1. (i + j + 2) * d <= k * d
    BY <1>1, <1>2, <1>3, MulMonotone
  <2>2. (i + j + 2) * d \in Nat /\ k * d \in Nat
    BY <1>1, <1>2, <1>3, ProductInNat
  <2> QED
    BY <1>5, <2>1, <2>2
<1>8. /\ i \in Nat /\ j \in Nat /\ k \in Nat /\ i + j <= k /\ k <= i + j + 1
  BY <1>1, <1>2, <1>3, <1>6, <1>7
<1> QED
  BY <1>8 DEF i, j, k

(* A limit of pct percent of a deposit, as a ratio to it, times a factor.  *)
LEMMA ScaledBounds ==
  ASSUME NEW D \in Nat \ {0}, NEW pct \in Nat, NEW m \in Nat,
         NEW x \in Scaled(MulDiv(FloorDiv(D * pct, 100), WAD, D), m)
  PROVE  /\ x \in Nat
         /\ 100 * x <= pct * m
         /\ (pct * m) * (WAD * D) <= 100 * ((x + 1) * (WAD * D)) + 100 * (m * D) + 100 * (m * WAD)
<1> DEFINE W == WAD
           G == FloorDiv(D * pct, 100)
<1>1. W \in Nat \ {0}
  BY ScaleAssumption, WidthAssumption
<1>2. G \in Nat /\ 100 * G <= D * pct /\ D * pct < 100 * G + 100
  <2> DEFINE n == D * pct
  <2>1. n \in Nat
    BY ProductInNat
  <2> HIDE DEF n
  <2>2. G = n \div 100
    BY DEF FloorDiv, n
  <2> HIDE DEF G
  <2>3. G \in Nat /\ 100 * G <= n /\ n < 100 * G + 100
    BY <2>1, <2>2
  <2> QED
    BY <2>3 DEF n
<1> HIDE DEF G
<1>3. PICK r \in MulDiv(G, W, D) : x \in MulDiv(r, m, W)
  BY DEF Scaled, G
<1>4. r \in Nat /\ r * D <= G * W /\ G * W < (r + 1) * D
  BY <1>1, <1>2, <1>3, MulDivBounds
<1>5. x \in Nat /\ x * W <= r * m /\ r * m < (x + 1) * W
  BY <1>1, <1>3, <1>4, MulDivBounds
<1> HIDE DEF W
<1> DEFINE gw == G * W
           rd == r * D
           rm == r * m
           xw == x * W
           dp == D * pct
           mW == m * W
           mD == m * D
<1>6. /\ gw \in Nat /\ rd \in Nat /\ rm \in Nat /\ xw \in Nat /\ dp \in Nat
      /\ mW \in Nat /\ mD \in Nat
  BY <1>1, <1>2, <1>4, <1>5, ProductInNat
<1>7. (r + 1) * D = rd + D /\ (x + 1) * W = xw + W
  BY <1>1, <1>4, <1>5, Distribute
<1>8. 100 * r <= pct * W
  <2>1. (100 * G) * W <= dp * W
    BY <1>1, <1>2, <1>6, MulMonotone
  <2>2. (100 * G) * W = 100 * gw /\ (100 * r) * D = 100 * rd /\ dp * W = (pct * W) * D
    BY <1>1, <1>2, <1>4, Distribute
  <2>3. pct * W \in Nat /\ (pct * W) * D \in Nat
    BY <1>1, ProductInNat
  <2>4. (100 * r) * D <= (pct * W) * D
    BY <1>4, <1>6, <2>1, <2>2, <2>3
  <2> QED
    BY <1>4, <2>3, <2>4, MulCancel
<1>9. 100 * x <= pct * m
  <2>1. pct * W \in Nat /\ pct * m \in Nat /\ 100 * r \in Nat
    BY <1>1, <1>4, ProductInNat
  <2>2. (100 * r) * m <= (pct * W) * m
    BY <1>8, <2>1, MulMonotone
  <2>3. (100 * r) * m = 100 * rm /\ (100 * x) * W = 100 * xw /\ (pct * W) * m = (pct * m) * W
    BY <1>1, <1>4, <1>5, Distribute
  <2>4. (pct * m) * W \in Nat
    BY <1>1, <2>1, ProductInNat
  <2>5. (100 * x) * W <= (pct * m) * W
    BY <1>5, <1>6, <2>2, <2>3, <2>4
  <2> QED
    BY <1>1, <1>5, <2>1, <2>5, MulCancel
<1>10. (pct * m) * (W * D) <= 100 * ((x + 1) * (W * D)) + 100 * mD + 100 * mW
  <2>1. (pct * m) * (W * D) = dp * mW
    BY <1>1, Distribute
  <2>2. dp * mW <= (100 * G + 100) * mW
    <3>1. dp <= 100 * G + 100 /\ 100 * G + 100 \in Nat
      BY <1>2, <1>6
    <3> QED
      BY <1>6, <3>1, MulMonotone
  <2>3. (100 * G + 100) * mW = 100 * (gw * m) + 100 * mW
    <3>1. (100 * G + 100) * mW = (100 * G) * mW + 100 * mW
      BY <1>2, <1>6, Distribute
    <3>2. (100 * G) * mW = 100 * (G * mW)
      BY <1>2, <1>6, Distribute
    <3>3. G * mW = gw * m
      BY <1>1, <1>2, Distribute
    <3> QED
      BY <3>1, <3>2, <3>3
  <2>4. gw * m <= rm * D + mD
    <3>1. gw * m <= (rd + D) * m
      BY <1>4, <1>6, <1>7, MulMonotone
    <3>2. (rd + D) * m = rd * m + D * m
      BY <1>6, Distribute
    <3>3. rd * m = rm * D /\ D * m = mD
      BY <1>4, Distribute
    <3> QED
      BY <3>1, <3>2, <3>3
  <2>5. rm * D <= (x + 1) * (W * D)
    <3>1. rm * D <= (xw + W) * D
      BY <1>1, <1>5, <1>6, <1>7, MulMonotone
    <3>2. ((x + 1) * W) * D = (x + 1) * (W * D)
      BY <1>1, <1>5, Distribute
    <3> QED
      BY <1>7, <3>1, <3>2
  <2>6. /\ dp * mW \in Nat /\ gw * m \in Nat /\ rm * D \in Nat
        /\ W * D \in Nat /\ (x + 1) * (W * D) \in Nat
    BY <1>1, <1>5, <1>6, ProductInNat
  <2> QED
    BY <1>6, <2>1, <2>2, <2>3, <2>4, <2>5, <2>6
<1> QED
  BY <1>5, <1>9, <1>10 DEF W

(* What a threshold of pct percent times m exceeds another bound by, which *)
(* is k / (100 * WAD), covers the divisions for a deposit worth n.         *)
Apart(pct, m, k, n) ==
  LET room == pct * m * WAD - k - 100 * m
  IN  room >= 0 /\ n * room >= k + 100 * (m * WAD)

LEMMA ThresholdsApart ==
  ASSUME NEW D \in Nat \ {0}, NEW pct \in Nat, NEW m \in Nat, NEW k \in Nat, NEW n \in Nat,
         n <= D, Apart(pct, m, k, n),
         NEW x \in Scaled(MulDiv(FloorDiv(D * pct, 100), WAD, D), m),
         NEW y \in Nat, 100 * (y * WAD) <= k
  PROVE  x \in Nat /\ y * (D + 1) <= (x + 1) * D
<1> DEFINE W == WAD
           H == pct * m
           room == H * W - k - 100 * m
<1>1. W \in Nat \ {0} /\ H \in Nat
  BY ScaleAssumption, WidthAssumption, ProductInNat
<1>2. /\ x \in Nat
      /\ H * (W * D) <= 100 * ((x + 1) * (W * D)) + 100 * (m * D) + 100 * (m * W)
  BY ScaledBounds
<1>3. room \in Int /\ room >= 0 /\ n * room >= k + 100 * (m * W)
  <2>1. H * W \in Nat /\ m * W \in Nat
    BY <1>1, ProductInNat
  <2> QED
    BY <2>1 DEF Apart
<1> HIDE DEF W, H, room
<1>4. D * room >= n * room
  <2>1. room \in Nat
    BY <1>3
  <2>2. n * room <= D * room
    BY <2>1, MulMonotone
  <2> QED
    BY <2>1, <2>2, ProductInNat
<1> DEFINE hw == H * W
           mD == m * D
           mW == m * W
           kD == k * D
           xwd == (x + 1) * (W * D)
           yw == y * W
<1>5. /\ hw \in Nat /\ mD \in Nat /\ mW \in Nat /\ kD \in Nat /\ xwd \in Nat /\ yw \in Nat
  <2>1. W * D \in Nat
    BY <1>1, ProductInNat
  <2> QED
    BY <1>1, <1>2, <2>1, ProductInNat
<1>6. D * room = H * (W * D) - kD - 100 * mD
  <2>1. D * ((hw - k) - 100 * m) = D * (hw - k) - D * (100 * m)
    BY <1>5, Distribute
  <2>2. D * (hw - k) = D * hw - D * k
    BY <1>5, Distribute
  <2>3. D * (100 * m) = 100 * mD /\ D * k = kD /\ D * hw = H * (W * D)
    BY <1>1, Distribute
  <2> QED
    BY <2>1, <2>2, <2>3 DEF room
<1>7. kD + k <= 100 * xwd
  <2>1. H * (W * D) \in Nat /\ D * room \in Int /\ n * room \in Int
    <3>1. W * D \in Nat
      BY <1>1, ProductInNat
    <3> QED
      BY <1>1, <1>3, <3>1, ProductInNat
  <2> HIDE DEF kD, mD, mW, xwd
  <2> QED
    BY <1>2, <1>3, <1>4, <1>5, <1>6, <2>1 DEF kD, mD, mW, xwd
<1>8. (100 * yw) * (D + 1) <= kD + k
  <2>1. (100 * yw) * (D + 1) <= k * (D + 1)
    BY <1>5, MulMonotone DEF W
  <2>2. k * (D + 1) = kD + k
    BY Distribute
  <2> QED
    BY <2>1, <2>2
<1>9. (100 * yw) * (D + 1) = (100 * W) * (y * (D + 1)) /\ 100 * xwd = (100 * W) * ((x + 1) * D)
  BY <1>1, <1>2, Distribute
<1>10. y * (D + 1) <= (x + 1) * D
  <2>1. y * (D + 1) \in Nat /\ (x + 1) * D \in Nat /\ 100 * W \in Nat \ {0}
    BY <1>1, <1>2, ProductInNat
  <2>2. (y * (D + 1)) * (100 * W) <= ((x + 1) * D) * (100 * W)
    BY <1>5, <1>7, <1>8, <1>9, <2>1, Distribute
  <2> QED
    BY <2>1, <2>2, MulCancel
<1> QED
  BY <1>2, <1>10

(* Every token unit is worth n units of value, or more: 10^-18 USD each.   *)
Fine(n) == \A price \in Prices : price >= n * UnitsPerToken

LEMMA DepositIsFine ==
  ASSUME NEW c \in Nat, NEW price \in Prices, NEW n \in Nat, Fine(n)
  PROVE  /\ FloorDiv(c * price, UnitsPerToken) \in Nat
         /\ FloorDiv(c * price, UnitsPerToken) # 0 => FloorDiv(c * price, UnitsPerToken) >= n
<1> DEFINE u == UnitsPerToken
           v == c * price
           D == FloorDiv(v, u)
<1>1. u \in Nat \ {0} /\ price \in Nat /\ price >= n * u
  BY MarketAssumption DEF Fine
<1>2. v \in Nat
  BY <1>1, ProductInNat
<1>3. D \in Nat /\ D * u <= v /\ v < (D + 1) * u
  <2> HIDE DEF u, v
  <2> QED
    BY <1>1, <1>2 DEF FloorDiv
<1>4. ASSUME D # 0
      PROVE  D >= n
  <2>1. c # 0
    <3> SUFFICES ASSUME c = 0 PROVE FALSE
      OBVIOUS
    <3>1. v = 0
      BY <1>1
    <3> HIDE DEF D, v, u
    <3>2. D * u >= u
      BY <1>1, <1>3, <1>4
    <3> QED
      BY <1>1, <1>3, <3>1, <3>2, ProductInNat
  <2>2. price * 1 <= v
    <3>1. 1 * price <= c * price
      BY <1>1, <2>1, MulMonotone
    <3> QED
      BY <1>1, <3>1
  <2> HIDE DEF D, v, u
  <2>3. n * u \in Nat /\ (D + 1) * u \in Nat
    BY <1>1, <1>3, ProductInNat
  <2>4. n * u < (D + 1) * u
    BY <1>1, <1>2, <1>3, <2>2, <2>3
  <2>5. ~(D + 1 <= n)
    <3> SUFFICES ASSUME D + 1 <= n PROVE FALSE
      OBVIOUS
    <3>1. (D + 1) * u <= n * u
      BY <1>1, <1>3, MulMonotone
    <3> QED
      BY <2>3, <2>4, <3>1
  <2> QED
    BY <1>3, <2>5
<1> QED
  BY <1>3, <1>4

LEMMA MultipliersAreNat ==
  /\ LtvPct \in Nat /\ LiquidationPct \in Nat
  /\ InsuringMultiplier \in Nat /\ WithdrawingMultiplier \in Nat
  /\ LiquidationMultiplier \in Nat /\ BorrowBufferMultiplier \in Nat
  /\ WAD \in Nat \ {0} /\ UnitsPerToken \in Nat \ {0} /\ UnitsPerToken = MintFactor
BY MarketAssumption, ThresholdAssumption, ScaleAssumption, WidthAssumption, CushionAssumption

(* The insuring threshold is apart from the withdrawing one ...            *)
ReleaseIsApart(n) ==
  Apart(LtvPct, InsuringMultiplier, LtvPct * WithdrawingMultiplier * WAD, n)

(* ... and what Cushion liquidates from what a borrower may reach.         *)
MarginIsApart(n) ==
  Apart(LiquidationPct, LiquidationMultiplier,
        LiquidationPct * LiquidationMultiplier * BorrowBufferMultiplier + 200 * WAD, n)

(* No debt is too much with a deposit of D, or with a unit more, and too   *)
(* little with E, wherever the withdrawing threshold was computed.         *)
LEMMA UnsafeIsNotSafe ==
  ASSUME NEW n \in Nat, ReleaseIsApart(n),
         NEW D \in Nat \ {0}, n <= D, NEW d \in Nat,
         NEW ltv \in MulDiv(d, WAD, D),
         NEW insuring \in InsuringLtv(FloorDiv(D * LtvPct, 100), D), ltv > insuring,
         NEW E \in Nat \ {0}, E <= D + 1, NEW without \in MulDiv(d, WAD, E),
         NEW D2 \in Nat \ {0},
         NEW withdrawing \in WithdrawingLtv(FloorDiv(D2 * LtvPct, 100), D2)
  PROVE  without >= withdrawing
<1> DEFINE W == WAD
           I == insuring
           X == withdrawing
           lw == LtvPct * WithdrawingMultiplier
           k == lw * W
<1>1. /\ W \in Nat \ {0} /\ LtvPct \in Nat
      /\ InsuringMultiplier \in Nat /\ WithdrawingMultiplier \in Nat
  BY MultipliersAreNat
<1>2. lw \in Nat /\ k \in Nat
  BY <1>1, ProductInNat
<1>3. X \in Scaled(MulDiv(FloorDiv(D2 * LtvPct, 100), WAD, D2), WithdrawingMultiplier)
  BY DEF WithdrawingLtv, CurrentLtv
<1>4. X \in Nat /\ 100 * X <= lw
  BY <1>1, <1>3, ScaledBounds
<1>5. 100 * (X * W) <= k
  <2>1. (100 * X) * W <= lw * W
    BY <1>1, <1>2, <1>4, MulMonotone
  <2>2. (100 * X) * W = 100 * (X * W)
    BY <1>1, <1>4, Distribute
  <2> QED
    BY <2>1, <2>2
<1>6. I \in Scaled(MulDiv(FloorDiv(D * LtvPct, 100), WAD, D), InsuringMultiplier)
  BY DEF InsuringLtv
<1>7. Apart(LtvPct, InsuringMultiplier, k, n)
  BY DEF ReleaseIsApart
<1> HIDE DEF k, lw
<1>8. I \in Nat /\ X * (D + 1) <= (I + 1) * D
  BY <1>1, <1>2, <1>4, <1>5, <1>6, <1>7, ThresholdsApart DEF W
<1>9. ltv \in Nat /\ ltv * D <= d * W
  BY <1>1, MulDivBounds
<1>10. without \in Nat /\ d * W < (without + 1) * E
  BY <1>1, MulDivBounds
<1> HIDE DEF W, I, X
<1>11. (I + 1) * D <= ltv * D
  <2>1. I + 1 \in Nat /\ I + 1 <= ltv
    BY <1>8, <1>9 DEF I
  <2> QED
    BY <1>9, <2>1, MulMonotone
<1>12. SUFFICES ASSUME without + 1 <= X
                PROVE  FALSE
  BY <1>4, <1>10 DEF X
<1>13. (without + 1) * E <= X * E
  BY <1>4, <1>10, <1>12, MulMonotone
<1>14. X * E <= X * (D + 1)
  <2>1. E * X <= (D + 1) * X
    BY <1>4, MulMonotone
  <2> QED
    BY <1>4, <2>1, Distribute
<1> DEFINE s1 == d * W
           s2 == (without + 1) * E
           s3 == X * E
           s4 == X * (D + 1)
           s5 == (I + 1) * D
           s6 == ltv * D
<1>15. s1 \in Nat /\ s2 \in Nat /\ s3 \in Nat /\ s4 \in Nat /\ s5 \in Nat /\ s6 \in Nat
  BY <1>1, <1>4, <1>8, <1>9, <1>10, ProductInNat
<1>16. s1 < s2 /\ s2 <= s3 /\ s3 <= s4 /\ s4 <= s5 /\ s5 <= s6 /\ s6 <= s1
  BY <1>8, <1>9, <1>10, <1>11, <1>13, <1>14
<1> HIDE DEF s1, s2, s3, s4, s5, s6
<1> QED
  BY <1>15, <1>16

(* No debt that a borrower may have with E is one that Cushion liquidates  *)
(* with a deposit of D, at most a unit less.                               *)
LEMMA WithinIsNotLiquidated ==
  ASSUME NEW n \in Nat, MarginIsApart(n),
         NEW D1 \in Nat \ {0}, NEW maximum \in MaxSafeLtv(FloorDiv(D1 * LiquidationPct, 100), D1),
         NEW E \in Nat \ {0}, NEW d \in Nat, NEW ltv \in MulDiv(d, WAD, E), ltv <= maximum,
         NEW D \in Nat \ {0}, n <= D, E <= D + 1, NEW now \in MulDiv(d, WAD, D),
         NEW threshold \in LiquidationLtv(FloorDiv(D * LiquidationPct, 100), D)
  PROVE  now < threshold
<1> DEFINE W == WAD
           M == maximum
           T == threshold
           B == BorrowBufferMultiplier
           ql == LiquidationPct * LiquidationMultiplier
           k == ql * B + 200 * W
<1>1. /\ W \in Nat \ {0} /\ LiquidationPct \in Nat /\ LiquidationMultiplier \in Nat /\ B \in Nat
  BY MultipliersAreNat
<1>2. ql \in Nat /\ k \in Nat
  BY <1>1, ProductInNat
<1>3. PICK t \in LiquidationLtv(FloorDiv(D1 * LiquidationPct, 100), D1) : M \in MulDiv(t, B, W)
  BY DEF MaxSafeLtv, Scaled
<1>4. t \in Scaled(MulDiv(FloorDiv(D1 * LiquidationPct, 100), WAD, D1), LiquidationMultiplier)
  BY <1>3 DEF LiquidationLtv
<1>5. t \in Nat /\ 100 * t <= ql
  BY <1>1, <1>4, ScaledBounds
<1>6. M \in Nat /\ M * W <= t * B
  BY <1>1, <1>3, <1>5, MulDivBounds
<1>7. M + 2 \in Nat /\ 100 * ((M + 2) * W) <= k
  <2>1. (100 * t) * B <= ql * B
    BY <1>1, <1>2, <1>5, MulMonotone
  <2>2. (100 * t) * B = 100 * (t * B) /\ (M + 2) * W = M * W + 2 * W
    BY <1>1, <1>5, <1>6, Distribute
  <2>3. t * B \in Nat /\ M * W \in Nat /\ ql * B \in Nat
    BY <1>1, <1>2, <1>5, <1>6, ProductInNat
  <2> HIDE DEF ql, W, B
  <2> QED
    BY <1>1, <1>6, <2>1, <2>2, <2>3
<1>8. T \in Scaled(MulDiv(FloorDiv(D * LiquidationPct, 100), WAD, D), LiquidationMultiplier)
  BY DEF LiquidationLtv
<1>9. Apart(LiquidationPct, LiquidationMultiplier, k, n)
  BY DEF MarginIsApart
<1> HIDE DEF k, ql
<1>10. T \in Nat /\ (M + 2) * (D + 1) <= (T + 1) * D
  BY <1>1, <1>2, <1>7, <1>8, <1>9, ThresholdsApart DEF W
<1>11. now \in Nat /\ now * D <= d * W
  BY <1>1, MulDivBounds
<1>12. ltv \in Nat /\ d * W < (ltv + 1) * E
  BY <1>1, MulDivBounds
<1> HIDE DEF W, M, T, B
<1>13. (ltv + 1) * E <= (M + 1) * (D + 1)
  <2>1. (ltv + 1) * E <= (M + 1) * E
    BY <1>6, <1>12, MulMonotone DEF M
  <2>2. E * (M + 1) <= (D + 1) * (M + 1)
    BY <1>6, MulMonotone
  <2>3. E * (M + 1) = (M + 1) * E /\ (D + 1) * (M + 1) = (M + 1) * (D + 1)
    BY <1>6, Distribute
  <2>4. (ltv + 1) * E \in Nat /\ (M + 1) * E \in Nat /\ (M + 1) * (D + 1) \in Nat
    BY <1>6, <1>12, ProductInNat
  <2> QED
    BY <2>1, <2>2, <2>3, <2>4
<1>14. (M + 2) * (D + 1) = (M + 1) * (D + 1) + (D + 1) /\ (T + 1) * D = T * D + D
  <2>1. ((M + 1) + 1) * (D + 1) = (M + 1) * (D + 1) + 1 * (D + 1) /\ (M + 1) + 1 = M + 2
    BY <1>6, Distribute
  <2> QED
    BY <1>10, <2>1, Distribute
<1> DEFINE s1 == now * D
           s2 == d * W
           s3 == (ltv + 1) * E
           s4 == (M + 1) * (D + 1)
           s5 == T * D
<1>15. s1 \in Nat /\ s2 \in Nat /\ s3 \in Nat /\ s4 \in Nat /\ s5 \in Nat
  BY <1>1, <1>6, <1>10, <1>11, <1>12, ProductInNat
<1>16. s1 <= s2 /\ s2 < s3 /\ s3 <= s4 /\ s4 + (D + 1) <= s5 + D
  BY <1>10, <1>11, <1>12, <1>13, <1>14
<1>17. s1 < s5
  <2> HIDE DEF s1, s2, s3, s4, s5
  <2> QED
    BY <1>15, <1>16
<1>18. ~(T <= now)
  <2> SUFFICES ASSUME T <= now PROVE FALSE
    OBVIOUS
  <2>1. T * D <= now * D
    BY <1>10, <1>11, MulMonotone
  <2> QED
    BY <1>15, <1>17, <2>1
<1> QED
  BY <1>10, <1>11, <1>18 DEF T

(* What a token amount is worth, in parts.                                 *)
LEMMA WorthInParts ==
  ASSUME NEW c \in Nat, NEW a \in Nat, NEW w \in Nat, w >= a, NEW price \in Prices
  PROVE  LET worth(n) == FloorDiv(n * price, UnitsPerToken)
         IN  /\ worth(c) \in Nat /\ worth(a) \in Nat /\ worth(w) \in Nat /\ worth(c + a) \in Nat
             /\ worth(a) <= worth(w)
             /\ worth(c) + worth(a) <= worth(c + a)
             /\ worth(c + a) <= worth(c) + worth(a) + 1
<1> DEFINE u == UnitsPerToken
           worth(n) == FloorDiv(n * price, u)
<1>1. u \in Nat \ {0} /\ price \in Nat
  BY MarketAssumption
<1> HIDE DEF u
<1> DEFINE cp == c * price
           ap == a * price
           wp == w * price
           rp == (w - a) * price
<1>2. w - a \in Nat /\ c + a \in Nat /\ (w - a) + a = w
  OBVIOUS
<1>3. /\ cp \in Nat /\ ap \in Nat /\ wp \in Nat /\ rp \in Nat
      /\ (c + a) * price = cp + ap /\ wp = rp + ap
  BY <1>1, <1>2, ProductInNat, Distribute
<1> HIDE DEF cp, ap, wp, rp
<1>4. /\ FloorDiv(cp, u) \in Nat /\ FloorDiv(ap, u) \in Nat /\ FloorDiv(cp + ap, u) \in Nat
      /\ FloorDiv(cp, u) + FloorDiv(ap, u) <= FloorDiv(cp + ap, u)
      /\ FloorDiv(cp + ap, u) <= FloorDiv(cp, u) + FloorDiv(ap, u) + 1
  BY <1>1, <1>3, FloorOfSum
<1>5. /\ FloorDiv(rp, u) \in Nat /\ FloorDiv(rp + ap, u) \in Nat
      /\ FloorDiv(rp, u) + FloorDiv(ap, u) <= FloorDiv(rp + ap, u)
  BY <1>1, <1>3, FloorOfSum
<1>6. FloorDiv(ap, u) <= FloorDiv(wp, u) /\ FloorDiv(wp, u) \in Nat
  BY <1>3, <1>4, <1>5
<1> QED
  BY <1>3, <1>4, <1>6 DEF cp, ap, wp, u

(* What remains of a deposit without some of it.                           *)
LEMMA Remains ==
  ASSUME NEW value, NEW deposit \in Nat, NEW d \in Nat, value \in Nat,
         NEW ltv \in LtvAfterRemoving(value, deposit, d)
  PROVE  deposit - value \in Nat \ {0} /\ ltv \in MulDiv(d, WAD, deposit - value)
BY DEF LtvAfterRemoving, MulDiv

LEMMA Worth ==
  ASSUME NEW amount, NEW price, NEW value \in MarketValue(amount, price)
  PROVE  value = FloorDiv(amount * price, UnitsPerToken)
BY MultipliersAreNat DEF MarketValue, MulDiv, U128

(* A position is unsafe by a ratio to a deposit it has.                    *)
LEMMA UnsafeHasDeposit ==
  ASSUME NEW d \in Nat, NEW D \in Nat,
         NEW ltv \in CurrentLtv(d, D), NEW insuring \in InsuringLtv(FloorDiv(D * LtvPct, 100), D)
  PROVE  D # 0 /\ ltv \in MulDiv(d, WAD, D)
BY DEF InsuringLtv, Scaled, MulDiv, CurrentLtv

LEMMA SafeHasDeposit ==
  ASSUME NEW D \in Nat, NEW value \in Nat, NEW d \in Nat,
         NEW ltv \in LtvAfterRemoving(value, D, d)
  PROVE  D # 0
BY DEF LtvAfterRemoving, MulDiv

(* A buffer just injected stays ...                                        *)
LEMMA InjectedStays ==
  ASSUME CushionInv, NEW n \in Nat, Fine(n), ReleaseIsApart(n),
         NEW p \in Positions, Inject(p)
  PROVE  Withdrawable(p)' = {}
<1>1. PICK a \in Injectable(p) :
        /\ injectedAmount' = [injectedAmount EXCEPT ![p] = @ + a]
        /\ DepositCollateral(p, a)
  BY DEF Inject
<1> DEFINE c == collateral[p]
           d == debt[p]
           price == reservePrice
           worth(m) == FloorDiv(m * price, UnitsPerToken)
<1>2. c \in Nat /\ d \in Nat /\ price \in Prices /\ a \in Nat /\ injectedAmount[p] = 0
  BY TokenAmounts, WidthAssumption DEF Injectable, CushionInv, PositionInv, MarketInv, Buffer
<1>3. /\ collateral'[p] = c + a /\ injectedAmount'[p] = a
      /\ debt' = debt /\ reservePrice' = price /\ interest' = interest
  BY <1>1, <1>2 DEF DepositCollateral, CushionInv, PositionInv, Inject, prices
<1>4. PICK ltv \in CurrentLtv(d, worth(c)),
           insuring \in InsuringLtv(FloorDiv(worth(c) * LtvPct, 100), worth(c)) : ltv > insuring
  BY DEF Injectable, UnsafePosition, DepositedValue, AllowedBorrow
<1>5. worth(c) \in Nat /\ worth(c + a) \in Nat
  BY <1>2, WorthInParts
<1>6. worth(c) # 0 /\ ltv \in MulDiv(d, WAD, worth(c))
  BY <1>2, <1>4, <1>5, UnsafeHasDeposit
<1>7. worth(c) >= n
  BY <1>2, <1>6, DepositIsFine
<1>8. SUFFICES ASSUME NEW w \in Withdrawable(p)' PROVE FALSE
  OBVIOUS
<1>9. w \in Nat /\ w >= a
  <2>1. PICK index \in CurrentIndex' : w \in AmountToWithdraw(index, accumulatedInterest', a)
    BY <1>3, <1>8 DEF Withdrawable
  <2>2. CurrentIndex' = CurrentIndex /\ accumulatedInterest' = accumulatedInterest
    BY <1>3 DEF CurrentIndex, interest
  <2>3. accumulatedInterest \in Nat \ {0} /\ sinceInterest \in Nat
    BY <2>1, <2>2, WidthAssumption DEF AmountToWithdraw, CushionInv, MarketInv
  <2>4. index \in Nat /\ index >= accumulatedInterest
    BY <2>1, <2>2, <2>3, IndexGrows DEF CurrentIndex
  <2> QED
    BY <1>2, <2>1, <2>2, <2>3, <2>4, RecoversPrincipal, TokenAmounts, WidthAssumption
<1>10. PICK value \in MarketValue(w, price) :
         \E without \in LtvAfterRemoving(value, worth(c + a), d),
            threshold \in WithdrawingLtv(FloorDiv(worth(c + a) * LtvPct, 100), worth(c + a)) :
           without < threshold
  BY <1>3, <1>8 DEF Withdrawable, SafeWithout, DepositedValue, AllowedBorrow
<1>11. PICK without \in LtvAfterRemoving(value, worth(c + a), d),
            threshold \in WithdrawingLtv(FloorDiv(worth(c + a) * LtvPct, 100), worth(c + a)) :
         without < threshold
  BY <1>10
<1> DEFINE E == worth(c + a) - value
<1>12. value = worth(w) /\ value \in Nat
  BY <1>2, <1>9, Worth, WorthInParts
<1>13. E \in Nat \ {0} /\ without \in MulDiv(d, WAD, E) /\ worth(c + a) # 0
  BY <1>2, <1>5, <1>11, <1>12, Remains, SafeHasDeposit
<1>14. E <= worth(c) + 1
  <2>1. /\ worth(a) \in Nat /\ worth(w) \in Nat
        /\ worth(a) <= worth(w) /\ worth(c + a) <= worth(c) + worth(a) + 1
    BY <1>2, <1>9, WorthInParts
  <2> HIDE DEF worth, c
  <2> QED
    BY <1>5, <1>12, <2>1
<1> HIDE DEF c, d, price, worth, E
<1>15. without >= threshold
  <2> DEFINE D == worth(c)
             D2 == worth(c + a)
  <2>1. /\ D \in Nat \ {0} /\ n <= D /\ D2 \in Nat \ {0} /\ d \in Nat
        /\ ltv \in MulDiv(d, WAD, D) /\ insuring \in InsuringLtv(FloorDiv(D * LtvPct, 100), D)
        /\ ltv > insuring
        /\ E \in Nat \ {0} /\ E <= D + 1 /\ without \in MulDiv(d, WAD, E)
        /\ threshold \in WithdrawingLtv(FloorDiv(D2 * LtvPct, 100), D2)
    BY <1>2, <1>4, <1>5, <1>6, <1>7, <1>11, <1>13, <1>14 DEF d
  <2> HIDE DEF D, D2
  <2> QED
    BY <2>1, UnsafeIsNotSafe
<1>16. without \in Nat
  BY <1>2, <1>13, MultipliersAreNat, MulDivBounds DEF d
<1>17. threshold \in Nat
  <2> DEFINE D == worth(c + a)
  <2>1. /\ D \in Nat \ {0}
        /\ threshold \in Scaled(MulDiv(FloorDiv(D * LtvPct, 100), WAD, D), WithdrawingMultiplier)
    BY <1>5, <1>11, <1>13 DEF WithdrawingLtv, CurrentLtv
  <2> HIDE DEF D
  <2> QED
    BY <2>1, MultipliersAreNat, ScaledBounds
<1> QED
  BY <1>11, <1>15, <1>16, <1>17

(* ... and a position just released is not injected again.                 *)
LEMMA ReleasedStays ==
  ASSUME CushionInv, NEW n \in Nat, Fine(n), ReleaseIsApart(n),
         NEW p \in Positions, WithdrawInjected(p)
  PROVE  Injectable(p)' = {}
<1>1. PICK w \in Withdrawable(p) : WithdrawCollateral(p, w)
  BY DEF WithdrawInjected
<1> DEFINE c == collateral[p]
           d == debt[p]
           price == reservePrice
           rest == SaturatingSub(c, w)
           worth(m) == FloorDiv(m * price, UnitsPerToken)
<1>2. c \in Nat /\ d \in Nat /\ price \in Prices /\ w \in Nat
  BY TokenAmounts, WidthAssumption DEF Withdrawable, CushionInv, PositionInv, MarketInv
<1>3. collateral'[p] = rest /\ debt' = debt /\ reservePrice' = price
  BY <1>1, <1>2 DEF WithdrawCollateral, CushionInv, PositionInv, WithdrawInjected, prices
<1>4. PICK value \in MarketValue(w, price) :
         \E without \in LtvAfterRemoving(value, worth(c), d),
            threshold \in WithdrawingLtv(FloorDiv(worth(c) * LtvPct, 100), worth(c)) :
           without < threshold
  BY DEF Withdrawable, SafeWithout, DepositedValue, AllowedBorrow
<1>5. PICK without \in LtvAfterRemoving(value, worth(c), d),
            threshold \in WithdrawingLtv(FloorDiv(worth(c) * LtvPct, 100), worth(c)) :
         without < threshold
  BY <1>4
<1> DEFINE E == worth(c) - value
<1>6. worth(c) \in Nat /\ worth(w) \in Nat /\ value = worth(w)
  <2>1. worth(c) \in Nat /\ worth(w) \in Nat
    BY <1>2, DepositIsFine
  <2>2. value = worth(w)
    BY <1>4, Worth
  <2> QED
    BY <2>1, <2>2
<1>7. E \in Nat \ {0} /\ without \in MulDiv(d, WAD, E) /\ worth(c) # 0
  BY <1>2, <1>5, <1>6, Remains, SafeHasDeposit
<1>8. w <= c
  <2> SUFFICES ASSUME c <= w PROVE worth(c) <= worth(w)
    <3>1. worth(w) < worth(c)
      BY <1>6, <1>7
    <3> QED
      BY <1>2, <1>6, <3>1
  <2> QED
    BY <1>2, WorthInParts
<1>9. rest \in Nat /\ rest + w = c
  BY <1>2, <1>8 DEF SaturatingSub
<1>10. worth(rest) \in Nat /\ E <= worth(rest) + 1
  <2>1. worth(rest) \in Nat /\ worth(rest + w) <= worth(rest) + worth(w) + 1
    BY <1>2, <1>9, WorthInParts
  <2>2. worth(c) <= worth(rest) + worth(w) + 1
    BY <1>9, <2>1
  <2> HIDE DEF worth, rest
  <2> QED
    BY <1>6, <2>1, <2>2
<1>11. SUFFICES ASSUME UnsafePosition(p)' PROVE FALSE
  BY DEF Injectable
<1>12. PICK ltv \in CurrentLtv(d, worth(rest)),
            insuring \in InsuringLtv(FloorDiv(worth(rest) * LtvPct, 100), worth(rest)) :
         ltv > insuring
  BY <1>3, <1>11 DEF UnsafePosition, DepositedValue, AllowedBorrow
<1>13. worth(rest) # 0 /\ ltv \in MulDiv(d, WAD, worth(rest))
  BY <1>2, <1>10, <1>12, UnsafeHasDeposit
<1>14. worth(rest) >= n
  BY <1>2, <1>9, <1>13, DepositIsFine
<1> HIDE DEF c, d, price, worth, E, rest
<1>15. without >= threshold
  <2> DEFINE D == worth(rest)
             D2 == worth(c)
  <2>1. /\ D \in Nat \ {0} /\ n <= D /\ D2 \in Nat \ {0} /\ d \in Nat
        /\ ltv \in MulDiv(d, WAD, D) /\ insuring \in InsuringLtv(FloorDiv(D * LtvPct, 100), D)
        /\ ltv > insuring
        /\ E \in Nat \ {0} /\ E <= D + 1 /\ without \in MulDiv(d, WAD, E)
        /\ threshold \in WithdrawingLtv(FloorDiv(D2 * LtvPct, 100), D2)
    BY <1>2, <1>5, <1>6, <1>7, <1>10, <1>12, <1>13, <1>14 DEF d
  <2> HIDE DEF D, D2
  <2> QED
    BY <2>1, UnsafeIsNotSafe
<1>16. without \in Nat
  BY <1>2, <1>7, MultipliersAreNat, MulDivBounds DEF d
<1>17. threshold \in Nat
  <2> DEFINE D == worth(c)
  <2>1. /\ D \in Nat \ {0}
        /\ threshold \in Scaled(MulDiv(FloorDiv(D * LtvPct, 100), WAD, D), WithdrawingMultiplier)
    BY <1>5, <1>6, <1>7 DEF WithdrawingLtv, CurrentLtv
  <2> HIDE DEF D
  <2> QED
    BY <2>1, MultipliersAreNat, ScaledBounds
<1> QED
  BY <1>5, <1>15, <1>16, <1>17

(* The two thresholds do not chatter, where a token unit is worth enough   *)
(* for the roundings between them.                                         *)
THEOREM ThresholdsDoNotChatter ==
  ASSUME NEW n \in Nat, Fine(n), ReleaseIsApart(n)
  PROVE  CushionSpec => Hysteresis
<1>1. CushionInv /\ [CushionNext]_vars
      => [\A p \in Positions :
            /\ Inject(p) => Withdrawable(p)' = {}
            /\ WithdrawInjected(p) => Injectable(p)' = {}]_vars
  BY InjectedStays, ReleasedStays
<1> QED
  BY <1>1, CushionInvariant, PTL DEF CushionSpec, Hysteresis

-----------------------------------------------------------------------------
(* What a borrower may reach is not what Cushion liquidates.               *)

(* Every debt that a position has is a ratio to the deposit it has.        *)
LEMMA LiquidatedHasDeposit ==
  ASSUME NEW D \in Nat, NEW threshold \in LiquidationLtv(FloorDiv(D * LiquidationPct, 100), D)
  PROVE  D # 0
BY DEF LiquidationLtv, Scaled, MulDiv

LEMMA MaximumHasDeposit ==
  ASSUME NEW D \in Nat, NEW maximum \in MaxSafeLtv(FloorDiv(D * LiquidationPct, 100), D)
  PROVE  D # 0
BY DEF MaxSafeLtv, LiquidationLtv, Scaled, MulDiv

(* A position that is within a borrower's reach with a deposit of E is not *)
(* liquidated with one of at most a unit less.                             *)
LEMMA MarginHolds ==
  ASSUME NEW n \in Nat, Fine(n), MarginIsApart(n),
         NEW D1 \in Nat, NEW maximum \in MaxSafeLtv(FloorDiv(D1 * LiquidationPct, 100), D1),
         NEW E \in Nat \ {0}, NEW d \in Nat, NEW ltv \in MulDiv(d, WAD, E), ltv <= maximum,
         NEW amount \in Nat, NEW price \in Prices,
         E <= FloorDiv(amount * price, UnitsPerToken) + 1
  PROVE  LET D == FloorDiv(amount * price, UnitsPerToken)
         IN  \A now \in CurrentLtv(d, D),
                threshold \in LiquidationLtv(FloorDiv(D * LiquidationPct, 100), D) :
               ~(now >= threshold)
<1> DEFINE D == FloorDiv(amount * price, UnitsPerToken)
<1>1. D \in Nat /\ (D # 0 => n <= D)
  BY DepositIsFine
<1>2. D1 # 0
  BY MaximumHasDeposit
<1>3. E <= D + 1
  OBVIOUS
<1> HIDE DEF D
<1> SUFFICES ASSUME NEW now \in CurrentLtv(d, D),
                    NEW threshold \in LiquidationLtv(FloorDiv(D * LiquidationPct, 100), D)
             PROVE  ~(now >= threshold)
  BY DEF D
<1>4. D # 0
  BY <1>1, LiquidatedHasDeposit
<1>5. now \in MulDiv(d, WAD, D)
  BY <1>4 DEF CurrentLtv
<1>6. now < threshold
  BY <1>1, <1>2, <1>3, <1>4, <1>5, WithinIsNotLiquidated
<1>7. now \in Nat
  BY <1>1, <1>4, <1>5, MultipliersAreNat, MulDivBounds
<1>8. threshold \in Nat
  <2>1. threshold \in
          Scaled(MulDiv(FloorDiv(D * LiquidationPct, 100), WAD, D), LiquidationMultiplier)
    BY DEF LiquidationLtv
  <2> QED
    BY <1>1, <1>4, <2>1, MultipliersAreNat, ScaledBounds
<1> QED
  BY <1>6, <1>7, <1>8

LEMMA BorrowKeepsMargin ==
  ASSUME CushionInv, NEW n \in Nat, Fine(n), MarginIsApart(n),
         NEW p \in Positions, NEW value \in DebtAmounts, BorrowAsset(p, value)
  PROVE  ~Liquidatable(p)'
<1> DEFINE c == collateral[p]
           d == debt[p] + value
           price == reservePrice
           D == FloorDiv(c * price, UnitsPerToken)
<1>1. PICK ltv \in LtvAfterBorrowing(value, D, debt[p]),
           maximum \in MaxSafeLtv(FloorDiv(D * LiquidationPct, 100), D) : ltv <= maximum
  BY DEF BorrowAsset, SafeWithDebt, DepositedValue, UnhealthyBorrow
<1>2. c \in Nat /\ debt[p] \in Nat /\ price \in Prices /\ value \in Nat /\ d \in Nat
  BY CushionAssumption, WidthAssumption DEF CushionInv, PositionInv, MarketInv
<1>3. collateral' = collateral /\ debt'[p] = d /\ reservePrice' = price
  BY <1>2 DEF BorrowAsset, BorrowLiquidity, prices, CushionInv, MarketInv
<1>4. D \in Nat /\ ltv \in MulDiv(d, WAD, D)
  BY <1>1, <1>2, DepositIsFine DEF LtvAfterBorrowing, U128
<1>5. D # 0 /\ D <= D + 1
  BY <1>1, <1>4, MaximumHasDeposit
<1>6. \A now \in CurrentLtv(d, D),
         threshold \in LiquidationLtv(FloorDiv(D * LiquidationPct, 100), D) :
        ~(now >= threshold)
  <2> HIDE DEF c, d, price
  <2> QED
    BY <1>1, <1>2, <1>4, <1>5, MarginHolds
<1> QED
  BY <1>3, <1>6 DEF Liquidatable, DepositedValue, UnhealthyBorrow

LEMMA DecreaseKeepsMargin ==
  ASSUME CushionInv, NEW n \in Nat, Fine(n), MarginIsApart(n),
         NEW p \in Positions, NEW amount \in CollateralAmounts, DecreaseCollateral(p, amount)
  PROVE  ~Liquidatable(p)'
<1> DEFINE c == collateral[p]
           d == debt[p]
           price == reservePrice
           rest == SaturatingSub(c, amount)
           worth(m) == FloorDiv(m * price, UnitsPerToken)
<1>1. PICK value \in MarketValue(amount, price) :
        \E ltv \in LtvAfterRemoving(value, worth(c), d),
           maximum \in MaxSafeLtv(FloorDiv(worth(c) * LiquidationPct, 100), worth(c)) :
          ltv <= maximum
  BY DEF DecreaseCollateral, DepositedValue, UnhealthyBorrow
<1>2. PICK ltv \in LtvAfterRemoving(value, worth(c), d),
           maximum \in MaxSafeLtv(FloorDiv(worth(c) * LiquidationPct, 100), worth(c)) :
          ltv <= maximum
  BY <1>1
<1>3. c \in Nat /\ d \in Nat /\ price \in Prices /\ amount \in Nat
  BY CushionAssumption, WidthAssumption DEF CushionInv, PositionInv, MarketInv
<1>4. collateral'[p] = rest /\ debt' = debt /\ reservePrice' = price
  BY <1>3 DEF DecreaseCollateral, WithdrawCollateral, prices, CushionInv, PositionInv
<1> DEFINE E == worth(c) - value
<1>5. worth(c) \in Nat /\ worth(amount) \in Nat /\ value = worth(amount)
  <2>1. worth(c) \in Nat /\ worth(amount) \in Nat
    BY <1>3, DepositIsFine
  <2>2. value = worth(amount)
    BY <1>1, Worth
  <2> QED
    BY <2>1, <2>2
<1>6. E \in Nat \ {0} /\ ltv \in MulDiv(d, WAD, E)
  BY <1>2, <1>3, <1>5, Remains
<1>7. amount <= c
  <2> SUFFICES ASSUME c <= amount PROVE worth(c) <= worth(amount)
    <3>1. worth(amount) < worth(c)
      BY <1>5, <1>6
    <3> QED
      BY <1>3, <1>5, <3>1
  <2> QED
    BY <1>3, WorthInParts
<1>8. rest \in Nat /\ rest + amount = c
  BY <1>3, <1>7 DEF SaturatingSub
<1>9. E <= worth(rest) + 1
  <2>1. worth(rest) \in Nat /\ worth(rest + amount) <= worth(rest) + worth(amount) + 1
    BY <1>3, <1>8, WorthInParts
  <2>2. worth(c) <= worth(rest) + worth(amount) + 1
    BY <1>8, <2>1
  <2> HIDE DEF worth, rest
  <2> QED
    BY <1>5, <2>1, <2>2
<1>10. \A now \in CurrentLtv(d, worth(rest)),
          threshold \in LiquidationLtv(FloorDiv(worth(rest) * LiquidationPct, 100), worth(rest)) :
         ~(now >= threshold)
  <2> DEFINE D1 == worth(c)
  <2>1. /\ D1 \in Nat /\ maximum \in MaxSafeLtv(FloorDiv(D1 * LiquidationPct, 100), D1)
        /\ E <= FloorDiv(rest * price, UnitsPerToken) + 1
    BY <1>2, <1>5, <1>9
  <2> HIDE DEF c, d, price, rest, E, D1
  <2> QED
    BY <1>2, <1>3, <1>6, <1>8, <2>1, MarginHolds DEF d, price
<1> QED
  BY <1>4, <1>10 DEF Liquidatable, DepositedValue, UnhealthyBorrow

(* No instruction of a borrower brings a position within reach of          *)
(* Cushion's liquidation at the price of that instruction, where a token   *)
(* unit is worth enough for the roundings in between.                      *)
THEOREM BorrowersKeepMargin ==
  ASSUME NEW n \in Nat, Fine(n), MarginIsApart(n)
  PROVE  CushionSpec => BorrowerKeepsMargin
<1>1. ASSUME CushionInv, NEW p \in Positions,
             \/ \E amount \in CollateralAmounts : DecreaseCollateral(p, amount)
             \/ \E value \in DebtAmounts : BorrowAsset(p, value)
      PROVE  ~(debt[p] > 0 /\ Liquidatable(p))'
  <2>1. ~Liquidatable(p)'
    BY <1>1, BorrowKeepsMargin, DecreaseKeepsMargin
  <2> QED
    BY <2>1
<1>2. CushionInv /\ [CushionNext]_vars
      => [\A p \in Positions :
            (\/ \E amount \in CollateralAmounts : DecreaseCollateral(p, amount)
             \/ \E value \in DebtAmounts : BorrowAsset(p, value))
              => ~(debt[p] > 0 /\ Liquidatable(p))']_vars
  BY <1>1
<1> QED
  BY <1>2, CushionInvariant, PTL DEF CushionSpec, BorrowerKeepsMargin

(* The fractions of consts.rs: 85%, 74.33% (rounded down), 93% and 95%.    *)
(* For a price of a token of at least 3000 * 10^-18 USD for each of its    *)
(* units, for SOL three millionths of a dollar, they leave room enough.    *)
FractionsOfConsts ==
  /\ 100 * InsuringMultiplier = 85 * WAD
  /\ 300 * WithdrawingMultiplier <= 223 * WAD
  /\ 100 * LiquidationMultiplier = 93 * WAD
  /\ 100 * BorrowBufferMultiplier = 95 * WAD
  /\ WAD >= 1000000
  /\ LtvPct > 0

LEMMA FractionsAreApart ==
  ASSUME FractionsOfConsts
  PROVE  ReleaseIsApart(3000) /\ MarginIsApart(3000)
<1> DEFINE W == WAD
           i == InsuringMultiplier
           x == WithdrawingMultiplier
           l == LiquidationMultiplier
           b == BorrowBufferMultiplier
<1>1. /\ W \in Nat \ {0} /\ i \in Nat /\ x \in Nat /\ l \in Nat /\ b \in Nat
      /\ 100 * i = 85 * W /\ 300 * x <= 223 * W /\ 100 * l = 93 * W /\ 100 * b = 95 * W
      /\ W >= 1000000
  BY MultipliersAreNat DEF FractionsOfConsts
<1>2. LtvPct \in Nat /\ LtvPct >= 1 /\ LiquidationPct \in Nat /\ LiquidationPct >= 1
  BY MarketAssumption DEF FractionsOfConsts
<1> DEFINE WW == W * W
<1>3. WW \in Nat /\ 1000000 * W <= WW
  BY <1>1, ProductInNat, MulMonotone
<1>4. ASSUME NEW p \in Nat, p >= 1, NEW m \in Nat, NEW f \in Nat, 100 * m = f * W
      PROVE  /\ (p * W) * W \in Nat /\ WW <= (p * W) * W
             /\ (p * m) * W \in Nat /\ 100 * ((p * m) * W) = f * ((p * W) * W)
             /\ m * W \in Nat /\ 100 * (m * W) = f * WW
  <2>1. /\ p * W \in Nat /\ (p * W) * W \in Nat
        /\ p * m \in Nat /\ (p * m) * W \in Nat /\ m * W \in Nat
    BY <1>1, <1>4, ProductInNat
  <2>2. WW <= (p * W) * W
    <3>1. 1 * WW <= p * WW
      BY <1>3, <1>4, MulMonotone
    <3>2. p * WW = (p * W) * W
      BY <1>1, <1>4, Distribute
    <3> QED
      BY <1>3, <3>1, <3>2
  <2>3. 100 * (m * W) = f * WW
    <3>1. 100 * (m * W) = (100 * m) * W /\ (f * W) * W = f * WW
      BY <1>1, <1>4, Distribute
    <3> QED
      BY <1>4, <3>1
  <2>4. 100 * ((p * m) * W) = f * ((p * W) * W)
    <3>1. 100 * ((p * m) * W) = p * (100 * (m * W)) /\ p * (f * WW) = f * ((p * W) * W)
      BY <1>1, <1>4, Distribute
    <3> QED
      BY <2>3, <3>1
  <2> QED
    BY <2>1, <2>2, <2>3, <2>4
<1>5. ReleaseIsApart(3000)
  <2> DEFINE p == LtvPct
             S == (p * W) * W
             iS == (p * i) * W
             xS == (p * x) * W
             iW == i * W
  <2>1. /\ S \in Nat /\ WW <= S /\ iS \in Nat /\ 100 * iS = 85 * S
        /\ iW \in Nat /\ 100 * iW = 85 * WW
    BY <1>1, <1>2, <1>4
  <2>2. xS \in Nat /\ 300 * xS <= 223 * S
    <3>1. p * x \in Nat /\ xS \in Nat /\ p * W \in Nat
      BY <1>1, <1>2, ProductInNat
    <3>2. (300 * x) * (p * W) <= (223 * W) * (p * W)
      BY <1>1, <3>1, MulMonotone
    <3>3. (300 * x) * (p * W) = 300 * xS /\ (223 * W) * (p * W) = 223 * S
      BY <1>1, <1>2, Distribute
    <3> QED
      BY <3>1, <3>2, <3>3
  <2>3. Apart(p, i, xS, 3000) <=> /\ iS - xS - 100 * i >= 0
                                  /\ 3000 * (iS - xS - 100 * i) >= xS + 100 * iW
    BY DEF Apart
  <2> HIDE DEF p, S, iS, xS, iW, WW, i, x, W
  <2>4. Apart(p, i, xS, 3000)
    BY <1>1, <1>3, <2>1, <2>2, <2>3
  <2> QED
    BY <2>4 DEF ReleaseIsApart, p, i, xS, x, W
<1>6. MarginIsApart(3000)
  <2> DEFINE p == LiquidationPct
             S == (p * W) * W
             lS == (p * l) * W
             bS == (p * l) * b
             lW == l * W
             k == bS + 200 * W
  <2>1. /\ S \in Nat /\ WW <= S /\ lS \in Nat /\ 100 * lS = 93 * S
        /\ lW \in Nat /\ 100 * lW = 93 * WW
    BY <1>1, <1>2, <1>4
  <2>2. bS \in Nat /\ 100 * bS = 95 * lS
    <3>1. p * l \in Nat /\ bS \in Nat
      BY <1>1, <1>2, ProductInNat
    <3>2. 100 * bS = (p * l) * (100 * b) /\ (p * l) * (95 * W) = 95 * lS
      BY <1>1, <3>1, Distribute
    <3> QED
      BY <1>1, <3>1, <3>2
  <2>3. Apart(p, l, k, 3000) <=> /\ lS - k - 100 * l >= 0
                                 /\ 3000 * (lS - k - 100 * l) >= k + 100 * lW
    BY DEF Apart
  <2> HIDE DEF p, S, lS, bS, lW, WW, l, b, W
  <2>4. Apart(p, l, k, 3000)
    BY <1>1, <1>3, <2>1, <2>2, <2>3
  <2> QED
    BY <2>4 DEF MarginIsApart, p, l, k, bS, b, W
<1> QED
  BY <1>5, <1>6

(* So with the thresholds of consts.rs, for every collateral factor, width *)
(* and amount, what was injected is not withdrawn nor what was withdrawn   *)
(* injected at the same price, and no borrower's instruction leaves a      *)
(* position that Cushion liquidates.                                       *)
THEOREM ConstsLeaveRoom ==
  ASSUME FractionsOfConsts, Fine(3000)
  PROVE  CushionSpec => Hysteresis /\ BorrowerKeepsMargin
<1>1. 3000 \in Nat /\ ReleaseIsApart(3000) /\ MarginIsApart(3000)
  BY FractionsAreApart
<1>2. CushionSpec => Hysteresis
  BY <1>1, ThresholdsDoNotChatter
<1>3. CushionSpec => BorrowerKeepsMargin
  BY <1>1, BorrowersKeepMargin
<1> QED
  BY <1>2, <1>3

-----------------------------------------------------------------------------
(* Where the collateral tokens are.                                        *)

(* A sum over a variable follows the variable.                             *)
LEMMA CollateralMoves ==
  ASSUME PositionInv, NEW p \in Positions, NEW amount \in Nat,
         collateral' = [collateral EXCEPT ![p] = amount]
  PROVE  /\ SumFunction(collateral) \in Int
         /\ SumFunction(collateral)' = SumFunction(collateral) - collateral[p] + amount
<1>1. collateral \in [Positions -> Int] /\ amount \in Int
  BY DEF PositionInv
<1>2. /\ SumFunction(collateral) \in Int
      /\ SumFunction([collateral EXCEPT ![p] = amount])
           = SumFunction(collateral) - collateral[p] + amount
  BY <1>1, PositionsAssumption, SumAfterUpdate
<1> QED
  BY <1>2

LEMMA WalletMoves ==
  ASSUME MarketInv, NEW p \in Positions, NEW amount \in Nat,
         wallet' = [wallet EXCEPT ![p] = amount]
  PROVE  /\ SumFunction(wallet) \in Int
         /\ SumFunction(wallet)' = SumFunction(wallet) - wallet[p] + amount
<1>1. wallet \in [Positions -> Int] /\ amount \in Int
  BY DEF MarketInv
<1>2. /\ SumFunction(wallet) \in Int
      /\ SumFunction([wallet EXCEPT ![p] = amount]) = SumFunction(wallet) - wallet[p] + amount
  BY <1>1, PositionsAssumption, SumAfterUpdate
<1> QED
  BY <1>2

LEMMA AssetsMove ==
  ASSUME VaultInv, NEW u \in Users, NEW amount \in Nat,
         userAssets' = [userAssets EXCEPT ![u] = amount]
  PROVE  /\ SumFunction(userAssets) \in Int
         /\ SumFunction(userAssets)' = SumFunction(userAssets) - userAssets[u] + amount
<1>1. userAssets \in [Users -> Int] /\ amount \in Int
  BY DEF VaultInv, VaultTypeOK
<1>2. /\ SumFunction(userAssets) \in Int
      /\ SumFunction([userAssets EXCEPT ![u] = amount])
           = SumFunction(userAssets) - userAssets[u] + amount
  BY <1>1, UsersAssumption, SumAfterUpdate
<1> QED
  BY <1>2

LEMMA TokensAreIntegers ==
  ASSUME CushionInv
  PROVE  /\ vaultToken \in Nat /\ SumFunction(userAssets) \in Int
         /\ SumFunction(wallet) \in Int /\ SumFunction(collateral) \in Int
<1>1. /\ vaultToken \in Nat /\ userAssets \in [Users -> Int]
      /\ wallet \in [Positions -> Int] /\ collateral \in [Positions -> Int]
  BY DEF CushionInv, VaultInv, VaultTypeOK, PositionInv, MarketInv
<1> QED
  BY <1>1, PositionsAssumption, UsersAssumption, SumIsInteger

(* What is taken is what there was, where a ratio to the rest exists ...   *)
LEMMA RemovedIsHad ==
  ASSUME NEW c \in Nat, NEW a \in Nat, NEW d \in Nat, NEW price \in Prices,
         NEW value \in MarketValue(a, price),
         NEW ltv \in LtvAfterRemoving(value, FloorDiv(c * price, UnitsPerToken), d)
  PROVE  a <= c
<1> DEFINE worth(m) == FloorDiv(m * price, UnitsPerToken)
<1>1. worth(c) \in Nat /\ worth(a) \in Nat
  BY WorthInParts
<1>2. value = worth(a)
  BY Worth
<1>3. worth(c) - value \in Nat \ {0}
  <2> HIDE DEF worth
  <2> QED
    BY <1>1, <1>2, Remains DEF worth
<1> SUFFICES ASSUME c <= a PROVE worth(c) <= worth(a)
  <2>1. worth(a) < worth(c)
    BY <1>1, <1>2, <1>3
  <2> QED
    BY <1>1, <2>1
<1> QED
  BY WorthInParts

(* ... and where it is worth no more than the deposit, at a price that is  *)
(* no lower.                                                               *)
LEMMA LiquidatedIsHad ==
  ASSUME TOKEN_PRECISION = UnitsPerToken,
         NEW c \in Nat, NEW d \in Nat, NEW price \in Prices, NEW paid \in Prices, price <= paid,
         NEW a \in AmountToWithdrawAfterRepay(d, FloorDiv(c * price, UnitsPerToken), paid)
  PROVE  a <= c
<1> DEFINE u == UnitsPerToken
           cp == c * price
           cq == c * paid
           D == FloorDiv(cp, u)
<1>1. u \in Nat \ {0} /\ price \in Nat /\ paid \in Nat \ {0}
  BY MarketAssumption
<1>2. cp \in Nat /\ cq \in Nat /\ cp <= cq
  <2>1. price * c <= paid * c
    BY <1>1, MulMonotone
  <2> QED
    BY <1>1, <2>1, ProductInNat, Distribute
<1> HIDE DEF u, cp, cq
<1>3. D \in Nat /\ D * u <= cp
  BY <1>1, <1>2 DEF FloorDiv
<1>4. PICK profit \in MulDiv(D - d, LiquidationProfit, WAD) :
         d <= D /\ a \in UNION {U64(m) : m \in MulDiv(d + profit, u, paid)}
  <2>1. a \in AmountToWithdrawAfterRepay(d, D, paid)
    BY DEF D, cp, u
  <2> HIDE DEF D
  <2>2. ~(d > D)
    BY <2>1 DEF AmountToWithdrawAfterRepay
  <2>3. d <= D
    BY <1>3, <2>2
  <2> QED
    BY <2>1, <2>2, <2>3 DEF AmountToWithdrawAfterRepay, u
<1> HIDE DEF D
<1>5. D - d \in Nat /\ WAD \in Nat \ {0} /\ LiquidationProfit \in Nat /\ LiquidationProfit <= WAD
  BY <1>3, <1>4, MultipliersAreNat, ThresholdAssumption
<1>6. profit \in Nat /\ profit * WAD <= (D - d) * LiquidationProfit
  BY <1>5, MulDivBounds
<1>7. profit <= D - d
  <2>1. LiquidationProfit * (D - d) <= WAD * (D - d)
    BY <1>5, MulMonotone
  <2>2. LiquidationProfit * (D - d) = (D - d) * LiquidationProfit
        /\ WAD * (D - d) = (D - d) * WAD
    BY <1>5, Distribute
  <2>3. (D - d) * LiquidationProfit \in Nat /\ (D - d) * WAD \in Nat /\ profit * WAD \in Nat
    BY <1>5, <1>6, ProductInNat
  <2>4. profit * WAD <= (D - d) * WAD
    BY <1>6, <2>1, <2>2, <2>3
  <2> QED
    BY <1>5, <1>6, <2>4, MulCancel
<1>8. d + profit \in Nat /\ d + profit <= D
  BY <1>3, <1>4, <1>6, <1>7
<1>9. a \in MulDiv(d + profit, u, paid)
  BY <1>4 DEF U64
<1>10. a \in Nat /\ a * paid <= (d + profit) * u
  BY <1>1, <1>8, <1>9, MulDivBounds
<1>11. a * paid <= c * paid
  <2>1. (d + profit) * u <= D * u
    BY <1>1, <1>3, <1>8, MulMonotone
  <2>2. /\ a * paid \in Nat /\ (d + profit) * u \in Nat /\ D * u \in Nat
    BY <1>1, <1>3, <1>8, <1>10, ProductInNat
  <2> QED
    BY <1>2, <1>3, <1>10, <2>1, <2>2 DEF cq
<1> QED
  BY <1>1, <1>10, <1>11, MulCancel

(* Collateral of a position and idle tokens of the vault change places.    *)
LEMMA VaultPositionTokens ==
  ASSUME CushionInv, NEW p \in Positions, NEW rest \in Nat,
         collateral' = [collateral EXCEPT ![p] = rest],
         vaultToken' = vaultToken + collateral[p] - rest,
         UNCHANGED <<userAssets, wallet>>
  PROVE  Tokens' = Tokens
<1>1. /\ SumFunction(collateral) \in Int
      /\ SumFunction(collateral)' = SumFunction(collateral) - collateral[p] + rest
  BY CollateralMoves DEF CushionInv
<1>2. SumFunction(userAssets)' = SumFunction(userAssets) /\ SumFunction(wallet)' = SumFunction(wallet)
  OBVIOUS
<1>3. collateral[p] \in Nat
  BY DEF CushionInv, PositionInv
<1> QED
  BY <1>1, <1>2, <1>3, TokensAreIntegers DEF Tokens

(* Collateral of a position and its owner's tokens do.                     *)
LEMMA OwnerPositionTokens ==
  ASSUME CushionInv, NEW p \in Positions, NEW rest \in Nat, NEW kept \in Nat,
         collateral' = [collateral EXCEPT ![p] = rest],
         wallet' = [wallet EXCEPT ![p] = kept],
         wallet[p] + collateral[p] = kept + rest,
         UNCHANGED <<userAssets, vaultToken>>
  PROVE  Tokens' = Tokens
<1>1. /\ SumFunction(collateral) \in Int
      /\ SumFunction(collateral)' = SumFunction(collateral) - collateral[p] + rest
  BY CollateralMoves DEF CushionInv
<1>2. /\ SumFunction(wallet) \in Int
      /\ SumFunction(wallet)' = SumFunction(wallet) - wallet[p] + kept
  BY WalletMoves DEF CushionInv
<1>3. SumFunction(userAssets)' = SumFunction(userAssets) /\ vaultToken' = vaultToken
  OBVIOUS
<1>4. collateral[p] \in Nat /\ wallet[p] \in Nat
  BY DEF CushionInv, PositionInv, MarketInv
<1>5. SumFunction(wallet)' + SumFunction(collateral)' = SumFunction(wallet) + SumFunction(collateral)
  BY <1>1, <1>2, <1>4
<1>6. SumFunction(wallet)' \in Int /\ SumFunction(collateral)' \in Int
  BY <1>1, <1>2, <1>4
<1> QED
  BY <1>3, <1>5, <1>6, TokensAreIntegers DEF Tokens

LEMMA TokensUntouched ==
  ASSUME UNCHANGED <<vaultToken, userAssets, wallet, collateral>>
  PROVE  Tokens' = Tokens
BY DEF Tokens

LEMMA IncreaseKeepsTokens ==
  ASSUME CushionInv, NEW p \in Positions, NEW amount \in Nat, IncreaseCollateral(p, amount)
  PROVE  Tokens' = Tokens
<1> DEFINE rest == collateral[p] + amount
           kept == wallet[p] - amount
<1>1. collateral[p] \in Nat /\ wallet[p] \in Nat /\ wallet[p] >= amount
  BY DEF CushionInv, PositionInv, MarketInv, IncreaseCollateral
<1>2. /\ collateral' = [collateral EXCEPT ![p] = rest]
      /\ wallet' = [wallet EXCEPT ![p] = kept]
      /\ UNCHANGED <<userAssets, vaultToken>>
  BY DEF IncreaseCollateral, DepositCollateral, vaultVars
<1>3. rest \in Nat /\ kept \in Nat /\ wallet[p] + collateral[p] = kept + rest
  BY <1>1
<1> HIDE DEF rest, kept
<1> QED
  BY <1>2, <1>3, OwnerPositionTokens

LEMMA DecreaseKeepsTokens ==
  ASSUME CushionInv, NEW p \in Positions, NEW amount \in Nat, DecreaseCollateral(p, amount)
  PROVE  Tokens' = Tokens
<1> DEFINE rest == collateral[p] - amount
           kept == wallet[p] + amount
<1>1. collateral[p] \in Nat /\ wallet[p] \in Nat /\ debt[p] \in Nat /\ reservePrice \in Prices
  BY DEF CushionInv, PositionInv, MarketInv
<1>2. PICK value \in MarketValue(amount, reservePrice) :
        \E ltv \in LtvAfterRemoving(value, DepositedValue(p), debt[p]) : TRUE
  BY DEF DecreaseCollateral
<1>3. amount <= collateral[p]
  BY <1>1, <1>2, RemovedIsHad DEF DepositedValue
<1>4. /\ collateral' = [collateral EXCEPT ![p] = rest]
      /\ wallet' = [wallet EXCEPT ![p] = kept]
      /\ UNCHANGED <<userAssets, vaultToken>>
  <2>1. SaturatingSub(collateral[p], amount) = rest
    BY <1>1, <1>3 DEF SaturatingSub
  <2> QED
    BY <2>1 DEF DecreaseCollateral, WithdrawCollateral, vaultVars
<1>5. rest \in Nat /\ kept \in Nat /\ wallet[p] + collateral[p] = kept + rest
  BY <1>1, <1>3
<1> HIDE DEF rest, kept
<1> QED
  BY <1>4, <1>5, OwnerPositionTokens

LEMMA InjectKeepsTokens ==
  ASSUME CushionInv, NEW p \in Positions, Inject(p)
  PROVE  Tokens' = Tokens
<1>1. PICK amount \in Injectable(p) : FromVault(amount) /\ DepositCollateral(p, amount)
  BY DEF Inject
<1> DEFINE rest == collateral[p] + amount
<1>2. amount \in Nat /\ collateral[p] \in Nat
  BY TokenAmounts, WidthAssumption DEF Injectable, CushionInv, PositionInv
<1>3. /\ collateral' = [collateral EXCEPT ![p] = rest] /\ vaultToken' = vaultToken - amount
      /\ UNCHANGED <<userAssets, wallet>>
  BY <1>1 DEF Inject, DepositCollateral, FromVault, ledger
<1>4. rest \in Nat /\ vaultToken - amount = vaultToken + collateral[p] - rest
  BY <1>2, TokensAreIntegers
<1> HIDE DEF rest
<1> QED
  BY <1>3, <1>4, VaultPositionTokens

(* What comes back to the vault from a position that had it.               *)
LEMMA ReturnKeepsTokens ==
  ASSUME CushionInv, NEW p \in Positions, NEW amount \in Nat, amount <= collateral[p],
         WithdrawCollateral(p, amount), ToVault(amount), UNCHANGED wallet
  PROVE  Tokens' = Tokens
<1> DEFINE rest == collateral[p] - amount
<1>1. collateral[p] \in Nat
  BY DEF CushionInv, PositionInv
<1>2. /\ collateral' = [collateral EXCEPT ![p] = rest] /\ vaultToken' = vaultToken + amount
      /\ UNCHANGED <<userAssets, wallet>>
  <2>1. SaturatingSub(collateral[p], amount) = rest
    BY <1>1 DEF SaturatingSub
  <2> QED
    BY <2>1 DEF WithdrawCollateral, ToVault, ledger
<1>3. rest \in Nat /\ vaultToken + amount = vaultToken + collateral[p] - rest
  BY <1>1, TokensAreIntegers
<1> HIDE DEF rest
<1> QED
  BY <1>2, <1>3, VaultPositionTokens

LEMMA WithdrawKeepsTokens ==
  ASSUME CushionInv, NEW p \in Positions, WithdrawInjected(p)
  PROVE  Tokens' = Tokens
<1>1. PICK amount \in Withdrawable(p) : WithdrawCollateral(p, amount) /\ ToVault(amount)
  BY DEF WithdrawInjected
<1>2. /\ collateral[p] \in Nat /\ debt[p] \in Nat /\ reservePrice \in Prices /\ amount \in Nat
  BY TokenAmounts, WidthAssumption DEF Withdrawable, CushionInv, PositionInv, MarketInv
<1>3. PICK value \in MarketValue(amount, reservePrice) :
        \E ltv \in LtvAfterRemoving(value, DepositedValue(p), debt[p]) : TRUE
  BY DEF Withdrawable, SafeWithout
<1>4. amount <= collateral[p]
  BY <1>2, <1>3, RemovedIsHad DEF DepositedValue
<1>5. UNCHANGED wallet
  BY DEF WithdrawInjected
<1> QED
  BY <1>1, <1>2, <1>4, <1>5, ReturnKeepsTokens

LEMMA LiquidateKeepsTokens ==
  ASSUME CushionInv, TOKEN_PRECISION = MintFactor,
         NEW p \in Positions, Liquidate(p), vaultPrice >= reservePrice
  PROVE  Tokens' = Tokens
<1>1. PICK amount \in AmountToWithdrawAfterRepay(debt[p], DepositedValue(p), vaultPrice) :
        WithdrawCollateral(p, amount) /\ ToVault(amount)
  BY DEF Liquidate
<1>2. /\ collateral[p] \in Nat /\ debt[p] \in Nat /\ reservePrice \in Prices /\ amount \in Nat
      /\ vaultPrice \in Prices \cup {0}
  BY TokenAmounts, WidthAssumption DEF CushionInv, PositionInv, MarketInv
<1>3. vaultPrice \in Prices /\ reservePrice <= vaultPrice
  BY <1>2, MarketAssumption
<1>4. amount <= collateral[p]
  BY <1>1, <1>2, <1>3, MultipliersAreNat, LiquidatedIsHad DEF DepositedValue
<1>5. UNCHANGED wallet
  BY DEF Liquidate
<1> QED
  BY <1>1, <1>2, <1>4, <1>5, ReturnKeepsTokens

LEMMA TradesKeepTokens ==
  ASSUME CushionInv, DepositorActs
  PROVE  Tokens' = Tokens
<1>1. UNCHANGED <<wallet, collateral>>
  BY DEF DepositorActs, obligations
<1>2. SumFunction(wallet)' = SumFunction(wallet) /\ SumFunction(collateral)' = SumFunction(collateral)
  BY <1>1
<1>3. ASSUME NEW u \in Users, NEW x \in Nat, NEW q, Enter(u, x, q) \/ Leave(u, x, q)
      PROVE  Tokens' = Tokens
  <2>1. userAssets[u] \in Nat /\ VaultInv
    BY DEF CushionInv, VaultInv, VaultTypeOK
  <2>2. CASE Enter(u, x, q)
    <3> DEFINE kept == userAssets[u] - x
    <3>1. /\ userAssets' = [userAssets EXCEPT ![u] = kept] /\ kept \in Nat
          /\ vaultToken' = vaultToken + x
      BY <2>1, <2>2 DEF Enter, PayVault
    <3> HIDE DEF kept
    <3>2. /\ SumFunction(userAssets) \in Int
          /\ SumFunction(userAssets)' = SumFunction(userAssets) - userAssets[u] + kept
      BY <2>1, <3>1, AssetsMove
    <3> QED
      BY <1>2, <2>1, <3>1, <3>2, TokensAreIntegers DEF Tokens, kept
  <2>3. CASE Leave(u, x, q)
    <3> DEFINE kept == userAssets[u] + x
    <3>1. /\ userAssets' = [userAssets EXCEPT ![u] = kept] /\ kept \in Nat
          /\ vaultToken' = vaultToken - x
      BY <2>1, <2>3 DEF Leave, PayUser
    <3> HIDE DEF kept
    <3>2. /\ SumFunction(userAssets) \in Int
          /\ SumFunction(userAssets)' = SumFunction(userAssets) - userAssets[u] + kept
      BY <2>1, <3>1, AssetsMove
    <3> QED
      BY <1>2, <2>1, <3>1, <3>2, TokensAreIntegers DEF Tokens, kept
  <2> QED
    BY <1>3, <2>2, <2>3
<1>4. CASE LiquidityInstruction
  <2>1. PICK u \in Users, x \in Nat, q \in Nat : Enter(u, x, q) \/ Leave(u, x, q)
    BY <1>4, InstructionsTrade DEF CushionInv
  <2> QED
    BY <1>3, <2>1
<1>5. CASE BurnOwnShares
  BY <1>1, <1>5, TokensUntouched DEF BurnOwnShares
<1> QED
  BY <1>4, <1>5 DEF DepositorActs

(* No step but a swap makes or loses a token, nor does a liquidation at a  *)
(* price that is not below the market's.                                   *)
LEMMA TokensStep ==
  ASSUME CushionInv, TOKEN_PRECISION = MintFactor, [CushionNext]_vars,
         \A p \in Positions : /\ ~LiquidateSwap(p) /\ ~AdminLiquidateSwap(p)
                              /\ Liquidate(p) => vaultPrice >= reservePrice
  PROVE  Tokens' = Tokens
<1>1. CASE DepositorActs
  BY <1>1, TradesKeepTokens
<1>2. CASE BufferInstruction
  BY <1>2, InjectKeepsTokens, WithdrawKeepsTokens DEF BufferInstruction
<1>3. CASE Liquidation
  BY <1>3, LiquidateKeepsTokens DEF Liquidation
<1>4. CASE BorrowerActs
  <2>1. ASSUME NEW p \in Positions, NEW amount \in CollateralAmounts,
               IncreaseCollateral(p, amount) \/ DecreaseCollateral(p, amount)
        PROVE  Tokens' = Tokens
    BY <2>1, CushionAssumption, WidthAssumption, IncreaseKeepsTokens, DecreaseKeepsTokens
  <2>2. ASSUME NEW p \in Positions, NEW value \in DebtAmounts,
               BorrowAsset(p, value) \/ RepayDebt(p, value)
        PROVE  Tokens' = Tokens
    BY <2>2, TokensUntouched DEF BorrowAsset, RepayDebt, vaultVars
  <2> QED
    BY <1>4, <2>1, <2>2 DEF BorrowerActs
<1>5. CASE UpdateMarketPrice \/ MarketMoves \/ ClockTicks \/ UNCHANGED vars
  BY <1>5, TokensUntouched DEF UpdateMarketPrice, MarketMoves, PriceMoves, ClockTicks, vars,
       vaultVars, obligations
<1> QED
  BY <1>1, <1>2, <1>3, <1>4, <1>5 DEF CushionNext

(* Nobody is paid what nobody had: with as many decimals in the vault as   *)
(* in the market, no instruction takes more collateral out of a position   *)
(* than it has, whatever the stand-in would pay.                           *)
THEOREM TokensAreKept ==
  ASSUME TOKEN_PRECISION = MintFactor
  PROVE  CushionSpec => TokensKept
<1>1. CushionInv /\ [CushionNext]_vars
      => [(\A p \in Positions :
             /\ ~LiquidateSwap(p) /\ ~AdminLiquidateSwap(p)
             /\ Liquidate(p) => vaultPrice >= reservePrice)
            => Tokens' = Tokens]_vars
  BY TokensStep
<1> QED
  BY <1>1, CushionInvariant, PTL DEF CushionSpec, TokensKept
=============================================================================
