------------------------ MODULE PositionClientProofs ------------------------
(***************************************************************************)
(* What a borrower may count on whose transactions wait in a wallet, for   *)
(* every number of positions, price and amount.                            *)
(*                                                                         *)
(* A repayment of "max" moves what the owner has, an amount that no        *)
(* instruction of module Cushion is explored with; CushionProofs's lemmas  *)
(* take any amount, so CushionInv carries over.  To it WalletInv adds that *)
(* a waiting transaction is one that the client built: it refreshes every  *)
(* reserve it passes besides the selected one, and "max" is the sentinel.  *)
(***************************************************************************)
EXTENDS PositionClient, CushionProofs

OwnerInv ==
  /\ opened \subseteq Positions
  /\ wealth \in [Positions -> Nat]
  /\ accounts \in [Positions -> SUBSET Reserves]

FromClient(tx) ==
  /\ tx.instruction \in Instructions
  /\ tx.amount \in 1 .. U64_MAX
  /\ tx.remaining \subseteq Reserves
  /\ tx.creates \subseteq Reserves
  /\ tx.refresh = tx.remaining
  /\ tx.instruction = "repayMax" => tx.amount = U64_MAX

WalletInv == \A tx \in pending : tx.position \in opened /\ FromClient(tx)

ClientInv == CushionInv /\ OwnerInv /\ WalletInv

(* Whatever is built is addressed to its position and well formed.         *)
LEMMA BuiltByClient ==
  ASSUME NEW p \in Positions, NEW tx \in BuildableTxs(p)
  PROVE  tx.position = p /\ FromClient(tx)
<1>1. ASSUME NEW i \in Instructions, NEW a \in 1 .. U64_MAX, i = "repayMax" => a = U64_MAX
      PROVE  Built(p, i, a).position = p /\ FromClient(Built(p, i, a))
  BY <1>1 DEF Built, FromClient, RefreshedReserves, RemainingReserves, ActiveReserves,
              EnsuredAtas, Selected, Reserves
<1>2. \A n \in Nat \ {0} : U64(n) \subseteq 1 .. U64_MAX
  BY WidthAssumption DEF U64
<1>3. U64_MAX \in 1 .. U64_MAX
  BY WidthAssumption, ScaleAssumption
<1>4. CollateralAmounts \subseteq Nat \ {0} /\ DebtAmounts \subseteq Nat \ {0}
  BY CushionAssumption, WidthAssumption
<1>5. PICK i \in Instructions, a \in 1 .. U64_MAX :
        tx = Built(p, i, a) /\ (i = "repayMax" => a = U64_MAX)
  BY <1>2, <1>3, <1>4 DEF BuildableTxs, BuildIncreaseCollateralTx, BuildDecreaseCollateralTx,
       BuildBorrowTx, BuildRepayTx, BuildRepayMaxTx, MaxAmount, Instructions
<1> QED
  BY <1>1, <1>5

(* A transaction that lands is a step that CushionProofs knows, and never  *)
(* takes USDC that its owner does not have.                                *)
LEMMA LandingKeeps ==
  ASSUME CushionInv, OwnerInv, NEW tx, tx.position \in Positions, FromClient(tx), Lands(tx)
  PROVE  IdleMoves /\ PositionInv' /\ MarketInv' /\ (UNCHANGED opened => OwnerInv')
<1> DEFINE p == tx.position
           amount == tx.amount
<1>1. amount \in Nat
  BY WidthAssumption DEF FromClient
<1>2. /\ IdleMoves /\ PositionInv' /\ MarketInv'
      /\ wealth' \in [Positions -> Nat]
  <2>1. CASE IncreaseCollateral(p, amount) /\ UNCHANGED wealth
    BY <1>1, <2>1, IncreaseCollateralKeeps DEF OwnerInv
  <2>2. CASE DecreaseCollateral(p, amount) /\ UNCHANGED wealth
    BY <1>1, <2>2, DecreaseCollateralKeeps DEF OwnerInv
  <2>3. CASE BorrowAsset(p, amount) /\ wealth' = [wealth EXCEPT ![p] = @ + amount]
    <3>1. wealth' \in [Positions -> Nat]
      BY <1>1, <2>3 DEF OwnerInv
    <3> QED
      BY <1>1, <2>3, <3>1, DebtKeeps
  <2>4. CASE Repay(p, amount)
    <3>1. PICK value \in RepayValue(p, amount) :
            RepayDebt(p, value) /\ wealth' = [wealth EXCEPT ![p] = @ - value]
      BY <2>4 DEF Repay
    <3>2. value \in Nat /\ wealth[p] - value \in Nat
      BY <1>1 DEF RepayValue, OwnerInv
    <3>3. wealth' \in [Positions -> Nat]
      BY <3>1, <3>2 DEF OwnerInv
    <3> QED
      BY <3>1, <3>2, <3>3, DebtKeeps
  <2> QED
    BY <2>1, <2>2, <2>3, <2>4 DEF Lands, Execute
<1>3. accounts' \in [Positions -> SUBSET Reserves]
  BY DEF Lands, OwnerInv, Selected, Reserves
<1> QED
  BY <1>2, <1>3 DEF OwnerInv

(* One step of everybody: the ledger moves by a depositor's instruction    *)
(* only, and all of the invariant but the vault's part is kept.            *)
LEMMA ClientStep ==
  ASSUME ClientInv, [ClientNext]_<<vars, clientVars>>
  PROVE  /\ DepositorActs \/ IdleMoves
         /\ PositionInv' /\ MarketInv' /\ OwnerInv' /\ WalletInv'
<1> USE DEF ClientInv
<1>1. ASSUME UNCHANGED vars
      PROVE  IdleMoves /\ PositionInv' /\ MarketInv'
  BY <1>1, OutsideKeeps
<1>2. CASE OpensPosition
  <2>1. PICK p \in Positions \ opened : opened' = opened \cup {p}
    BY <1>2 DEF OpensPosition
  <2>2. OwnerInv' /\ WalletInv'
    BY <1>2, <2>1 DEF OpensPosition, OwnerInv, WalletInv, FromClient
  <2> QED
    BY <1>1, <1>2, <2>2 DEF OpensPosition
<1>3. CASE BuildsTx
  <2>1. PICK p \in opened : \E tx \in BuildableTxs(p) : pending' = {tx}
    BY <1>3 DEF BuildsTx
  <2>2. PICK tx \in BuildableTxs(p) : pending' = {tx}
    BY <2>1
  <2>3. p \in Positions
    BY DEF OwnerInv
  <2>4. tx.position = p /\ FromClient(tx)
    BY <2>3, BuiltByClient
  <2>5. OwnerInv' /\ WalletInv'
    BY <1>3, <2>2, <2>4 DEF BuildsTx, OwnerInv, WalletInv, FromClient
  <2> QED
    BY <1>1, <1>3, <2>5 DEF BuildsTx
<1>4. CASE SendsTx
  <2>1. PICK tx \in pending : Lands(tx)
    BY <1>4 DEF SendsTx
  <2>2. tx.position \in Positions /\ FromClient(tx)
    BY DEF OwnerInv, WalletInv
  <2>3. WalletInv'
    BY <1>4 DEF SendsTx, WalletInv
  <2> QED
    BY <1>4, <2>1, <2>2, <2>3, LandingKeeps DEF SendsTx
<1>5. CASE DropsTx
  <2>1. OwnerInv' /\ WalletInv'
    BY <1>5 DEF DropsTx, OwnerInv, WalletInv
  <2> QED
    BY <1>1, <1>5, <2>1 DEF DropsTx
<1>6. CASE ActsAtOnce
  <2>1. PICK p \in opened : \E tx \in BuildableTxs(p) : Lands(tx) /\ UNCHANGED <<opened, pending>>
    BY <1>6 DEF ActsAtOnce
  <2>2. PICK tx \in BuildableTxs(p) : Lands(tx) /\ UNCHANGED <<opened, pending>>
    BY <2>1
  <2>3. tx.position \in Positions /\ FromClient(tx)
    BY BuiltByClient DEF OwnerInv
  <2>4. WalletInv'
    BY <2>2 DEF WalletInv, FromClient
  <2> QED
    BY <2>2, <2>3, <2>4, LandingKeeps
<1>7. CASE TimePasses
  <2>1. OwnerInv' /\ WalletInv'
    BY <1>7 DEF TimePasses, OwnerInv, WalletInv
  <2>2. IdleMoves /\ PositionInv' /\ MarketInv'
    BY <1>7, OutsideKeeps DEF TimePasses
  <2> QED
    BY <2>1, <2>2
<1>8. CASE OthersAct
  <2>1. OwnerInv' /\ WalletInv'
    BY <1>8 DEF OthersAct, clientVars, OwnerInv, WalletInv, FromClient
  <2>2. [CushionNext]_vars
    BY <1>8 DEF OthersAct, CushionNext, BufferInstruction, Liquidation, OwnerInv
  <2> QED
    BY <2>1, <2>2, CushionStep
<1>9. CASE UNCHANGED <<vars, clientVars>>
  <2>1. OwnerInv' /\ WalletInv'
    BY <1>9 DEF clientVars, OwnerInv, WalletInv, FromClient
  <2> QED
    BY <1>1, <1>9, <2>1
<1> QED
  BY <1>2, <1>3, <1>4, <1>5, <1>6, <1>7, <1>8, <1>9 DEF ClientNext

LEMMA ClientStepPreserves ==
  ASSUME ClientInv, [ClientNext]_<<vars, clientVars>>
  PROVE  ClientInv' /\ PriceDoesNotFall
<1>1. VaultInv' /\ PriceDoesNotFall
  BY ClientStep, LedgerAlone, DepositorsTrade DEF ClientInv, CushionInv
<1> QED
  BY <1>1, ClientStep DEF ClientInv, CushionInv

(* The inductive invariant holds in every state of program and clients.    *)
THEOREM ClientInvariant == ClientSpec => []ClientInv
<1>1. ClientInit => ClientInv
  BY CushionInitEstablishes DEF ClientInit, ClientInv, OwnerInv, WalletInv
<1>2. ClientInv /\ [ClientNext]_<<vars, clientVars>> => ClientInv'
  BY ClientStepPreserves
<1> QED
  BY <1>1, <1>2, PTL DEF ClientSpec

(* Wallets, owners' accounts and waiting transactions keep their types.    *)
THEOREM ClientTypes == ClientSpec => []ClientTypeOK
<1>1. ClientInv => ClientTypeOK
  BY DEF ClientInv, OwnerInv, WalletInv, FromClient, ClientTypeOK
<1> QED
  BY <1>1, ClientInvariant, PTL

(* Clients do not undo what the program promises: buffers stay in place    *)
(* and nobody is diluted, whatever transactions land late or side by side. *)
THEOREM ClientsKeepPromises == ClientSpec => []BufferInPlace /\ [][PriceDoesNotFall]_vars
<1>1. ClientInv => BufferInPlace
  BY DEF ClientInv, CushionInv, PositionInv, Buffer, BufferInPlace
<1>2. ClientInv /\ [ClientNext]_<<vars, clientVars>> => [PriceDoesNotFall]_vars
  BY ClientStepPreserves
<1> QED
  BY <1>1, <1>2, ClientInvariant, PTL DEF ClientSpec

(* Neither do they cost the depositors anything: whatever waits in wallets,*)
(* idle tokens and buffers keep up with the managed assets outside of      *)
(* liquidations.                                                           *)
THEOREM ClientsKeepBacking == ClientSpec => BackingKept
<1>1. ASSUME ClientInv, [ClientNext]_<<vars, clientVars>>, ~Liquidation
      PROVE  Surplus' >= Surplus
  <2>1. CASE OpensPosition \/ BuildsTx \/ DropsTx \/ UNCHANGED <<vars, clientVars>>
    <3>1. [CushionNext]_vars
      BY <2>1 DEF OpensPosition, BuildsTx, DropsTx
    <3> QED
      BY <1>1, <3>1, BackingStep DEF ClientInv
  <2>2. CASE TimePasses \/ OthersAct
    <3>1. [CushionNext]_vars
      BY <1>1, <2>2 DEF TimePasses, OthersAct, CushionNext, BufferInstruction, Liquidation,
                        ClientInv, OwnerInv
    <3> QED
      BY <1>1, <3>1, BackingStep DEF ClientInv
  <2>3. CASE SendsTx \/ ActsAtOnce
    <3>1. PICK tx : Lands(tx)
      BY <2>3 DEF SendsTx, ActsAtOnce
    <3>2. UNCHANGED <<vaultVars, insurance>>
      BY <3>1 DEF Lands, Execute, Repay, IncreaseCollateral, DecreaseCollateral, BorrowAsset,
                  RepayDebt
    <3> QED
      BY <1>1, <3>2, BackingUntouched DEF ClientInv
  <2> QED
    BY <1>1, <2>1, <2>2, <2>3 DEF ClientNext
<1>2. ClientInv /\ [ClientNext]_<<vars, clientVars>> => [~Liquidation => Surplus' >= Surplus]_vars
  BY <1>1
<1> QED
  BY <1>2, ClientInvariant, PTL DEF ClientSpec, BackingKept

LEMMA LandingKeepsTokens ==
  ASSUME ClientInv, NEW tx, tx.position \in Positions, FromClient(tx), Lands(tx)
  PROVE  Tokens' = Tokens
<1> DEFINE p == tx.position
           amount == tx.amount
<1>1. amount \in Nat /\ CushionInv
  BY WidthAssumption DEF FromClient, ClientInv
<1>2. CASE IncreaseCollateral(p, amount) \/ DecreaseCollateral(p, amount)
  BY <1>1, <1>2, IncreaseKeepsTokens, DecreaseKeepsTokens
<1>3. CASE BorrowAsset(p, amount) \/ Repay(p, amount)
  BY <1>3, TokensUntouched DEF BorrowAsset, Repay, RepayDebt, vaultVars
<1> QED
  BY <1>2, <1>3 DEF Lands, Execute

(* Whatever amount a client's transaction was built with, and however old  *)
(* the prices it was built at, nobody is paid what nobody had.             *)
THEOREM ClientsKeepTokens ==
  ASSUME TOKEN_PRECISION = MintFactor
  PROVE  ClientSpec => TokensKept
<1>1. ASSUME ClientInv, [ClientNext]_<<vars, clientVars>>,
             \A p \in Positions : /\ ~LiquidateSwap(p) /\ ~AdminLiquidateSwap(p)
                                  /\ Liquidate(p) => vaultPrice >= reservePrice
      PROVE  Tokens' = Tokens
  <2>1. CASE OpensPosition \/ BuildsTx \/ DropsTx \/ UNCHANGED <<vars, clientVars>>
    <3>1. UNCHANGED vars
      BY <2>1 DEF OpensPosition, BuildsTx, DropsTx
    <3> QED
      BY <3>1, TokensUntouched DEF vars, vaultVars, obligations
  <2>2. CASE TimePasses \/ OthersAct
    <3>1. [CushionNext]_vars
      BY <1>1, <2>2 DEF TimePasses, OthersAct, CushionNext, BufferInstruction, Liquidation,
                        ClientInv, OwnerInv
    <3> QED
      BY <1>1, <3>1, TokensStep DEF ClientInv
  <2>3. CASE SendsTx \/ ActsAtOnce
    <3>1. \E tx : tx.position \in Positions /\ FromClient(tx) /\ Lands(tx)
      BY <1>1, <2>3, BuiltByClient DEF SendsTx, ActsAtOnce, ClientInv, OwnerInv, WalletInv
    <3> QED
      BY <1>1, <3>1, LandingKeepsTokens
  <2> QED
    BY <1>1, <2>1, <2>2, <2>3 DEF ClientNext
<1>2. ClientInv /\ [ClientNext]_<<vars, clientVars>>
      => [(\A p \in Positions :
             /\ ~LiquidateSwap(p) /\ ~AdminLiquidateSwap(p)
             /\ Liquidate(p) => vaultPrice >= reservePrice)
            => Tokens' = Tokens]_vars
  BY <1>1
<1> QED
  BY <1>2, ClientInvariant, PTL DEF ClientSpec, TokensKept

(* To the depositors the program with its borrowers' clients is still the  *)
(* vault that module CushionVault describes.                               *)
THEOREM ClientsImplementVault == ClientSpec => VaultRefinement
<1>1. ClientInit => Vault!VaultInit
  BY VaultStarts DEF ClientInit
<1>2. ClientInv /\ [ClientNext]_<<vars, clientVars>> => [Vault!VaultNext]_Vault!vaultVars
  BY ClientStep, VaultSteps
<1> QED
  BY <1>1, <1>2, ClientInvariant, PTL DEF ClientSpec, VaultRefinement, Vault!VaultSpec

(* A transaction that lands has refreshed every reserve that its obligation*)
(* uses by then, however long it waited and whoever acted meanwhile.       *)
THEOREM LandedIsRefreshed == ClientSpec => LandedIsFresh
<1>1. ClientInv => \A tx \in pending :
        Lands(tx) => ActiveReserves(tx.position) \subseteq tx.refresh \cup {Selected(tx.instruction)}
  BY DEF ClientInv, WalletInv, FromClient, Lands, AccountsAccepted
<1> QED
  BY <1>1, ClientInvariant, PTL DEF LandedIsFresh

(* A repayment of "max" leaves no debt if its owner has enough when it     *)
(* lands, although the amount was not known when it was built.             *)
THEOREM MaxDoesClearDebt == ClientSpec => MaxClearsDebt
<1>1. ASSUME ClientInv, NEW tx \in pending, tx.instruction = "repayMax", Lands(tx),
             wealth[tx.position] >= debt[tx.position]
      PROVE  debt'[tx.position] = 0
  <2> DEFINE p == tx.position
  <2>1. p \in Positions /\ tx.amount = U64_MAX
    BY <1>1 DEF ClientInv, OwnerInv, WalletInv, FromClient
  <2>2. PICK value \in RepayValue(p, U64_MAX) : RepayDebt(p, value)
    BY <1>1, <2>1 DEF Lands, Execute, Repay
  <2>3. value = wealth[p]
    BY DEF RepayValue
  <2>4. debt' = [debt EXCEPT ![p] = SaturatingSub(@, value)]
    BY <2>2 DEF RepayDebt, RepayLiquidity
  <2>5. debt \in [Positions -> Nat] /\ wealth[p] \in Nat
    BY <1>1, <2>1 DEF ClientInv, CushionInv, MarketInv, OwnerInv
  <2> QED
    BY <1>1, <2>1, <2>3, <2>4, <2>5 DEF SaturatingSub
<1>2. ClientInv =>
        \A tx \in pending :
          tx.instruction = "repayMax" /\ Lands(tx) /\ wealth[tx.position] >= debt[tx.position]
            => debt'[tx.position] = 0
  BY <1>1
<1> QED
  BY <1>2, ClientInvariant, PTL DEF MaxClearsDebt

(* The thresholds of consts.rs leave room for whatever the borrowers'      *)
(* clients submit, however late it lands: see ConstsLeaveRoom.             *)
THEOREM ClientsKeepThresholds ==
  ASSUME FractionsOfConsts, Fine(3000)
  PROVE  ClientSpec => Hysteresis /\ BorrowerKeepsMargin
<1>1. 3000 \in Nat /\ ReleaseIsApart(3000) /\ MarginIsApart(3000)
  BY FractionsAreApart
<1>2. ASSUME CushionInv
      PROVE  \A p \in Positions :
               /\ Inject(p) => Withdrawable(p)' = {}
               /\ WithdrawInjected(p) => Injectable(p)' = {}
  BY <1>1, <1>2, InjectedStays, ReleasedStays
<1>3. ASSUME CushionInv
      PROVE  \A p \in Positions :
               (\/ \E amount \in CollateralAmounts : DecreaseCollateral(p, amount)
                \/ \E value \in DebtAmounts : BorrowAsset(p, value))
                 => ~(debt[p] > 0 /\ Liquidatable(p))'
  <2> SUFFICES ASSUME NEW p \in Positions,
                      \/ \E amount \in CollateralAmounts : DecreaseCollateral(p, amount)
                      \/ \E value \in DebtAmounts : BorrowAsset(p, value)
               PROVE  ~(debt[p] > 0 /\ Liquidatable(p))'
    OBVIOUS
  <2>1. ~Liquidatable(p)'
    BY <1>1, <1>3, BorrowKeepsMargin, DecreaseKeepsMargin
  <2> QED
    BY <2>1
<1>4. ClientInv => CushionInv
  BY DEF ClientInv
<1> QED
  BY <1>2, <1>3, <1>4, ClientInvariant, PTL DEF Hysteresis, BorrowerKeepsMargin

-----------------------------------------------------------------------------
(* What the client shows as safe is safe by the program's formula.         *)

(* The maximum of a borrower is apart from the market's own allowance,     *)
(* which the client shows.                                                 *)
RoomIsApart(n) ==
  /\ BorrowBufferMultiplier > 0
  /\ LtvPct < LiquidationPct
  /\ WAD > 100
  /\ \E k \in Nat :
       /\ Apart(LiquidationPct, LiquidationMultiplier, k, n)
       /\ LtvPct * (WAD * WAD) * WAD + 100 * (BorrowBufferMultiplier * WAD)
            <= k * BorrowBufferMultiplier

(* No ratio within LtvPct is above what a borrower may reach.              *)
LEMMA AllowedIsSafe ==
  ASSUME NEW n \in Nat, RoomIsApart(n), NEW D \in Nat \ {0}, n <= D,
         NEW T \in LiquidationLtv(FloorDiv(D * LiquidationPct, 100), D),
         NEW m \in MulDiv(T, BorrowBufferMultiplier, WAD),
         NEW M \in Nat, 100 * M <= LtvPct * WAD
  PROVE  M <= m
<1> DEFINE W == WAD
           b == BorrowBufferMultiplier
           l == LtvPct
           tb == T * b
           lww == l * (W * W)
<1>1. W \in Nat \ {0} /\ b \in Nat \ {0} /\ l \in Nat
      /\ LiquidationPct \in Nat /\ LiquidationMultiplier \in Nat
  BY MultipliersAreNat DEF RoomIsApart
<1>2. PICK k \in Nat :
        /\ Apart(LiquidationPct, LiquidationMultiplier, k, n)
        /\ lww * W + 100 * (b * W) <= k * b
  BY DEF RoomIsApart
<1>3. T \in Scaled(MulDiv(FloorDiv(D * LiquidationPct, 100), WAD, D), LiquidationMultiplier)
  BY DEF LiquidationLtv
<1>4. T \in Nat
  BY <1>1, <1>3, ScaledBounds
<1>5. m \in Nat /\ tb < (m + 1) * W
  BY <1>1, <1>4, MulDivBounds
<1> SUFFICES ASSUME m + 1 <= M PROVE FALSE
  BY <1>5
<1>6. tb \in Nat /\ lww \in Nat /\ M * W \in Nat /\ b * W \in Nat /\ W * W \in Nat /\ l * W \in Nat
  <2>1. W * W \in Nat
    BY <1>1, ProductInNat
  <2> QED
    BY <1>1, <1>4, <2>1, ProductInNat
<1> HIDE DEF W, b, l
<1>7. tb < M * W
  <2>1. (m + 1) * W <= M * W /\ (m + 1) * W \in Nat
    BY <1>1, <1>5, MulMonotone, ProductInNat
  <2> HIDE DEF tb
  <2> QED
    BY <1>5, <1>6, <2>1
<1>8. 100 * (M * W) <= lww
  <2>1. (100 * M) * W <= (l * W) * W
    BY <1>1, <1>6, MulMonotone DEF W, l
  <2>2. (100 * M) * W = 100 * (M * W) /\ (l * W) * W = lww
    BY <1>1, Distribute
  <2> QED
    BY <2>1, <2>2
<1>9. 100 * tb + 100 * b <= lww + 100 * b /\ 100 * tb \in Nat /\ 100 * b \in Nat
  <2> HIDE DEF tb, lww
  <2> QED
    BY <1>1, <1>6, <1>7, <1>8
<1>10. (100 * ((T + 1) * W)) * b <= k * b
  <2>1. (100 * tb + 100 * b) * W <= (lww + 100 * b) * W
    <3> HIDE DEF tb, lww
    <3> QED
      BY <1>1, <1>6, <1>9, MulMonotone
  <2>2. (lww + 100 * b) * W = lww * W + 100 * (b * W)
    <3>1. (lww + 100 * b) * W = lww * W + (100 * b) * W
      <4> HIDE DEF lww
      <4> QED
        BY <1>1, <1>6, Distribute
    <3>2. (100 * b) * W = 100 * (b * W)
      BY <1>1, Distribute
    <3> QED
      BY <3>1, <3>2
  <2>3. (100 * tb + 100 * b) * W = (100 * ((T + 1) * W)) * b
    <3>1. (T + 1) * b = tb + b
      BY <1>1, <1>4, Distribute
    <3>2. ((T + 1) * W) * b = ((T + 1) * b) * W
      BY <1>1, <1>4, Distribute
    <3>3. (100 * tb + 100 * b) = 100 * (tb + b)
      <4> HIDE DEF tb
      <4> QED
        BY <1>1, <1>6
    <3>4. (100 * (tb + b)) * W = 100 * ((tb + b) * W)
      <4> HIDE DEF tb
      <4> QED
        BY <1>1, <1>6, Distribute
    <3>5. (100 * ((T + 1) * W)) * b = 100 * (((T + 1) * W) * b)
      <4> DEFINE tw == (T + 1) * W
      <4>1. tw \in Nat
        BY <1>1, <1>4, ProductInNat
      <4> HIDE DEF tw
      <4>2. (100 * tw) * b = 100 * (tw * b)
        BY <1>1, <4>1, Distribute
      <4> QED
        BY <4>2 DEF tw
    <3> QED
      BY <3>1, <3>2, <3>3, <3>4, <3>5
  <2> DEFINE small == (100 * tb + 100 * b) * W
             large == (lww + 100 * b) * W
             kb == k * b
  <2>4. small \in Nat /\ large \in Nat /\ kb \in Nat
    <3> HIDE DEF tb, lww
    <3>1. 100 * tb + 100 * b \in Nat /\ lww + 100 * b \in Nat
      BY <1>1, <1>6
    <3> QED
      BY <1>1, <3>1, ProductInNat
  <2>5. small <= large /\ large <= kb
    BY <1>2, <2>1, <2>2
  <2>6. small = (100 * ((T + 1) * W)) * b
    BY <2>3
  <2> HIDE DEF small, large
  <2>7. small <= kb
    <3> HIDE DEF kb
    <3> QED
      BY <2>4, <2>5
  <2> QED
    BY <2>6, <2>7
<1>11. 100 * ((T + 1) * W) <= k
  <2>1. (T + 1) * W \in Nat
    BY <1>1, <1>4, ProductInNat
  <2>2. 100 * ((T + 1) * W) \in Int
    BY <2>1
  <2> QED
    BY <1>1, <1>10, <2>2, MulCancel
<1>12. (T + 1) * (D + 1) <= (T + 1) * D
  <2> DEFINE y == T + 1
  <2>1. y \in Nat /\ 100 * (y * WAD) <= k
    BY <1>4, <1>11 DEF W
  <2> HIDE DEF y
  <2>2. y * (D + 1) <= (T + 1) * D
    BY <1>1, <1>2, <1>3, <2>1, ThresholdsApart
  <2> QED
    BY <2>2 DEF y
<1>13. (T + 1) * (D + 1) = (T + 1) * D + (T + 1) * 1 /\ (T + 1) * D \in Nat
  BY <1>4, Distribute, ProductInNat
<1> QED
  BY <1>4, <1>12, <1>13

(* A fraction of a number is computed where the number is, and is one.     *)
LEMMA FractionFits ==
  ASSUME NEW d \in Nat \ {0}, NEW a \in 0 .. d, NEW b \in Nat, d * b <= U128_MAX
  PROVE  MulDiv(a, b, d) = {FloorDiv(a * b, d)} /\ FloorDiv(a * b, d) \in 0 .. b
<1> DEFINE ab == a * b
           db == d * b
<1>1. ab \in Nat /\ db \in Nat /\ ab <= db
  BY ProductInNat, MulMonotone
<1> HIDE DEF ab, db
<1>2. ab \in 0 .. U128_MAX
  BY <1>1, WidthAssumption DEF db
<1>3. MulDiv(a, b, d) = {FloorDiv(ab, d)}
  BY <1>2 DEF MulDiv, U128, ab
<1> DEFINE q == FloorDiv(ab, d)
<1>4. q \in Nat /\ q * d <= ab
  BY <1>1 DEF FloorDiv
<1> HIDE DEF q
<1>5. q <= b
  <2>1. q * d <= b * d
    <3>1. q * d \in Nat /\ b * d = db
      BY <1>4, ProductInNat, Distribute DEF db
    <3> QED
      BY <1>1, <1>4, <3>1
  <2> QED
    BY <1>4, <2>1, MulCancel
<1> QED
  BY <1>3, <1>4, <1>5 DEF q, ab

(* With a deposit whose ratios fit, the maximum of a borrower exists.      *)
LEMMA MaximumExists ==
  ASSUME NEW D \in Nat \ {0}, D * WAD <= U128_MAX, WAD * WAD <= U128_MAX, NEW U \in 0 .. D
  PROVE  \E T \in LiquidationLtv(U, D) : MulDiv(T, BorrowBufferMultiplier, WAD) # {}
<1> DEFINE W == WAD
           l == LiquidationMultiplier
           b == BorrowBufferMultiplier
<1>1. W \in Nat \ {0} /\ l \in 0 .. W /\ b \in 0 .. W
  BY MultipliersAreNat, ThresholdAssumption
<1>2. W * l <= U128_MAX /\ W * b <= U128_MAX
  <2>1. l * W <= W * W /\ b * W <= W * W
    BY <1>1, MulMonotone
  <2>2. l * W = W * l /\ b * W = W * b
    BY <1>1, Distribute
  <2>3. W * W \in Nat /\ l * W \in Nat /\ b * W \in Nat
    BY <1>1, ProductInNat
  <2> QED
    BY <2>1, <2>2, <2>3, WidthAssumption
<1> HIDE DEF l, b
<1>3. PICK t \in 0 .. W : MulDiv(U, W, D) = {t}
  BY <1>1, FractionFits
<1>4. PICK T \in 0 .. l : MulDiv(t, l, W) = {T}
  <2> HIDE DEF W
  <2>1. l \in Nat /\ t \in 0 .. W
    BY <1>1, <1>3
  <2>2. MulDiv(t, l, W) = {FloorDiv(t * l, W)} /\ FloorDiv(t * l, W) \in 0 .. l
    BY <1>1, <1>2, <2>1, FractionFits
  <2> QED
    BY <2>2
<1>5. T \in 0 .. W
  BY <1>1
<1>6. MulDiv(T, b, W) # {}
  <2> HIDE DEF W
  <2>1. MulDiv(T, b, W) = {FloorDiv(T * b, W)}
    BY <1>1, <1>2, <1>5, FractionFits
  <2> QED
    BY <2>1
<1>7. T \in LiquidationLtv(U, D)
  BY <1>3, <1>4 DEF LiquidationLtv, Scaled, l
<1> QED
  BY <1>6, <1>7 DEF b

(* A debt whose ratio is within the allowance's is within the limit.       *)
LEMMA ShownIsWithin ==
  ASSUME NEW n \in Nat, RoomIsApart(n), NEW D \in Nat \ {0}, NEW d \in Nat,
         FloorDiv(d * WAD, D) <= FloorDiv(FloorDiv(D * LtvPct, 100) * WAD, D)
  PROVE  /\ FloorDiv(FloorDiv(D * LtvPct, 100) * WAD, D) \in Nat
         /\ 100 * FloorDiv(FloorDiv(D * LtvPct, 100) * WAD, D) <= LtvPct * WAD
         /\ FloorDiv(D * LiquidationPct, 100) \in 0 .. D
         /\ d <= FloorDiv(D * LiquidationPct, 100)
<1> DEFINE W == WAD
           l == LtvPct
           q == LiquidationPct
           dl == D * l
           dq == D * q
           A == FloorDiv(dl, 100)
           U == FloorDiv(dq, 100)
           aw == A * W
           dw == d * W
           L == FloorDiv(dw, D)
           M == FloorDiv(aw, D)
<1>1. W \in Nat /\ W > 100 /\ l \in Nat /\ q \in Nat /\ l < q /\ q <= 100
  BY MultipliersAreNat, MarketAssumption DEF RoomIsApart
<1> HIDE DEF W, l, q
<1>2. dl \in Nat /\ dq \in Nat /\ dl + D <= dq /\ dq <= 100 * D
  <2>1. (l + 1) * D <= q * D /\ q * D <= 100 * D
    BY <1>1, MulMonotone
  <2>2. (l + 1) * D = dl + D /\ q * D = dq
    BY <1>1, Distribute
  <2> QED
    BY <1>1, <2>1, <2>2, ProductInNat
<1> HIDE DEF dl, dq
<1>3. A \in Nat /\ 100 * A <= dl /\ U \in Nat /\ 100 * U <= dq /\ dq < 100 * U + 100
  BY <1>2 DEF FloorDiv
<1> HIDE DEF A, U
<1>4. aw \in Nat /\ dw \in Nat
  BY <1>1, <1>3, ProductInNat
<1> HIDE DEF aw, dw
<1>5. L \in Nat /\ dw < (L + 1) * D /\ M \in Nat /\ M * D <= aw
  BY <1>4 DEF FloorDiv
<1>6. L <= M
  BY DEF L, M, dw, aw, A, dl, W, l
<1> HIDE DEF L, M
<1>7. 100 * M <= l * W
  <2>1. (100 * A) * W <= dl * W
    BY <1>1, <1>2, <1>3, MulMonotone
  <2>2. (100 * A) * W = 100 * aw /\ (100 * M) * D = 100 * (M * D) /\ dl * W = (l * W) * D
    BY <1>1, <1>3, <1>5, Distribute DEF dl, aw
  <2>3. l * W \in Nat /\ (l * W) * D \in Nat /\ M * D \in Nat /\ 100 * M \in Nat
    BY <1>1, <1>5, ProductInNat
  <2> DEFINE md == M * D
             lwd == (l * W) * D
  <2>4. 100 * md <= lwd
    <3> HIDE DEF md, lwd
    <3>1. md \in Nat /\ lwd \in Nat /\ md <= aw /\ 100 * aw <= lwd
      BY <1>5, <2>1, <2>2, <2>3 DEF md, lwd
    <3> QED
      BY <1>4, <3>1
  <2> QED
    BY <2>2, <2>3, <2>4, MulCancel
<1>8. dw < aw + D
  <2>1. (L + 1) * D <= (M + 1) * D /\ (M + 1) * D = M * D + D
    BY <1>5, <1>6, MulMonotone, Distribute
  <2>2. (L + 1) * D \in Nat /\ M * D \in Nat
    BY <1>5, ProductInNat
  <2> DEFINE md == M * D
             ld == (L + 1) * D
  <2>3. ld <= md + D /\ ld \in Nat /\ md \in Nat /\ dw < ld /\ md <= aw
    BY <1>5, <2>1, <2>2
  <2> HIDE DEF md, ld
  <2> QED
    BY <1>4, <2>3
<1>9. ~(U + 1 <= d)
  <2> SUFFICES ASSUME U + 1 <= d PROVE FALSE
    OBVIOUS
  <2> DEFINE g == d - A
  <2>1. g \in Nat /\ D < 100 * g
    BY <1>2, <1>3
  <2>2. g * W = dw - aw
    BY <1>1, <1>3, Distribute DEF dw, aw
  <2> HIDE DEF g
  <2>3. g * 101 <= g * W
    <3>1. 101 * g <= W * g
      BY <1>1, <2>1, MulMonotone
    <3> QED
      BY <1>1, <2>1, <3>1, Distribute
  <2> QED
    BY <1>4, <1>8, <2>1, <2>2, <2>3
<1>10. U \in 0 .. D
  BY <1>2, <1>3
<1>11. d <= U
  BY <1>3, <1>9
<1>12. M \in Nat
  BY <1>5
<1> QED
  BY <1>7, <1>10, <1>11, <1>12 DEF M, aw, A, dl, U, dq, W, l, q

(* Of a deposit that is worth enough, and not too much, the shown room is  *)
(* real.                                                                   *)
LEMMA ShownIsAccepted ==
  ASSUME CushionInv, NEW n \in Nat, Fine(n), RoomIsApart(n), WAD * WAD <= U128_MAX,
         NEW p \in Positions, NEW value \in Nat, DepositedValue(p) * WAD <= U128_MAX,
         NEW maximum \in MaxSafeLtvShown(p), LtvShown(debt[p] + value, p) <= maximum
  PROVE  SafeWithDebt(p, value) /\ WithinBorrowLimit(p, value)
<1> DEFINE D == FloorDiv(collateral[p] * reservePrice, UnitsPerToken)
           d == debt[p] + value
           A == FloorDiv(D * LtvPct, 100)
           U == FloorDiv(D * LiquidationPct, 100)
           L == FloorDiv(d * WAD, D)
           M == FloorDiv(A * WAD, D)
<1>1. collateral[p] \in Nat /\ debt[p] \in Nat /\ reservePrice \in Prices /\ d \in Nat
  BY DEF CushionInv, PositionInv, MarketInv
<1>2. D # 0 /\ maximum = M /\ L <= M
  BY DEF MaxSafeLtvShown, LtvShown, DepositedValue, AllowedBorrow
<1>3. D \in Nat \ {0} /\ n <= D
  BY <1>1, <1>2, DepositIsFine
<1>4. D * WAD <= U128_MAX
  BY DEF DepositedValue
<1>5. /\ SafeWithDebt(p, value) <=> \E ltv \in LtvAfterBorrowing(value, D, debt[p]),
                                       m \in MaxSafeLtv(U, D) : ltv <= m
      /\ WithinBorrowLimit(p, value) <=> D = 0 \/ d <= U
  BY DEF SafeWithDebt, WithinBorrowLimit, DepositedValue, UnhealthyBorrow
<1> HIDE DEF D
<1>6. M \in Nat /\ 100 * M <= LtvPct * WAD /\ U \in 0 .. D /\ d <= U
  <2> HIDE DEF d
  <2> QED
    BY <1>1, <1>2, <1>3, ShownIsWithin
<1> HIDE DEF A, U
<1>7. L \in LtvAfterBorrowing(value, D, debt[p])
  <2>1. d \in 0 .. D
    <3> HIDE DEF d
    <3> QED
      BY <1>1, <1>3, <1>6
  <2>2. d \in 0 .. U128_MAX
    <3>1. 1 * D <= WAD * D /\ WAD * D = D * WAD /\ D * WAD \in Nat
      BY <1>3, MultipliersAreNat, MulMonotone, Distribute, ProductInNat
    <3> QED
      BY <1>3, <1>4, <2>1, <3>1, WidthAssumption
  <2>3. U128(debt[p] + value) = {d}
    BY <2>2 DEF U128
  <2> HIDE DEF d
  <2>4. MulDiv(d, WAD, D) = {L}
    BY <1>3, <1>4, <2>1, MultipliersAreNat, FractionFits
  <2> QED
    BY <2>3, <2>4 DEF LtvAfterBorrowing
<1>8. PICK T \in LiquidationLtv(U, D) : MulDiv(T, BorrowBufferMultiplier, WAD) # {}
  BY <1>3, <1>4, <1>6, MaximumExists
<1>9. PICK m : m \in MulDiv(T, BorrowBufferMultiplier, WAD)
  BY <1>8
<1>10. m \in MaxSafeLtv(U, D)
  BY <1>9 DEF MaxSafeLtv, Scaled
<1>11. M <= m
  <2> HIDE DEF M
  <2> QED
    BY <1>3, <1>6, <1>8, <1>9, AllowedIsSafe DEF U
<1>12. L \in Nat /\ m \in Nat
  <2>1. d * WAD \in Nat
    BY <1>1, MultipliersAreNat, ProductInNat
  <2>2. L \in Nat
    <3> DEFINE dw == d * WAD
    <3> HIDE DEF dw
    <3>1. FloorDiv(dw, D) \in Nat
      BY <1>3, <2>1 DEF FloorDiv, dw
    <3> QED
      BY <3>1 DEF dw
  <2>3. T \in Nat
    <3>1. T \in Scaled(MulDiv(FloorDiv(D * LiquidationPct, 100), WAD, D), LiquidationMultiplier)
      BY <1>8 DEF LiquidationLtv, U
    <3> QED
      BY <1>3, <3>1, MultipliersAreNat, ScaledBounds
  <2>4. m \in Nat
    BY <1>9, <2>3, MultipliersAreNat, MulDivBounds
  <2> QED
    BY <2>2, <2>4
<1>13. L <= m
  BY <1>2, <1>6, <1>11, <1>12
<1> QED
  BY <1>5, <1>6, <1>7, <1>10, <1>13

(* What the client shows as safe can be had, where a token unit is worth   *)
(* enough for the roundings in between.                                    *)
THEOREM ShownRoomExists ==
  ASSUME NEW n \in Nat, Fine(n), RoomIsApart(n), WAD * WAD <= U128_MAX
  PROVE  ClientSpec => []ShownRoomIsReal
<1>1. ASSUME ClientInv, NEW p \in opened, NEW value \in DebtAmounts,
             DepositedValue(p) * WAD <= U128_MAX, NEW maximum \in MaxSafeLtvShown(p),
             LtvShown(debt[p] + value, p) <= maximum
      PROVE  SafeWithDebt(p, value) /\ WithinBorrowLimit(p, value)
  <2>1. p \in Positions /\ value \in Nat /\ CushionInv
    BY <1>1, CushionAssumption, WidthAssumption DEF ClientInv, OwnerInv
  <2> QED
    BY <1>1, <2>1, ShownIsAccepted
<1>2. ClientInv => ShownRoomIsReal
  BY <1>1 DEF ShownRoomIsReal
<1> QED
  BY <1>2, ClientInvariant, PTL

(* With the factors that bootstrapKlendMock.ts gives the SOL reserve, and  *)
(* those of consts.rs, 75% is less than 95% of 93% of 85% by enough for a  *)
(* token unit of 4000 * 10^-18 USD: SOL above four millionths of a dollar. *)
ReserveOfBootstrap == LtvPct <= 75 /\ LiquidationPct >= 85

LEMMA RoomOfConsts ==
  ASSUME FractionsOfConsts, ReserveOfBootstrap
  PROVE  RoomIsApart(4000)
<1> DEFINE W == WAD
           l == LiquidationMultiplier
           b == BorrowBufferMultiplier
           WW == W * W
           q == LiquidationPct
           lW == l * W
           bW == b * W
           S == (q * l) * W
           k == 79 * WW
           V == WW * W
<1>1. /\ W \in Nat \ {0} /\ l \in Nat /\ b \in Nat /\ W >= 1000000
      /\ 100 * l = 93 * W /\ 100 * b = 95 * W
      /\ LtvPct \in Nat /\ LtvPct <= 75 /\ q \in Nat /\ q >= 85
  BY MultipliersAreNat DEF FractionsOfConsts, ReserveOfBootstrap
<1>2. /\ WW \in Nat /\ 1000000 * W <= WW /\ V \in Nat /\ 1000000 * WW <= V
      /\ lW \in Nat /\ bW \in Nat /\ S \in Nat
  <2>1. WW \in Nat /\ 1000000 * W <= WW /\ lW \in Nat /\ bW \in Nat /\ q * l \in Nat
    BY <1>1, ProductInNat, MulMonotone
  <2> HIDE DEF WW
  <2>2. V \in Nat
    BY <1>1, <2>1, ProductInNat
  <2>3. 1000000 * WW <= W * WW /\ W * WW = V
    BY <1>1, <2>1, MulMonotone, Distribute
  <2> QED
    BY <1>1, <2>1, <2>2, <2>3, ProductInNat
<1>3. 100 * lW = 93 * WW /\ 100 * bW = 95 * WW
  <2>1. 100 * lW = (100 * l) * W /\ 100 * bW = (100 * b) * W
    BY <1>1, Distribute
  <2>2. (93 * W) * W = 93 * WW /\ (95 * W) * W = 95 * WW
    BY <1>1, Distribute
  <2> QED
    BY <1>1, <2>1, <2>2
<1>4. 85 * lW <= S
  <2>1. 85 * lW <= q * lW /\ q * lW = S
    BY <1>1, <1>2, MulMonotone, Distribute
  <2> QED
    BY <2>1
<1>5. Apart(q, l, k, 4000)
  <2>1. Apart(q, l, k, 4000) <=> /\ S - k - 100 * l >= 0
                                 /\ 4000 * (S - k - 100 * l) >= k + 100 * lW
    BY DEF Apart
  <2> HIDE DEF S, lW, WW, l, q, W
  <2> QED
    BY <1>1, <1>2, <1>3, <1>4, <2>1
<1>6. LtvPct * (W * W) * W + 100 * bW <= k * b
  <2>1. LtvPct * (W * W) * W <= 75 * V /\ LtvPct * (W * W) * W \in Nat
    <3>1. LtvPct * V <= 75 * V /\ LtvPct * V \in Nat
      BY <1>1, <1>2, MulMonotone, ProductInNat
    <3>2. LtvPct * V = LtvPct * (W * W) * W
      <4> HIDE DEF W
      <4>1. LtvPct * (WW * W) = (LtvPct * WW) * W
        BY <1>1, <1>2, Distribute
      <4> QED
        BY <4>1
    <3> QED
      BY <3>1, <3>2
  <2>2. 100 * (k * b) = (79 * 95) * V /\ k * b \in Nat
    <3> HIDE DEF WW
    <3>1. k * b = 79 * (WW * b) /\ 100 * (WW * b) = WW * (100 * b) /\ WW * (95 * W) = 95 * V
      BY <1>1, <1>2, Distribute DEF V
    <3>2. WW * b \in Nat
      BY <1>1, <1>2, ProductInNat
    <3> DEFINE wb == WW * b
    <3>3. 100 * wb = 95 * V /\ k * b = 79 * wb /\ wb \in Nat
      BY <1>1, <3>1, <3>2
    <3> HIDE DEF wb, V, k
    <3> QED
      BY <1>2, <3>3
  <2> DEFINE lv == LtvPct * (W * W) * W
             kb == k * b
  <2> HIDE DEF lv, kb, V, bW, WW
  <2>3. lv + 100 * bW <= kb
    BY <1>2, <1>3, <2>1, <2>2 DEF lv, kb
  <2> QED
    BY <2>3 DEF lv, kb
<1>7. k \in Nat
  BY <1>2
<1> HIDE DEF k
<1>8. /\ BorrowBufferMultiplier > 0 /\ LtvPct < LiquidationPct /\ WAD > 100
  BY <1>1
<1> QED
  BY <1>5, <1>6, <1>7, <1>8 DEF RoomIsApart

(* So the deployed limits show no room that the program does not grant.    *)
THEOREM ConstsShowRealRoom ==
  ASSUME FractionsOfConsts, ReserveOfBootstrap, Fine(4000), WAD * WAD <= U128_MAX
  PROVE  ClientSpec => []ShownRoomIsReal
BY RoomOfConsts, ShownRoomExists

-----------------------------------------------------------------------------
(* Clients use the program, and nothing but the program.                   *)

(* The program with any amounts for arguments.                             *)
Program == INSTANCE Cushion
             WITH CollateralAmounts <- 1 .. U64_MAX, DebtAmounts <- Nat \ {0}

(* The program is the same whatever amounts it is explored with: one lemma *)
(* per group of its actions.                                               *)
LEMMA ProgramStarts ==
  ASSUME CushionInit
  PROVE  Program!CushionInit
BY DEF CushionInit, Program!CushionInit, VaultInit, Program!VaultInit, KlendInit,
  Program!KlendInit

LEMMA ProgramTrades ==
  ASSUME DepositorActs
  PROVE  Program!DepositorActs
BY DEF DepositorActs, Program!DepositorActs, LiquidityInstruction, Program!LiquidityInstruction,
  BurnOwnShares, Program!BurnOwnShares, Deposit, Program!Deposit, Mint, Program!Mint, Redeem,
  Program!Redeem, Withdraw, Program!Withdraw, PreviewDeposit, Program!PreviewDeposit,
  PreviewMint, Program!PreviewMint, PreviewRedeem, Program!PreviewRedeem, PreviewWithdraw,
  Program!PreviewWithdraw, SharesFloor, Program!SharesFloor, SharesCeil, Program!SharesCeil,
  AssetsFloor, Program!AssetsFloor, AssetsCeil, Program!AssetsCeil, ConvertFloor,
  Program!ConvertFloor, ConvertCeil, Program!ConvertCeil, OneToOne, Program!OneToOne,
  Degenerate, Program!Degenerate, CeilDiv, Program!CeilDiv, FloorDiv, Program!FloorDiv,
  DepositAllowed, Program!DepositAllowed, VaultHasLiquidity, Program!VaultHasLiquidity,
  IncreaseManagedAssets, Program!IncreaseManagedAssets, DecreaseManagedAssets,
  Program!DecreaseManagedAssets, PayVault, Program!PayVault, PayUser, Program!PayUser, MintTo,
  Program!MintTo, Burn, Program!Burn, obligations, Program!obligations, insurance,
  Program!insurance, prices, Program!prices, interest, Program!interest

LEMMA ProgramInjects ==
  ASSUME NEW p \in Positions, Inject(p)
  PROVE  Program!Inject(p)
BY DEF Inject, Program!Inject, Injectable, Program!Injectable, FromVault, Program!FromVault,
  DepositCollateral, Program!DepositCollateral, UnsafePosition, Program!UnsafePosition,
  AmountToInject, Program!AmountToInject, ValueToInject, Program!ValueToInject, CurrentLtv,
  Program!CurrentLtv, InsuringLtv, Program!InsuringLtv, Scaled, Program!Scaled, DepositedValue,
  Program!DepositedValue, AllowedBorrow, Program!AllowedBorrow, MulDiv, Program!MulDiv, U128,
  Program!U128, U64, Program!U64, FloorDiv, Program!FloorDiv, ledger, Program!ledger, prices,
  Program!prices, interest, Program!interest

LEMMA ProgramWithdraws ==
  ASSUME NEW p \in Positions, WithdrawInjected(p)
  PROVE  Program!WithdrawInjected(p)
BY DEF WithdrawInjected, Program!WithdrawInjected, Withdrawable, Program!Withdrawable,
  CurrentIndex, Program!CurrentIndex, NextIndex, Program!NextIndex, Annualized,
  Program!Annualized, Power, Program!Power, AmountToWithdraw, Program!AmountToWithdraw,
  SafeWithout, Program!SafeWithout, MarketValue, Program!MarketValue, LtvAfterRemoving,
  Program!LtvAfterRemoving, WithdrawingLtv, Program!WithdrawingLtv, CurrentLtv,
  Program!CurrentLtv, Scaled, Program!Scaled, Release, Program!Release, WithdrawCollateral,
  Program!WithdrawCollateral, SaturatingSub, Program!SaturatingSub, ToVault, Program!ToVault,
  DepositedValue, Program!DepositedValue, AllowedBorrow, Program!AllowedBorrow, MulDiv,
  Program!MulDiv, U128, Program!U128, U64, Program!U64, FloorDiv, Program!FloorDiv, ledger,
  Program!ledger, prices, Program!prices

LEMMA ProgramLiquidates ==
  ASSUME NEW p \in Positions, LiquidateSwap(p) \/ AdminLiquidateSwap(p) \/ Liquidate(p)
  PROVE  Program!LiquidateSwap(p) \/ Program!AdminLiquidateSwap(p) \/ Program!Liquidate(p)
BY DEF LiquidateSwap, Program!LiquidateSwap, AdminLiquidateSwap, Program!AdminLiquidateSwap,
  Liquidate, Program!Liquidate, Liquidatable, Program!Liquidatable, LiquidationLtv,
  Program!LiquidationLtv, CurrentLtv, Program!CurrentLtv, Scaled, Program!Scaled, SwapForDebt,
  Program!SwapForDebt, SwapWsolToUsdc, Program!SwapWsolToUsdc, AmountOfValue,
  Program!AmountOfValue, FromVault, Program!FromVault, ToVault, Program!ToVault, Release,
  Program!Release, RepayLiquidity, Program!RepayLiquidity, WithdrawCollateral,
  Program!WithdrawCollateral, SaturatingSub, Program!SaturatingSub, AmountToWithdrawAfterRepay,
  Program!AmountToWithdrawAfterRepay, DepositedValue, Program!DepositedValue, UnhealthyBorrow,
  Program!UnhealthyBorrow, MulDiv, Program!MulDiv, U128, Program!U128, U64, Program!U64,
  FloorDiv, Program!FloorDiv, obligations, Program!obligations, insurance, Program!insurance,
  prices, Program!prices, interest, Program!interest, ledger, Program!ledger

LEMMA ProgramServesBorrowers ==
  ASSUME NEW p, NEW n
  PROVE  /\ IncreaseCollateral(p, n) => Program!IncreaseCollateral(p, n)
         /\ DecreaseCollateral(p, n) => Program!DecreaseCollateral(p, n)
         /\ BorrowAsset(p, n) => Program!BorrowAsset(p, n)
         /\ RepayDebt(p, n) => Program!RepayDebt(p, n)
BY DEF IncreaseCollateral, Program!IncreaseCollateral, DecreaseCollateral,
  Program!DecreaseCollateral, BorrowAsset, Program!BorrowAsset, RepayDebt, Program!RepayDebt,
  CollateralIsOwn, Program!CollateralIsOwn, DepositCollateral, Program!DepositCollateral,
  WithdrawCollateral, Program!WithdrawCollateral, SaturatingSub, Program!SaturatingSub,
  MarketValue, Program!MarketValue, LtvAfterRemoving, Program!LtvAfterRemoving,
  LtvAfterBorrowing, Program!LtvAfterBorrowing, MaxSafeLtv, Program!MaxSafeLtv, LiquidationLtv,
  Program!LiquidationLtv, Scaled, Program!Scaled, SafeWithDebt, Program!SafeWithDebt,
  BorrowLiquidity, Program!BorrowLiquidity, WithinBorrowLimit, Program!WithinBorrowLimit,
  RepayLiquidity, Program!RepayLiquidity, DepositedValue, Program!DepositedValue,
  UnhealthyBorrow, Program!UnhealthyBorrow, MulDiv, Program!MulDiv, U128, Program!U128, U64,
  Program!U64, FloorDiv, Program!FloorDiv, vaultVars, Program!vaultVars, insurance,
  Program!insurance, prices, Program!prices, interest, Program!interest

LEMMA ProgramGoesOn ==
  ASSUME UpdateMarketPrice \/ MarketMoves \/ ClockTicks
  PROVE  Program!UpdateMarketPrice \/ Program!MarketMoves \/ Program!ClockTicks
BY DEF UpdateMarketPrice, Program!UpdateMarketPrice, MarketMoves, Program!MarketMoves,
  PriceMoves, Program!PriceMoves, ClockTicks, Program!ClockTicks, vaultVars, Program!vaultVars,
  obligations, Program!obligations, insurance, Program!insurance, interest, Program!interest,
  prices, Program!prices


(* What lands is an instruction of a borrower, of an amount of its own.    *)
LEMMA ProgramTakesTransactions ==
  ASSUME OwnerInv, NEW tx, tx.position \in Positions, FromClient(tx), Lands(tx)
  PROVE  Program!BorrowerActs
<1> DEFINE p == tx.position
           amount == tx.amount
<1>1. amount \in 1 .. U64_MAX /\ amount \in Nat \ {0}
  BY WidthAssumption DEF FromClient
<1>2. CASE IncreaseCollateral(p, amount) \/ DecreaseCollateral(p, amount)
  BY <1>1, <1>2, ProgramServesBorrowers DEF Program!BorrowerActs
<1>3. CASE BorrowAsset(p, amount)
  BY <1>1, <1>3, ProgramServesBorrowers DEF Program!BorrowerActs
<1>4. CASE Repay(p, amount)
  <2>1. PICK value \in RepayValue(p, amount) : RepayDebt(p, value)
    BY <1>4 DEF Repay
  <2>2. value \in Nat \ {0}
    BY <1>1 DEF RepayValue, OwnerInv
  <2>3. Program!RepayDebt(p, value)
    BY <2>1, ProgramServesBorrowers
  <2> QED
    BY <2>2, <2>3 DEF Program!BorrowerActs
<1> QED
  BY <1>2, <1>3, <1>4 DEF Lands, Execute

LEMMA ProgramStep ==
  ASSUME ClientInv, [ClientNext]_<<vars, clientVars>>
  PROVE  [Program!CushionNext]_(Program!vars)
<1>1. CASE UNCHANGED vars
  BY <1>1 DEF vars, Program!vars, vaultVars, Program!vaultVars, obligations, Program!obligations,
       insurance, Program!insurance, prices, Program!prices, interest, Program!interest
<1>2. CASE SendsTx
  <2>1. PICK tx \in pending : Lands(tx)
    BY <1>2 DEF SendsTx
  <2>2. OwnerInv /\ tx.position \in Positions /\ FromClient(tx)
    BY DEF ClientInv, OwnerInv, WalletInv
  <2> QED
    BY <2>1, <2>2, ProgramTakesTransactions DEF Program!CushionNext
<1>3. CASE ActsAtOnce
  <2>1. PICK p \in opened : \E tx \in BuildableTxs(p) : Lands(tx)
    BY <1>3 DEF ActsAtOnce
  <2>2. PICK tx \in BuildableTxs(p) : Lands(tx)
    BY <2>1
  <2>3. OwnerInv /\ tx.position \in Positions /\ FromClient(tx)
    BY BuiltByClient DEF ClientInv, OwnerInv
  <2> QED
    BY <2>2, <2>3, ProgramTakesTransactions DEF Program!CushionNext
<1>4. CASE TimePasses \/ OthersAct
  <2>1. CASE DepositorActs
    BY <2>1, ProgramTrades DEF Program!CushionNext
  <2>2. CASE UpdateMarketPrice \/ MarketMoves \/ ClockTicks
    BY <2>2, ProgramGoesOn DEF Program!CushionNext
  <2>3. ASSUME NEW p \in opened,
               \/ Inject(p) \/ WithdrawInjected(p)
               \/ LiquidateSwap(p) \/ AdminLiquidateSwap(p) \/ Liquidate(p)
        PROVE  Program!CushionNext
    <3>1. p \in Positions
      BY DEF ClientInv, OwnerInv
    <3> QED
      BY <2>3, <3>1, ProgramInjects, ProgramWithdraws, ProgramLiquidates
         DEF Program!CushionNext, Program!BufferInstruction, Program!Liquidation
  <2> QED
    BY <1>4, <2>1, <2>2, <2>3 DEF TimePasses, OthersAct
<1> QED
  BY <1>1, <1>2, <1>3, <1>4 DEF ClientNext, OpensPosition, BuildsTx, DropsTx

(* Borrowers with their clients, wallets and late transactions implement   *)
(* module Cushion with any amounts: whatever lands, however stale, is one  *)
(* of the program's instructions, and so is every step of anybody else.    *)
THEOREM ClientsRunTheProgram == ClientSpec => Program!CushionSpec
<1>1. ClientInit => Program!CushionInit
  BY ProgramStarts DEF ClientInit
<1>2. ClientInv /\ [ClientNext]_<<vars, clientVars>> => [Program!CushionNext]_(Program!vars)
  BY ProgramStep
<1> QED
  BY <1>1, <1>2, ClientInvariant, PTL DEF ClientSpec, Program!CushionSpec
=============================================================================
