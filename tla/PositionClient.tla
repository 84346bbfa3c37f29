--------------------------- MODULE PositionClient ---------------------------
(***************************************************************************)
(* A borrower's TypeScript client (web/src/sdk/domains/position.ts,        *)
(* collateral.ts and debt.ts, with core/ and resolvers/ below them) on top *)
(* of the program.                                                         *)
(*                                                                         *)
(* The client reads the chain, builds a transaction from what it read and  *)
(* hands it to a wallet, which may take its time.  When the transaction    *)
(* lands the program demands the accounts that the obligation needs by     *)
(* then: every reserve in use, and no token account made twice.            *)
(***************************************************************************)
EXTENDS Cushion

VARIABLES
  opened,      \* positions whose accounts exist
  wealth,      \* USDC in the account of the position's owner
  accounts,    \* kinds of token accounts the position and its owner have
  pending      \* transactions the wallet holds

clientVars == <<opened, wealth, accounts, pending>>

Reserves == {"sol", "usdc"}
Instructions == {"increase", "decrease", "borrow", "repay", "repayMax"}

ClientTypeOK ==
  /\ opened \subseteq Positions
  /\ wealth \in [Positions -> Nat]
  /\ accounts \in [Positions -> SUBSET Reserves]
  /\ \A tx \in pending :
       /\ tx.position \in opened
       /\ tx.instruction \in Instructions
       /\ tx.amount \in 0 .. U64_MAX
       /\ tx.refresh \cup tx.remaining \cup tx.creates \subseteq Reserves

ClientInit ==
  /\ CushionInit
  /\ opened = {}
  /\ wealth = [p \in Positions |-> 0]
  /\ accounts = [p \in Positions |-> {}]
  /\ pending = {}

-----------------------------------------------------------------------------
(* Reading and building.                                                   *)

(* The reserve an instruction names; its token accounts are called alike.  *)
Selected(instruction) == IF instruction \in {"increase", "decrease"} THEN "sol" ELSE "usdc"

(* extractActiveReserves: the market empties a slot that reaches zero.     *)
ActiveReserves(p) ==
  {r \in Reserves : (r = "sol" /\ collateral[p] > 0) \/ (r = "usdc" /\ debt[p] > 0)}

RemainingReserves(p, selected) == ActiveReserves(p) \ {selected}

(* Mutant: whatever the program is passed is taken to be fresh.            *)
RefreshedSelected(p, selected) == ActiveReserves(p) \cap {selected}

(* createKlendRefreshReserveInstructions: the program refreshes the        *)
(* selected reserve itself.                                                *)
RefreshedReserves(p, selected) == ActiveReserves(p) \ {selected}

(* ensureAtaInstruction, for all the accounts that one builder ensures.    *)
EnsuredAtas(p, selected) == {selected} \ accounts[p]

Built(p, instruction, amount) ==
  LET selected == Selected(instruction)
  IN  [position |-> p, instruction |-> instruction, amount |-> amount,
       refresh |-> RefreshedReserves(p, selected),
       remaining |-> RemainingReserves(p, selected),
       creates |-> EnsuredAtas(p, selected)]

(* Mutant: "max" is the debt that was read.                                *)
MaxAmountRead(p) == debt[p]

(* buildRepayTx: "max" is a sentinel.                                      *)
MaxAmount(p) == U64_MAX

(* Amounts are checked to be u64 first.                                    *)
BuildIncreaseCollateralTx(p, amount) == {Built(p, "increase", a) : a \in U64(amount)}
BuildDecreaseCollateralTx(p, amount) == {Built(p, "decrease", a) : a \in U64(amount)}
BuildBorrowTx(p, amount) == {Built(p, "borrow", a) : a \in U64(amount)}
BuildRepayTx(p, amount) == {Built(p, "repay", a) : a \in U64(amount)}
BuildRepayMaxTx(p) == {Built(p, "repayMax", MaxAmount(p))}

BuildableTxs(p) ==
  (UNION {BuildIncreaseCollateralTx(p, a) \cup BuildDecreaseCollateralTx(p, a) : a \in CollateralAmounts})
    \cup (UNION {BuildBorrowTx(p, a) \cup BuildRepayTx(p, a) : a \in DebtAmounts})
    \cup BuildRepayMaxTx(p)

-----------------------------------------------------------------------------
(* Landing.                                                                *)

(* What Solana and resolve_active_refresh_reserves ask of the accounts.    *)
AccountsAccepted(tx) ==
  /\ tx.creates \cap accounts[tx.position] = {}
  /\ ActiveReserves(tx.position) \subseteq tx.remaining \cup {Selected(tx.instruction)}

(* Mutant: nobody looks at the balance.                                    *)
RepayValueUnchecked(p, amount) == {IF amount = U64_MAX THEN wealth[p] ELSE amount}

(* transfer_repay_liquidity_from_user: the largest u64 means the balance   *)
(* of the owner, not the debt.                                             *)
RepayValue(p, amount) ==
  {value \in {IF amount = U64_MAX THEN wealth[p] ELSE amount} : value > 0 /\ value <= wealth[p]}

Repay(p, amount) ==
  \E value \in RepayValue(p, amount) :
    /\ RepayDebt(p, value)
    /\ wealth' = [wealth EXCEPT ![p] = @ - value]

Execute(tx) ==
  LET p == tx.position
      amount == tx.amount
  IN  \/ tx.instruction = "increase" /\ IncreaseCollateral(p, amount) /\ UNCHANGED wealth
      \/ tx.instruction = "decrease" /\ DecreaseCollateral(p, amount) /\ UNCHANGED wealth
      \/ /\ tx.instruction = "borrow"
         /\ BorrowAsset(p, amount)
         /\ wealth' = [wealth EXCEPT ![p] = @ + amount]
      \/ tx.instruction \in {"repay", "repayMax"} /\ Repay(p, amount)

Lands(tx) ==
  /\ AccountsAccepted(tx)
  /\ Execute(tx)
  /\ accounts' = [accounts EXCEPT ![tx.position] = @ \cup {Selected(tx.instruction)}]
-----------------------------------------------------------------------------
(* What happens to positions and their transactions.                       *)

(* buildInitPositionTx with a fresh key: one transaction makes the NFT,    *)
(* the position, its registry entry, the obligation and its farm state.    *)
OpensPosition ==
  /\ \E p \in Positions \ opened : opened' = opened \cup {p}
  /\ UNCHANGED <<vars, wealth, accounts, pending>>

(* Bounds of the model: wallets hold one transaction at a time, built      *)
(* while the vault has charged no interest and holds no USDC; and what     *)
(* touches no position, of depositors and the vault's price, happens       *)
(* before a wallet is asked or after it has answered.                      *)
WalletAsked ==
  /\ pending = {}
  /\ accumulatedInterest = TOKEN_PRECISION /\ sinceInterest = 0 /\ vaultUsdc = 0

BuildsTx ==
  /\ WalletAsked
  /\ \E p \in opened : \E tx \in BuildableTxs(p) : pending' = {tx}
  /\ UNCHANGED <<vars, opened, wealth, accounts>>

SendsTx == \E tx \in pending : Lands(tx) /\ pending' = {} /\ UNCHANGED opened

(* The user declines, or the program refuses.                              *)
DropsTx ==
  /\ pending # {}
  /\ pending' = {}
  /\ UNCHANGED <<vars, opened, wealth, accounts>>

(* Another window of the same owner, quicker than anybody.                 *)
ActsAtOnce ==
  \E p \in opened : \E tx \in BuildableTxs(p) : Lands(tx) /\ UNCHANGED <<opened, pending>>

(* The tick of the model is longer than a blockhash lives.                 *)
TimePasses == ClockTicks /\ pending' = {} /\ UNCHANGED <<opened, wealth, accounts>>

OthersAct ==
  /\ \/ pending = {} /\ (DepositorActs \/ UpdateMarketPrice)
     \/ MarketMoves
     \/ \E p \in opened :
          \/ Inject(p) \/ WithdrawInjected(p)
          \/ LiquidateSwap(p) \/ AdminLiquidateSwap(p) \/ Liquidate(p)
  /\ UNCHANGED clientVars

ClientNext ==
  OpensPosition \/ BuildsTx \/ SendsTx \/ DropsTx \/ ActsAtOnce \/ TimePasses \/ OthersAct

ClientSpec == ClientInit /\ [][ClientNext]_<<vars, clientVars>>

-----------------------------------------------------------------------------
(* What the client may count on.                                           *)

(* The LTV that the program compares is one of this slot's prices: when a  *)
(* transaction lands, every reserve its obligation uses by then has been   *)
(* refreshed by it, however old the list of reserves in the transaction.   *)
LandedIsFresh ==
  [][\A tx \in pending :
       Lands(tx) => ActiveReserves(tx.position) \subseteq tx.refresh \cup {Selected(tx.instruction)}]_vars

(* A repayment of "max" clears the debt when its owner has the USDC for it *)
(* at that moment: what was borrowed since it was built is repaid as well. *)
MaxClearsDebt ==
  [][\A tx \in pending :
       tx.instruction = "repayMax" /\ Lands(tx) /\ wealth[tx.position] >= debt[tx.position]
         => debt'[tx.position] = 0]_vars

(* getDebtPosition's maxSafeLtvWad and ltvWad.                             *)
MaxSafeLtvShown(p) ==
  IF DepositedValue(p) = 0 THEN {} ELSE {FloorDiv(AllowedBorrow(p) * WAD, DepositedValue(p))}

LtvShown(value, p) == FloorDiv(value * WAD, DepositedValue(p))

(* What the client shows as safe can be had: a loan that keeps the shown   *)
(* LTV within the shown maximum is accepted, by the program, whose maximum *)
(* is another formula, of another threshold and two factors, and by the    *)
(* market.  Of a deposit whose ratios the program cannot compute (from 340 *)
(* USD: run overflow) the client shows what no instruction can use.        *)
ShownRoomIsReal ==
  \A p \in opened, value \in DebtAmounts :
    DepositedValue(p) * WAD <= U128_MAX =>
      \A maximum \in MaxSafeLtvShown(p) :
        LtvShown(debt[p] + value, p) <= maximum
          => SafeWithDebt(p, value) /\ WithinBorrowLimit(p, value)
=============================================================================
