---------------------------- MODULE KeeperChain -----------------------------
(***************************************************************************)
(* What the keeper sees of the chain and does to it                        *)
(* (keeper/src/chain/klend.ts and keeper/src/chain/cushion.ts).            *)
(*                                                                         *)
(* The arithmetic of ratios is module LtvMath's.  Here a position has a    *)
(* load, its debt against its own collateral, the collateral's price has   *)
(* dropped by so much, and its LTV is the sum, less Relief while a buffer  *)
(* is injected.  What the keeper's races turn on is kept: an obligation    *)
(* carries the values of the last transaction that refreshed it, and a     *)
(* price that moves afterwards does not show in them.                      *)
(***************************************************************************)
EXTENDS Integers, FiniteSets

CONSTANTS
  Positions,      \* Cushion positions
  Drops,          \* by how much the collateral's price has dropped
  Loads,          \* debts of a position, 0 for none
  Relief,         \* what a buffer takes off the LTV
  InjectAbove,    \* insuring threshold: 0.85 of the allowed LTV
  WithdrawUpTo,   \* withdrawing threshold: 0.743 of the allowed LTV
  LiquidateFrom,  \* liquidation threshold: 0.93 of the unhealthy LTV
  Nothing         \* no row, no answer yet, no price

ASSUME LevelAssumption ==
  /\ Drops \subseteq Nat /\ 0 \in Drops
  /\ Loads \subseteq Nat /\ 0 \in Loads
  /\ Relief \in Nat \ {0}
  /\ WithdrawUpTo \in Nat
  /\ InjectAbove \in WithdrawUpTo .. LiquidateFrom
  /\ LiquidateFrom \in Nat

ASSUME NothingAssumption == Nothing \notin BOOLEAN \union Nat

VARIABLES
  drop,     \* the reserve's price, as its oracle has it
  account   \* per position: its account, and its Kamino obligation

chainVars == <<drop, account>>

Account == [open : BOOLEAN, injected : BOOLEAN, load : Loads, valuedAt : Drops]

ChainTypeOK == drop \in Drops /\ account \in [Positions -> Account]

(* Positions may have been opened, borrowed against and injected before    *)
(* the keeper is first started.                                            *)
ChainInit ==
  /\ drop \in Drops
  /\ account \in [Positions -> {a \in Account :
       /\ a.valuedAt = drop
       /\ a.open <=> a.load # 0
       /\ a.injected => a.open}]

-----------------------------------------------------------------------------
(* Reads.                                                                  *)

Ltv(load, at, injected) ==
  IF load = 0 THEN 0 ELSE load + at - (IF injected THEN Relief ELSE 0)

(* The LTV a transaction finds: it refreshes before it looks.              *)
LiveLtv(p) == Ltv(account[p].load, drop, account[p].injected)

(* fetchReservePrice: the price the reserve would be refreshed to.         *)
FetchReservePrice == drop

(* fetchPositionRiskSnapshot: the values stored in the obligation.         *)
FetchPositionRisk(p) == Ltv(account[p].load, account[p].valuedAt, account[p].injected)

(* fetchObligationUserStateDigest: deposits and debts in tokens, no price. *)
FetchUserStateDigest(p) == <<account[p].load, account[p].injected>>

(* fetchObligationContext: which reserves an obligation uses at all.       *)
HasBorrowReserve(p) == account[p].load # 0

(* listPositions, fetchPosition: what a row of the store repeats.          *)
ListPositions ==
  [p \in Positions |-> IF account[p].open THEN account[p].injected ELSE Nothing]

-----------------------------------------------------------------------------
(* Transactions.  Each refreshes the obligation, and changes nothing when  *)
(* one of the program's checks fails.                                      *)

Touch(p, changed) == account' = [account EXCEPT ![p] = [changed EXCEPT !.valuedAt = drop]]

(* refreshObligationState                                                  *)
RefreshObligation(p) == Touch(p, account[p])

CanInject(p)    == ~account[p].injected /\ LiveLtv(p) > InjectAbove
CanWithdraw(p)  == account[p].injected /\ Ltv(account[p].load, drop, FALSE) < WithdrawUpTo
CanLiquidate(p) == account[p].injected /\ LiveLtv(p) >= LiquidateFrom

(* injectCollateral, withdrawInjectedCollateral, liquidateSwap, liquidate. *)
InjectCollateral(p) == Touch(p, [account[p] EXCEPT !.injected = TRUE])
WithdrawInjected(p) == Touch(p, [account[p] EXCEPT !.injected = FALSE])
LiquidateSwap(p)    == RefreshObligation(p)
Liquidate(p)        == Touch(p, [account[p] EXCEPT !.injected = FALSE, !.load = 0])

-----------------------------------------------------------------------------
(* The rest of the world.                                                  *)

OpenPosition(p) ==
  /\ ~account[p].open
  /\ account' = [account EXCEPT ![p].open = TRUE]
  /\ UNCHANGED drop

(* borrow_asset, increase_debt, repay_debt                                 *)
ChangeLoad(p) ==
  /\ account[p].open
  /\ \E load \in Loads \ {account[p].load} : Touch(p, [account[p] EXCEPT !.load = load])
  /\ UNCHANGED drop

PriceMoves ==
  /\ drop' \in Drops \ {drop}
  /\ UNCHANGED account

World == PriceMoves \/ \E p \in Positions : OpenPosition(p) \/ ChangeLoad(p)
=============================================================================
