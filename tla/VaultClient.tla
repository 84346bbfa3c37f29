---------------------------- MODULE VaultClient ----------------------------
(***************************************************************************)
(* The vault's TypeScript client (web/src/sdk/domains/vault.ts): quotes    *)
(* and the transactions it builds.                                         *)
(*                                                                         *)
(* The client repeats the program's conversions in integers that have no   *)
(* width.  A quote reads the vault account and, an await later, the supply *)
(* of the share mint: managed and supply are the two values read, from     *)
(* two states of the chain when somebody acted in between.  As in          *)
(* CheckedMath a result is a set, {} when the client throws.               *)
(***************************************************************************)
EXTENDS CushionVault

(* Mutant: the exit quoted in the depositor's favour.                      *)
ClientMulDivFloorRoundedUp(a, b, denominator) ==
  IF denominator <= 0 THEN {} ELSE {CeilDiv(a * b, denominator)}

ClientMulDivFloor(a, b, denominator) ==
  IF denominator <= 0 THEN {} ELSE {FloorDiv(a * b, denominator)}

ClientMulDivCeil(a, b, denominator) ==
  IF denominator <= 0 THEN {} ELSE {CeilDiv(a * b, denominator)}

(* convertTo...: one to one while both sides are empty, else the ratio.    *)
ClientConvert(amount, managed, supply, converted) ==
  IF managed + VirtualAssets = 0 \/ supply + VirtualShares = 0
    THEN OneToOne(amount, managed, supply)
    ELSE converted

ClientSharesFloor(assetsIn, managed, supply) ==
  ClientConvert(assetsIn, managed, supply,
                ClientMulDivFloor(assetsIn, supply + VirtualShares, managed + VirtualAssets))

ClientAssetsFloor(sharesIn, managed, supply) ==
  ClientConvert(sharesIn, managed, supply,
                ClientMulDivFloor(sharesIn, managed + VirtualAssets, supply + VirtualShares))

ClientAssetsCeil(sharesOut, managed, supply) ==
  ClientConvert(sharesOut, managed, supply,
                ClientMulDivCeil(sharesOut, managed + VirtualAssets, supply + VirtualShares))

ClientSharesCeil(assetsOut, managed, supply) ==
  ClientConvert(assetsOut, managed, supply,
                ClientMulDivCeil(assetsOut, supply + VirtualShares, managed + VirtualAssets))

-----------------------------------------------------------------------------
(* Quotes, from a vault account and a supply that have been read.          *)

InU64(n) == n \in 0 .. U64_MAX

QuoteDeposit(assetsIn, managed, supply) ==
  {q \in ClientSharesFloor(assetsIn, managed, supply) : InU64(assetsIn)}

QuoteMint(sharesOut, managed, supply) ==
  {q \in ClientAssetsCeil(sharesOut, managed, supply) : InU64(sharesOut)}

QuoteWithdraw(assetsOut, managed, supply) ==
  {q \in ClientSharesCeil(assetsOut, managed, supply) : InU64(assetsOut)}

QuoteRedeem(sharesIn, managed, supply) ==
  {q \in ClientAssetsFloor(sharesIn, managed, supply) : InU64(sharesIn)}

-----------------------------------------------------------------------------
(* The transactions the client builds: both arguments must be u64, and go  *)
(* to the instruction in the program's order.  The accounts an owner lacks *)
(* are created in front of it.                                             *)

BuildDeposit(u, assetsIn, minSharesOut) ==
  InU64(assetsIn) /\ InU64(minSharesOut) /\ Deposit(u, assetsIn, minSharesOut)

BuildMint(u, sharesOut, maxAssetsIn) ==
  InU64(sharesOut) /\ InU64(maxAssetsIn) /\ Mint(u, sharesOut, maxAssetsIn)

BuildWithdraw(u, assetsOut, maxSharesBurn) ==
  InU64(assetsOut) /\ InU64(maxSharesBurn) /\ Withdraw(u, assetsOut, maxSharesBurn)

BuildRedeem(u, sharesIn, minAssetsOut) ==
  InU64(sharesIn) /\ InU64(minAssetsOut) /\ Redeem(u, sharesIn, minAssetsOut)

-----------------------------------------------------------------------------
(* What the client may tell its user.                                      *)

(* Whatever the program would answer in this state, the client's quote of  *)
(* this state is the same, although it is another implementation of the    *)
(* four conversions; only where the program's integers are too narrow does *)
(* the client quote what the program refuses.                              *)
QuotesAreExact ==
  \A amount \in Amounts :
    LET agrees(preview, quote) == preview = {} \/ preview = quote
        managed == totalManagedAssets
    IN  /\ agrees(PreviewDeposit(amount), QuoteDeposit(amount, managed, shareSupply))
        /\ agrees(PreviewMint(amount), QuoteMint(amount, managed, shareSupply))
        /\ agrees(PreviewWithdraw(amount), QuoteWithdraw(amount, managed, shareSupply))
        /\ agrees(PreviewRedeem(amount), QuoteRedeem(amount, managed, shareSupply))

(* An exit quoted from one state of the chain is at least as good in the   *)
(* next, whoever acts, as long as there are shares to give up for it: a    *)
(* limit equal to the quote is never what makes a redeem or a withdraw     *)
(* fail, however long the user hesitates.  (Entries have no such property: *)
(* the price may rise.)                                                    *)
ExitsDoNotWorsen ==
  ~Degenerate(totalManagedAssets, shareSupply) =>
    \A amount \in Amounts :
      /\ amount \in 1 .. shareSupply' =>
           \A quoted \in QuoteRedeem(amount, totalManagedAssets, shareSupply) :
             \A paid \in PreviewRedeem(amount)' : paid >= quoted
      /\ \A quoted \in QuoteWithdraw(amount, totalManagedAssets, shareSupply) :
           \A burned \in PreviewWithdraw(amount)' :
             burned \in 1 .. shareSupply' => burned <= quoted

ExitQuotesHold == [][ExitsDoNotWorsen]_vaultVars
=============================================================================
