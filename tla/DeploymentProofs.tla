-------------------------- MODULE DeploymentProofs --------------------------
(***************************************************************************)
(* What holds of every deployment, with any number of programs, accidents  *)
(* and failures, and of the vault it opens.                                *)
(*                                                                         *)
(* The vault: users' steps are the vault's own and the operator leaves it  *)
(* alone, so whatever is true of VaultSpec is true here.                   *)
(*                                                                         *)
(* The deployment: nothing on chain is ever undone, so what a script has   *)
(* established stays.  ScriptInv says what each stage of the deploy flow   *)
(* has established, GateInv what each stage of the gate knows of .env, and *)
(* PublishedInv that a market is complete wherever it is named, also in    *)
(* the environment that a running verification has read.                   *)
(***************************************************************************)
EXTENDS Deployment, CushionVaultProofs

-----------------------------------------------------------------------------
(* The client's quotes, for every vault, amount and width.                 *)
(*                                                                         *)
(* That a quote is what the program answers needs no invariant: wherever   *)
(* the program's integers suffice, both divide the same numbers.  That an  *)
(* exit does not worsen rests on the vault's own NoDilution: the price     *)
(* A / R in one state is at most A1 / R1 in the next, and division by a    *)
(* price is monotone.                                                      *)

(* Where the program answers a conversion, the client quotes it.           *)
LEMMA FloorQuote ==
  ASSUME NEW x \in Nat, NEW r \in Nat, NEW d \in Nat \ {0}
  PROVE  ConvertFloor(x, r, d) \in {{}, ClientMulDivFloor(x, r, d)}
BY DEF ConvertFloor, ClientMulDivFloor

LEMMA CeilQuote ==
  ASSUME NEW x \in Nat, NEW r \in Nat, NEW d \in Nat \ {0}
  PROVE  ConvertCeil(x, r, d) \in {{}, ClientMulDivCeil(x, r, d)}
BY DEF ConvertCeil, ClientMulDivCeil

(* The four conversions of the client and of the program.                  *)
LEMMA ConversionsAgree ==
  ASSUME NEW x \in Nat, NEW t \in Nat, NEW s \in Nat
  PROVE  /\ SharesFloor(x, t, s) \in {{}, ClientSharesFloor(x, t, s)}
         /\ AssetsFloor(x, t, s) \in {{}, ClientAssetsFloor(x, t, s)}
         /\ AssetsCeil(x, t, s) \in {{}, ClientAssetsCeil(x, t, s)}
         /\ SharesCeil(x, t, s) \in {{}, ClientSharesCeil(x, t, s)}
<1> DEFINE A == t + VirtualAssets
           R == s + VirtualShares
<1>1. A \in Nat /\ R \in Nat
  BY VirtualAssumption, WidthAssumption
<1>2. CASE Degenerate(t, s)
  BY <1>2 DEF Degenerate, SharesFloor, AssetsFloor, AssetsCeil, SharesCeil,
              ClientSharesFloor, ClientAssetsFloor, ClientAssetsCeil, ClientSharesCeil,
              ClientConvert
<1>3. CASE ~ Degenerate(t, s)
  <2>1. A \in Nat \ {0} /\ R \in Nat \ {0}
    BY <1>1, <1>3 DEF Degenerate
  <2>2. /\ ConvertFloor(x, R, A) \in {{}, ClientMulDivFloor(x, R, A)}
        /\ ConvertFloor(x, A, R) \in {{}, ClientMulDivFloor(x, A, R)}
    BY <2>1, FloorQuote
  <2>3. /\ ConvertCeil(x, A, R) \in {{}, ClientMulDivCeil(x, A, R)}
        /\ ConvertCeil(x, R, A) \in {{}, ClientMulDivCeil(x, R, A)}
    BY <2>1, CeilQuote
  <2>4. A # 0 /\ R # 0
    BY <2>1
  <2>5. QED
    BY <1>3, <2>2, <2>3, <2>4
       DEF SharesFloor, AssetsFloor, AssetsCeil, SharesCeil, ClientConvert,
           ClientSharesFloor, ClientAssetsFloor, ClientAssetsCeil, ClientSharesCeil
<1>4. QED
  BY <1>2, <1>3

(* A quote of the client is the program's answer, in every state of the    *)
(* vault, for every amount that a user can enter.                          *)
THEOREM QuotesMatch == VaultSpec => []QuotesAreExact
<1>1. ASSUME VaultInv
      PROVE  QuotesAreExact
  <2> DEFINE t == totalManagedAssets
             s == shareSupply
  <2>1. t \in Nat /\ s \in Nat
    BY <1>1 DEF VaultInv, VaultTypeOK
  <2>2. ASSUME NEW x \in Amounts
        PROVE  /\ PreviewDeposit(x) \in {{}, QuoteDeposit(x, t, s)}
               /\ PreviewMint(x) \in {{}, QuoteMint(x, t, s)}
               /\ PreviewWithdraw(x) \in {{}, QuoteWithdraw(x, t, s)}
               /\ PreviewRedeem(x) \in {{}, QuoteRedeem(x, t, s)}
    <3>1. x \in Nat /\ InU64(x)
      BY BoundAssumption DEF InU64
    <3>2. /\ QuoteDeposit(x, t, s) = ClientSharesFloor(x, t, s)
          /\ QuoteMint(x, t, s) = ClientAssetsCeil(x, t, s)
          /\ QuoteWithdraw(x, t, s) = ClientSharesCeil(x, t, s)
          /\ QuoteRedeem(x, t, s) = ClientAssetsFloor(x, t, s)
      BY <3>1 DEF QuoteDeposit, QuoteMint, QuoteWithdraw, QuoteRedeem
    <3>3. QED
      BY <2>1, <3>1, <3>2, ConversionsAgree
         DEF PreviewDeposit, PreviewMint, PreviewWithdraw, PreviewRedeem
  <2>3. QED
    BY <2>2 DEF QuotesAreExact
<1>2. QED
  BY <1>1, VaultInvariant, PTL

-----------------------------------------------------------------------------
(* Division on either side of a whole number.                              *)
LEMMA FloorIsLargest ==
  ASSUME NEW a \in Nat, NEW d \in Nat \ {0}, NEW y \in Nat, y * d <= a
  PROVE  y <= FloorDiv(a, d)
<1>1. FloorDiv(a, d) \in Nat /\ a < (FloorDiv(a, d) + 1) * d
  BY DEF FloorDiv
<1>2. y * d < (FloorDiv(a, d) + 1) * d
  BY <1>1
<1>3. QED
  BY <1>1, <1>2

LEMMA CeilIsSmallest ==
  ASSUME NEW a \in Nat, NEW d \in Nat \ {0}, NEW y \in Nat, a <= y * d
  PROVE  CeilDiv(a, d) <= y
<1>1. CeilDiv(a, d) \in Nat /\ a > (CeilDiv(a, d) - 1) * d
  BY DEF CeilDiv
<1>2. (CeilDiv(a, d) - 1) * d < y * d
  BY <1>1
<1>3. QED
  BY <1>1, <1>2

(* What q shares were worth at the price A / R, they are at A1 / R1.       *)
LEMMA WorthCarriesOver ==
  ASSUME NEW A \in Nat, NEW R \in Nat \ {0}, NEW A1 \in Nat, NEW R1 \in Nat,
         A1 * R >= A * R1,
         NEW x \in Nat, NEW q \in Nat, x * R <= q * A
  PROVE  x * R1 <= q * A1
<1>1. (x * R) * R1 <= (q * A) * R1
  BY ProductInNat, MulMonotone
<1>2. (A * R1) * q <= (A1 * R) * q
  BY ProductInNat, MulMonotone
<1>3. /\ (x * R) * R1 = (x * R1) * R
      /\ (q * A) * R1 = (A * R1) * q
      /\ (A1 * R) * q = (q * A1) * R
  BY Distribute
<1>4. (x * R1) * R <= (q * A1) * R
  <2>1. (x * R1) \in Nat /\ (q * A1) \in Nat /\ A * R1 \in Nat
    BY ProductInNat
  <2>2. (x * R1) * R \in Nat /\ (q * A1) * R \in Nat /\ (A * R1) * q \in Nat
    BY <2>1, ProductInNat
  <2>3. QED
    BY <1>1, <1>2, <1>3, <2>2
<1>5. QED
  BY <1>4, ProductInNat, MulCancel

(* What x assets cost at A / R suffices at A1 / R1, if there are assets.   *)
LEMMA CostCarriesOver ==
  ASSUME NEW A \in Nat \ {0}, NEW R \in Nat, NEW A1 \in Nat, NEW R1 \in Nat,
         A1 * R >= A * R1,
         NEW x \in Nat, NEW q \in Nat, x * R <= q * A
  PROVE  x * R1 <= q * A1
<1>1. (A * R1) * x <= (A1 * R) * x
  BY ProductInNat, MulMonotone
<1>2. (x * R) * A1 <= (q * A) * A1
  BY ProductInNat, MulMonotone
<1>3. /\ (A * R1) * x = (x * R1) * A
      /\ (A1 * R) * x = (x * R) * A1
      /\ (q * A) * A1 = (q * A1) * A
  BY Distribute
<1>4. (x * R1) * A <= (q * A1) * A
  <2>1. (x * R1) \in Nat /\ (q * A1) \in Nat /\ x * R \in Nat
    BY ProductInNat
  <2>2. (x * R1) * A \in Nat /\ (q * A1) * A \in Nat /\ (x * R) * A1 \in Nat
    BY <2>1, ProductInNat
  <2>3. QED
    BY <1>1, <1>2, <1>3, <2>2
<1>5. QED
  BY <1>4, ProductInNat, MulCancel

(* An exit's quote from t assets and s shares is no better than what the   *)
(* program answers with t1 and s1, if the price has not fallen.            *)
LEMMA QuoteCarriesOver ==
  ASSUME NEW t \in Nat, NEW s \in Nat, NEW t1 \in Nat, NEW s1 \in Nat,
         ~Degenerate(t, s), NEW amount \in 0 .. U64_MAX,
         (t1 + VirtualAssets) * (s + VirtualShares) >= (t + VirtualAssets) * (s1 + VirtualShares)
  PROVE  /\ amount \in 1 .. s1 =>
              \A quoted \in QuoteRedeem(amount, t, s) :
                \A paid \in AssetsFloor(amount, t1, s1) : paid >= quoted
         /\ \A quoted \in QuoteWithdraw(amount, t, s) :
              \A burned \in SharesCeil(amount, t1, s1) : burned \in 1 .. s1 => burned <= quoted
<1> DEFINE A == t + VirtualAssets
           R == s + VirtualShares
           A1 == t1 + VirtualAssets
           R1 == s1 + VirtualShares
<1>1. /\ A \in Nat \ {0} /\ R \in Nat \ {0}
      /\ A1 \in Nat /\ R1 \in Nat /\ amount \in Nat
  BY VirtualAssumption, WidthAssumption DEF Degenerate
<1>2. A1 * R >= A * R1
  OBVIOUS
<1>3. ASSUME amount \in 1 .. s1,
             NEW quoted \in QuoteRedeem(amount, t, s),
             NEW paid \in AssetsFloor(amount, t1, s1)
      PROVE  paid >= quoted
  <2>1. quoted = FloorDiv(amount * A, R)
    BY <1>1 DEF QuoteRedeem, ClientAssetsFloor, ClientConvert, ClientMulDivFloor
  <2>2. ~Degenerate(t1, s1)
    BY <1>1, <1>3 DEF AssetsFloor, OneToOne
  <2>3. R1 \in Nat \ {0} /\ paid = FloorDiv(amount * A1, R1)
    BY <1>1, <2>2 DEF AssetsFloor, ConvertFloor, Degenerate
  <2>4. quoted \in Nat /\ quoted * R <= amount * A
    BY <1>1, <2>1, ProductInNat, DivBounds
  <2>5. quoted * R1 <= amount * A1
    BY <1>1, <1>2, <2>4, WorthCarriesOver
  <2>6. QED
    <3>1. amount * A1 \in Nat /\ paid \in Nat
      BY <1>1, <2>3, ProductInNat, DivBounds
    <3>2. quoted <= paid
      BY <2>3, <2>4, <2>5, <3>1, FloorIsLargest
    <3>3. QED
      BY <2>4, <3>1, <3>2
<1>4. ASSUME NEW quoted \in QuoteWithdraw(amount, t, s),
             NEW burned \in SharesCeil(amount, t1, s1), burned \in 1 .. s1
      PROVE  burned <= quoted
  <2>1. quoted = CeilDiv(amount * R, A)
    BY <1>1 DEF QuoteWithdraw, ClientSharesCeil, ClientConvert, ClientMulDivCeil
  <2>2. ~Degenerate(t1, s1)
    BY <1>1, <1>4 DEF SharesCeil, OneToOne
  <2>3. A1 \in Nat \ {0} /\ burned = CeilDiv(amount * R1, A1)
    BY <1>1, <2>2 DEF SharesCeil, ConvertCeil, Degenerate
  <2>4. quoted \in Nat /\ amount * R <= quoted * A
    BY <1>1, <2>1, ProductInNat, DivBounds
  <2>5. amount * R1 <= quoted * A1
    BY <1>1, <1>2, <2>4, CostCarriesOver
  <2>6. QED
    BY <1>1, <2>3, <2>4, <2>5, ProductInNat, CeilIsSmallest
<1>5. QED
  BY <1>3, <1>4

(* So it is over a step of the vault.                                      *)
LEMMA ExitStep ==
  ASSUME VaultInv, VaultInv', PriceDoesNotFall
  PROVE  ExitsDoNotWorsen
<1> DEFINE t == totalManagedAssets
           s == shareSupply
<1> SUFFICES ASSUME ~Degenerate(t, s), NEW amount \in Amounts
             PROVE  /\ amount \in 1 .. shareSupply' =>
                         \A quoted \in QuoteRedeem(amount, t, s) :
                           \A paid \in PreviewRedeem(amount)' : paid >= quoted
                    /\ \A quoted \in QuoteWithdraw(amount, t, s) :
                         \A burned \in PreviewWithdraw(amount)' :
                           burned \in 1 .. shareSupply' => burned <= quoted
  BY DEF ExitsDoNotWorsen
<1>1. /\ t \in Nat /\ s \in Nat
      /\ totalManagedAssets' \in Nat /\ shareSupply' \in Nat /\ amount \in 0 .. U64_MAX
  BY BoundAssumption DEF VaultInv, VaultTypeOK
<1>2. (totalManagedAssets' + VirtualAssets) * (s + VirtualShares)
        >= (t + VirtualAssets) * (shareSupply' + VirtualShares)
  BY DEF PriceDoesNotFall
<1>3. QED
  BY <1>1, <1>2, QuoteCarriesOver DEF PreviewRedeem, PreviewWithdraw

(* A user may take the time to think: as long as there are shares to give  *)
(* up, no step of anybody makes a quoted exit worse, in any configuration. *)
THEOREM ExitQuotesDoHold == VaultSpec => ExitQuotesHold
<1>1. VaultInv /\ VaultInv' /\ [VaultNext]_vaultVars => [ExitsDoNotWorsen]_vaultVars
  BY StepPreserves, ExitStep
<1>2. QED
  BY <1>1, VaultInvariant, PTL DEF VaultSpec, ExitQuotesHold

-----------------------------------------------------------------------------
(* The vault that is deployed.                                             *)

LEMMA StepIsTheVaults == [Next]_<<bootstrapVars, vaultVars>> => [VaultNext]_vaultVars
<1>1. ClientInstruction => LiquidityInstruction
  BY DEF ClientInstruction, LiquidityInstruction, BuildDeposit, BuildMint, BuildWithdraw, BuildRedeem
<1>2. UserStep => VaultNext
  BY <1>1 DEF UserStep, VaultNext
<1>3. OperatorStep => UNCHANGED vaultVars
  BY DEF OperatorStep
<1> QED
  BY <1>2, <1>3 DEF Next, vaultVars

(* The deployment and its users, seen from the vault's accounts, are a     *)
(* vault: the theorems about VaultSpec hold of them.                       *)
THEOREM DeploymentIsAVault == Spec => VaultSpec
<1>1. Init => VaultInit
  BY DEF Init
<1> QED
  BY <1>1, StepIsTheVaults, PTL DEF Spec, VaultSpec

(* Whoever deploys and whoever trades through the client, claims stay      *)
(* covered, nobody is diluted, and a quoted exit holds.                    *)
THEOREM DeployedVaultIsSound ==
  Spec =>
    /\ [](SharePriceCovered /\ ClaimsCovered /\ AllClaimsCovered /\ RoundTripNoProfit)
    /\ NoDilution
    /\ ExitQuotesHold
BY DeploymentIsAVault, SharePriceIsCovered, ClaimsAreCovered, AllClaimsAreCovered,
   RoundTripsDoNotPay, NobodyIsDiluted, ExitQuotesDoHold, PTL

-----------------------------------------------------------------------------
AccountsMade(k) == \A i \in DOMAIN BootstrapOrder : Exists(BootstrapOrder[i], k)

ReservesReady(k) == \A r \in Reserves : made[r] = {k} /\ r \in initialized

MarketComplete(k) == AccountsMade(k) /\ ReservesReady(k) /\ usdc["supply"] >= TargetSupply

(* What the deploy flow has established when it comes to a stage.          *)
AtBootstrap ==
  operator.doing = "bootstrap" =>
    /\ operator.step \in DOMAIN BootstrapOrder
    /\ operator.klend \in Programs
    /\ operator.sending = 0
    /\ \A i \in 1 .. operator.step - 1 : Exists(BootstrapOrder[i], operator.klend)

AtReserves ==
  operator.doing = "reserves" =>
    /\ operator.step \in DOMAIN ReserveOrder
    /\ operator.klend \in Programs
    /\ operator.sending = 0
    /\ AccountsMade(operator.klend)
    /\ operator.step = 2 =>
         made["solReserve"] = {operator.klend} /\ "solReserve" \in initialized

AtFund ==
  operator.doing = "fund" =>
    /\ operator.klend \in Programs
    /\ AccountsMade(operator.klend) /\ ReservesReady(operator.klend)
    /\ operator.step \in 0 .. 3
    /\ operator.step > 0 => usdc["supply"] + operator.owed >= TargetSupply
    /\ operator.sending > 0 => operator.step \in DOMAIN Sources /\ operator.sending <= operator.owed

AtPublish ==
  operator.doing = "publish" => operator.klend \in Programs /\ MarketComplete(operator.klend)

AtConfig ==
  operator.doing = "config" =>
    operator.klend \in Programs /\ envFile.ids = operator.klend /\ ReservesReady(operator.klend)

AtTheRest ==
  operator.doing \in {"freeze", "registry", "vault"} => operator.klend \in Programs

ScriptInv == AtBootstrap /\ AtReserves /\ AtFund /\ AtPublish /\ AtConfig /\ AtTheRest

(* Wherever a market is named, in what was read too, there is one.         *)
PublishedInv ==
  \A market \in {envFile.market, artifact.market, operator.read.market} \ {NoProgram} :
    MarketComplete(market)

(* What the gate knows of .env: names are all there after a prefill, and   *)
(* the second verification reads what is on disk.                          *)
Named(section) == section.ids # NoProgram /\ section.market # NoProgram /\ section.asset

GateInv ==
  /\ operator.doing = "verify" => operator.read = envFile
  /\ operator.doing = "check" => Named(envFile) /\ ResolvedMarket # NoProgram
  /\ operator.doing \in {"reverify", "recheck"} => operator.read = envFile /\ Named(envFile)

DeployInv ==
  DeploymentTypeOK /\ ScriptInv /\ PublishedInv /\ GateInv /\ ConfigFollowsReserves /\ GateMeansReady

-----------------------------------------------------------------------------
LEMMA Orders ==
  /\ Len(BootstrapOrder) = 9 /\ DOMAIN BootstrapOrder = 1 .. 9
  /\ \A i \in 1 .. 9 : BootstrapOrder[i] \in Accounts
  /\ Len(ReserveOrder) = 2 /\ DOMAIN ReserveOrder = 1 .. 2
  /\ ReserveOrder[1] = "solReserve" /\ ReserveOrder[2] = "usdcReserve"
  /\ Len(Sources) = 2 /\ DOMAIN Sources = 1 .. 2
  /\ Sources[1] = "payer" /\ Sources[2] = "donor"
  /\ Reserves \subseteq Accounts
  /\ "registry" \in Accounts /\ "vault" \in Accounts
<1>1. /\ Len(BootstrapOrder) = 9 /\ DOMAIN BootstrapOrder = 1 .. 9
      /\ Len(ReserveOrder) = 2 /\ DOMAIN ReserveOrder = 1 .. 2
      /\ ReserveOrder[1] = "solReserve" /\ ReserveOrder[2] = "usdcReserve"
      /\ Len(Sources) = 2 /\ DOMAIN Sources = 1 .. 2
      /\ Sources[1] = "payer" /\ Sources[2] = "donor"
  BY DEF BootstrapOrder, ReserveOrder, Sources
<1>2. BootstrapOrder[2] = "solReserve" /\ BootstrapOrder[3] = "usdcReserve"
  BY DEF BootstrapOrder
<1> QED
  BY <1>1, <1>2 DEF Accounts, Reserves

LEMMA InitDeploys == Init => DeployInv
<1> SUFFICES ASSUME Init
             PROVE  DeployInv
  OBVIOUS
<1> USE DEF Init, DeployInit, BootstrapInit, Idle, NoSection
<1>1. DeploymentTypeOK
  BY ProgramAssumption, FundAssumption, Orders
     DEF DeploymentTypeOK, DeployTypeOK, BootstrapTypeOK, Stages, Section, Maybe
<1>2. ScriptInv
  BY DEF ScriptInv, AtBootstrap, AtReserves, AtFund, AtPublish, AtConfig, AtTheRest
<1>3. PublishedInv /\ GateInv /\ ConfigFollowsReserves /\ GateMeansReady
  BY DEF PublishedInv, GateInv, ConfigFollowsReserves, GateMeansReady
<1> QED
  BY <1>1, <1>2, <1>3 DEF DeployInv

-----------------------------------------------------------------------------
(* Nothing on chain is undone.                                             *)
Grows ==
  /\ \A a \in Accounts : made[a] \subseteq made'[a]
  /\ \A r \in Reserves : made[r] # {} => made'[r] = made[r]
  /\ initialized \subseteq initialized'
  /\ usdc'["supply"] >= usdc["supply"]

LEMMA ExistsStays ==
  ASSUME Grows, NEW a \in Accounts, NEW k, Exists(a, k)
  PROVE  Exists(a, k)'
BY DEF Grows, Exists

LEMMA CompleteStays ==
  ASSUME DeploymentTypeOK, DeploymentTypeOK', Grows, NEW k
  PROVE  /\ AccountsMade(k) => AccountsMade(k)'
         /\ ReservesReady(k) => ReservesReady(k)'
         /\ MarketComplete(k) => MarketComplete(k)'
<1>1. AccountsMade(k) => AccountsMade(k)'
  BY ExistsStays, Orders DEF AccountsMade
<1>2. ReservesReady(k) => ReservesReady(k)'
  BY DEF ReservesReady, Grows
<1>3. usdc["supply"] >= TargetSupply => usdc'["supply"] >= TargetSupply
  BY FundAssumption DEF Grows, DeploymentTypeOK, BootstrapTypeOK
<1> QED
  BY <1>1, <1>2, <1>3 DEF MarketComplete

(* What is published, configured or read stays true, if files and config   *)
(* are as they were or the script has lost its memory.                     *)
LEMMA PublishedStays ==
  ASSUME DeployInv, DeploymentTypeOK', Grows,
         {envFile'.market, artifact'.market, operator'.read.market} \ {NoProgram}
           \subseteq {envFile.market, artifact.market, operator.read.market}
  PROVE  PublishedInv'
BY CompleteStays DEF DeployInv, PublishedInv

LEMMA ConfigStays ==
  ASSUME DeployInv, DeploymentTypeOK', Grows, config'.klend = config.klend
  PROVE  ConfigFollowsReserves'
<1>1. config.klend # NoProgram => ReservesReady(config.klend)
  BY DEF DeployInv, ConfigFollowsReserves, ReservesReady
<1>2. config.klend # NoProgram => ReservesReady(config.klend)'
  BY <1>1, CompleteStays DEF DeployInv
<1> QED
  BY <1>2 DEF ConfigFollowsReserves, ReservesReady

(* A step after which no gate has passed.                                  *)
LEMMA StepKeeps ==
  ASSUME DeployInv, DeploymentTypeOK', Grows, ScriptInv', GateInv',
         {envFile'.market, artifact'.market, operator'.read.market} \ {NoProgram}
           \subseteq {envFile.market, artifact.market, operator.read.market},
         config'.klend = config.klend, operator'.doing # "passed"
  PROVE  DeployInv'
<1>1. PublishedInv' /\ ConfigFollowsReserves'
  BY PublishedStays, ConfigStays
<1> QED
  BY <1>1 DEF DeployInv, GateMeansReady

(* A script that ends, for whatever reason.                                *)
LEMMA StopKeeps ==
  ASSUME DeployInv, DeploymentTypeOK', Grows, Stop,
         {envFile'.market, artifact'.market} \ {NoProgram}
           \subseteq {envFile.market, artifact.market, operator.read.market},
         config'.klend = config.klend
  PROVE  DeployInv'
<1>1. operator'.doing = "idle" /\ operator'.read.market = NoProgram
  BY DEF Stop, Idle, NoSection
<1>2. ScriptInv' /\ GateInv'
  BY <1>1 DEF ScriptInv, AtBootstrap, AtReserves, AtFund, AtPublish, AtConfig, AtTheRest, GateInv
<1> QED
  BY <1>1, <1>2, StepKeeps

Operators ==
  [doing : Stages, step : 0 .. 9, klend : Maybe, read : Section, owed : Nat, sending : Nat]

LEMMA IdleIsTyped == Idle \in Operators
BY DEF Idle, NoSection, Section, Maybe, Stages, Operators

(* What a script remembers, field by field, after a change of some.        *)
Memory(p, d, n, k, r, w, m) ==
  /\ p \in Operators
  /\ p.doing = d /\ p.step = n /\ p.klend = k /\ p.read = r /\ p.owed = w /\ p.sending = m

LEMMA OperatorFields ==
  ASSUME NEW o \in Operators
  PROVE  /\ o.doing \in Stages /\ o.step \in 0 .. 9 /\ o.klend \in Maybe
         /\ o.read \in Section /\ o.owed \in Nat /\ o.sending \in Nat
BY DEF Operators

LEMMA DoingChanges ==
  ASSUME NEW o \in Operators, NEW d \in Stages
  PROVE  Memory([o EXCEPT !.doing = d], d, o.step, o.klend, o.read, o.owed, o.sending)
BY DEF Operators, Memory

LEMMA StepChanges ==
  ASSUME NEW o \in Operators, NEW n \in 0 .. 9
  PROVE  Memory([o EXCEPT !.step = n], o.doing, n, o.klend, o.read, o.owed, o.sending)
BY DEF Operators, Memory

LEMMA StageChanges ==
  ASSUME NEW o \in Operators, NEW d \in Stages, NEW n \in 0 .. 9
  PROVE  Memory([o EXCEPT !.doing = d, !.step = n], d, n, o.klend, o.read, o.owed, o.sending)
BY DEF Operators, Memory

LEMMA StageOwedChanges ==
  ASSUME NEW o \in Operators, NEW d \in Stages, NEW n \in 0 .. 9, NEW w \in Nat
  PROVE  Memory([o EXCEPT !.doing = d, !.step = n, !.owed = w], d, n, o.klend, o.read, w, o.sending)
BY DEF Operators, Memory

LEMMA OwedChanges ==
  ASSUME NEW o \in Operators, NEW n \in 0 .. 9, NEW w \in Nat
  PROVE  Memory([o EXCEPT !.step = n, !.owed = w], o.doing, n, o.klend, o.read, w, o.sending)
BY DEF Operators, Memory

LEMMA SentChanges ==
  ASSUME NEW o \in Operators, NEW n \in 0 .. 9, NEW w \in Nat, NEW m \in Nat
  PROVE  Memory([o EXCEPT !.step = n, !.owed = w, !.sending = m], o.doing, n, o.klend, o.read, w, m)
BY DEF Operators, Memory

LEMMA SendingChanges ==
  ASSUME NEW o \in Operators, NEW m \in Nat
  PROVE  Memory([o EXCEPT !.sending = m], o.doing, o.step, o.klend, o.read, o.owed, m)
BY DEF Operators, Memory

LEMMA UnchangedGrows ==
  ASSUME DeploymentTypeOK, UNCHANGED <<made, initialized>>, usdc'["supply"] = usdc["supply"]
  PROVE  Grows
BY DEF Grows, DeploymentTypeOK, BootstrapTypeOK

-----------------------------------------------------------------------------
(* The steps of the operator, one by one.                                  *)

LEMMA StartsDeployKeeps == ASSUME DeployInv, StartsDeploy PROVE DeployInv'
<1>1. operator' = [Idle EXCEPT !.doing = "bootstrap", !.step = 1,
                              !.klend = FirstOf(envFile.ids, checkout)]
  BY DEF StartsDeploy
<1>2. FirstOf(envFile.ids, checkout) \in Programs
  BY DEF DeployInv, DeploymentTypeOK, DeployTypeOK, FirstOf, Section, Maybe
<1>3. /\ operator'.doing = "bootstrap" /\ operator'.step = 1
      /\ operator'.klend \in Programs /\ operator'.read.market = NoProgram
      /\ operator'.sending = 0
  BY <1>1, <1>2 DEF Idle, NoSection
<1>4. DeploymentTypeOK'
  <2>1. operator' \in Operators
    <3>1. operator' = [doing |-> "bootstrap", step |-> 1, klend |-> FirstOf(envFile.ids, checkout),
                       read |-> NoSection, owed |-> 0, sending |-> 0]
      BY <1>1 DEF Idle
    <3>2. NoSection \in Section
      BY DEF NoSection, Section, Maybe
    <3> QED
      BY <1>2, <3>1, <3>2, Orders DEF Stages, Maybe, Operators
  <2> QED
    BY <2>1, Orders DEF Operators, DeployInv, DeploymentTypeOK, DeployTypeOK, BootstrapTypeOK, StartsDeploy, chainVars, diskVars
<1>5. Grows
  BY UnchangedGrows DEF StartsDeploy, chainVars, DeployInv
<1>6. ScriptInv' /\ GateInv'
  BY <1>3, Orders DEF ScriptInv, AtBootstrap, AtReserves, AtFund, AtPublish, AtConfig, AtTheRest, GateInv
<1> QED
  BY <1>3, <1>4, <1>5, <1>6, StepKeeps DEF StartsDeploy, chainVars, diskVars

(* The operator goes on with the accounts, or with the reserves.           *)
LEMMA AccountStep ==
  ASSUME DeployInv, Grows, AtBootstrap', AtReserves',
         made' \in [Accounts -> SUBSET Programs],
         UNCHANGED <<initialized, config, diskVars, checkout, accidents, usdc, mintAuthority>>,
         operator' \in Operators,
         operator'.doing \in {"bootstrap", "reserves"}, operator'.read = operator.read
  PROVE  DeployInv'
<1>1. DeploymentTypeOK'
  BY Orders DEF Operators, DeployInv, DeploymentTypeOK, DeployTypeOK, BootstrapTypeOK, diskVars
<1>2. ScriptInv' /\ GateInv' /\ operator'.doing # "passed"
  BY DEF ScriptInv, AtFund, AtPublish, AtConfig, AtTheRest, GateInv
<1> QED
  BY <1>1, <1>2, StepKeeps DEF diskVars

LEMMA EnsuresAccountKeeps == ASSUME DeployInv, EnsuresAccount PROVE DeployInv'
<1> USE DEF DeployInv
<1>1. PICK k \in Programs, n \in 1 .. 9 :
        /\ operator.doing = "bootstrap" /\ operator.step = n /\ operator.klend = k
        /\ operator.sending = 0
        /\ \A i \in 1 .. n - 1 : Exists(BootstrapOrder[i], k)
  BY Orders DEF EnsuresAccount, ScriptInv, AtBootstrap
<1> DEFINE account == BootstrapOrder[n]
<1>2. /\ Exists(account, k) => made' = made
      /\ ~Exists(account, k) => made' = [made EXCEPT ![account] = @ \cup {k}]
      /\ operator' = NextAccount \/ Stop
      /\ UNCHANGED <<initialized, config, diskVars, checkout, accidents, usdc, mintAuthority>>
  BY <1>1 DEF EnsuresAccount, GoesOn
<1>3. /\ made \in [Accounts -> SUBSET Programs] /\ account \in Accounts
      /\ operator \in Operators
  BY Orders DEF Operators, DeploymentTypeOK, DeployTypeOK
<1>4. Grows
  <2>1. \A a \in Accounts : made[a] \subseteq made'[a]
    BY <1>2, <1>3
  <2>2. ASSUME NEW r \in Reserves, made[r] # {}
        PROVE  made'[r] = made[r]
    <3>1. r \notin PerProgram /\ r \in Accounts
      BY Orders DEF Reserves, PerProgram
    <3>2. r = account => Exists(account, k)
      BY <2>2, <3>1 DEF Exists
    <3> QED
      BY <1>2, <1>3, <3>1, <3>2
  <2> QED
    BY <1>2, <2>1, <2>2 DEF Grows, DeploymentTypeOK, BootstrapTypeOK
<1>5. made' \in [Accounts -> SUBSET Programs]
  BY <1>2, <1>3
<1>6. \A i \in 1 .. n : Exists(BootstrapOrder[i], k)'
  <2>1. Exists(account, k)'
    <3>1. CASE Exists(account, k)
      BY <1>3, <1>4, <3>1, ExistsStays
    <3>2. CASE ~Exists(account, k)
      <4>1. k \in made'[account]
        BY <1>2, <1>3, <3>2
      <4> QED
        BY <4>1 DEF Exists
    <3> QED
      BY <3>1, <3>2
  <2>2. ASSUME NEW i \in 1 .. n - 1
        PROVE  Exists(BootstrapOrder[i], k)'
    <3>1. BootstrapOrder[i] \in Accounts /\ Exists(BootstrapOrder[i], k)
      BY <1>1, Orders
    <3> QED
      BY <1>4, <3>1, ExistsStays
  <2>3. \A i \in 1 .. n : i = n \/ i \in 1 .. n - 1
    OBVIOUS
  <2> QED
    BY <2>1, <2>2, <2>3
<1>7. CASE Stop
  <2>1. DeploymentTypeOK'
    BY <1>2, <1>5, <1>7, IdleIsTyped, Orders
       DEF Operators, Stop, DeploymentTypeOK, DeployTypeOK, BootstrapTypeOK, diskVars
  <2> QED
    BY <1>2, <1>4, <1>7, <2>1, StopKeeps DEF diskVars
<1>8. CASE operator' = NextAccount
  <2>1. CASE n < 9
    <3>1. operator' = [operator EXCEPT !.step = n + 1]
      BY <1>1, <1>8, <2>1, Orders DEF NextAccount
    <3>2. n + 1 \in 0 .. 9 /\ n + 1 \in 1 .. 9 /\ (n + 1) - 1 = n
      BY <2>1
    <3>3. /\ operator' \in Operators
          /\ operator'.klend = k /\ operator'.read = operator.read
          /\ operator'.doing = "bootstrap" /\ operator'.step = n + 1 /\ operator'.sending = 0
      BY <1>1, <1>3, <3>1, <3>2, StepChanges DEF Memory
    <3>4. AtBootstrap' /\ AtReserves'
      BY <1>6, <3>2, <3>3, Orders DEF AtBootstrap, AtReserves
    <3> QED
      BY <3>3, <3>4, <1>2, <1>4, <1>5, AccountStep
  <2>2. CASE n = 9
    <3>1. operator' = [operator EXCEPT !.doing = "reserves", !.step = 1]
      BY <1>1, <1>8, <2>2, Orders DEF NextAccount
    <3>2. /\ operator' \in Operators
          /\ operator'.klend = k /\ operator'.read = operator.read
          /\ operator'.doing = "reserves" /\ operator'.step = 1 /\ operator'.sending = 0
      <4>1. "reserves" \in Stages /\ 1 \in 0 .. 9
        BY DEF Stages
      <4>2. Memory(operator', "reserves", 1, operator.klend, operator.read,
                   operator.owed, operator.sending)
        BY <1>3, <3>1, <4>1, StageChanges, Zenon
      <4> QED
        BY <1>1, <4>2 DEF Memory
    <3>3. AtBootstrap' /\ AtReserves'
      BY <1>6, <2>2, <3>2, Orders DEF AtBootstrap, AtReserves, AccountsMade
    <3> QED
      BY <3>2, <3>3, <1>2, <1>4, <1>5, AccountStep
  <2> QED
    BY <2>1, <2>2
<1> QED
  BY <1>2, <1>7, <1>8

(* Types of a step that makes no account.                                  *)
LEMMA TypesStay ==
  ASSUME DeploymentTypeOK, made' = made, initialized' \subseteq Reserves, config' = config,
         UNCHANGED <<checkout, accidents, mintAuthority>>,
         usdc' \in [{"supply", "payer", "donor"} -> Nat],
         envFile' \in Section, artifact' \in Section, operator' \in Operators
  PROVE  DeploymentTypeOK'
BY Orders DEF Operators, DeploymentTypeOK, DeployTypeOK, BootstrapTypeOK

LEMMA Typed ==
  ASSUME DeploymentTypeOK
  PROVE  /\ operator \in Operators /\ envFile \in Section /\ artifact \in Section
         /\ usdc \in [{"supply", "payer", "donor"} -> Nat] /\ initialized \subseteq Reserves
         /\ operator.doing \in Stages /\ operator.step \in 0 .. 9 /\ operator.klend \in Maybe
         /\ operator.read \in Section /\ operator.owed \in Nat /\ operator.sending \in Nat
         /\ usdc["supply"] \in Nat
BY Orders DEF Operators, DeploymentTypeOK, DeployTypeOK, BootstrapTypeOK

LEMMA EnsuresReserveKeeps == ASSUME DeployInv, EnsuresReserveInitialized PROVE DeployInv'
<1> USE DEF DeployInv
<1>1. PICK k \in Programs, n \in 1 .. 2 :
        /\ operator.doing = "reserves" /\ operator.step = n /\ operator.klend = k
        /\ AccountsMade(k)
        /\ n = 2 => made["solReserve"] = {k} /\ "solReserve" \in initialized
  BY Orders DEF EnsuresReserveInitialized, ScriptInv, AtReserves
<1>2. /\ \/ /\ made[ReserveOrder[n]] = {k}
            /\ initialized' = initialized \cup {ReserveOrder[n]}
            /\ operator' = NextReserve \/ Stop
         \/ Stop /\ UNCHANGED initialized
      /\ UNCHANGED <<made, config, diskVars, checkout, accidents, usdc, mintAuthority>>
  BY <1>1 DEF EnsuresReserveInitialized, Writable, GoesOn
<1>3. initialized' \subseteq Reserves /\ initialized \subseteq initialized'
  BY <1>1, <1>2, Typed, Orders DEF Reserves
<1>4. Grows
  BY <1>2, <1>3, Typed DEF Grows
<1>5. CASE Stop
  <2>1. DeploymentTypeOK'
    BY <1>2, <1>3, <1>5, Typed, IdleIsTyped, TypesStay DEF Stop, diskVars
  <2> QED
    BY <1>2, <1>4, <1>5, <2>1, StopKeeps DEF diskVars
<1>6. CASE operator' = NextReserve /\ ~Stop
  <2> DEFINE after == IF n = 1 THEN "reserves" ELSE "fund"
             next == IF n = 1 THEN 2 ELSE 0
  <2>1. Memory(operator', after, next, k, operator.read, operator.owed, operator.sending)
    <3>1. CASE n = 1
      <4>1. operator' = [operator EXCEPT !.step = 2]
        BY <1>1, <1>6, <3>1, Orders DEF NextReserve
      <4>2. Memory(operator', operator.doing, 2, operator.klend, operator.read,
                   operator.owed, operator.sending)
        <5>1. 2 \in 0 .. 9
          OBVIOUS
        <5> QED
          BY <4>1, <5>1, Typed, StepChanges, Zenon
      <4> QED
        BY <1>1, <3>1, <4>2 DEF Memory
    <3>2. CASE n = 2
      <4>1. operator' = [operator EXCEPT !.doing = "fund", !.step = 0]
        BY <1>1, <1>6, <3>2, Orders DEF NextReserve
      <4>2. Memory(operator', "fund", 0, operator.klend, operator.read,
                   operator.owed, operator.sending)
        <5>1. "fund" \in Stages /\ 0 \in 0 .. 9
          BY DEF Stages
        <5> QED
          BY <4>1, <5>1, Typed, StageChanges, Zenon
      <4> QED
        BY <1>1, <3>2, <4>2 DEF Memory
    <3> QED
      BY <3>1, <3>2
  <2>2. DeploymentTypeOK'
    BY <1>2, <1>3, <2>1, Typed, TypesStay DEF Memory, diskVars
  <2>3. AccountsMade(k)'
    BY <1>1, <1>4, <2>2, CompleteStays
  <2>4. made'[ReserveOrder[n]] = {k} /\ ReserveOrder[n] \in initialized'
    BY <1>2, <1>6
  <2>5. n = 2 => ReservesReady(k)'
    BY <1>1, <1>2, <1>3, <2>4, Orders DEF ReservesReady, Reserves
  <2>6. operator.sending = 0
    BY <1>1 DEF ScriptInv, AtReserves
  <2>7. AtReserves' /\ AtFund'
    BY <1>1, <2>1, <2>3, <2>4, <2>5, <2>6, Orders DEF AtReserves, AtFund, Memory
  <2>8. ScriptInv' /\ GateInv' /\ operator'.doing # "passed"
    BY <2>1, <2>7 DEF Memory, ScriptInv, AtBootstrap, AtPublish, AtConfig, AtTheRest, GateInv
  <2> QED
    BY <1>2, <1>4, <2>1, <2>2, <2>8, StepKeeps DEF diskVars, Memory
<1> QED
  BY <1>2, <1>5, <1>6

-----------------------------------------------------------------------------
(* Funding.                                                                *)

Balances == [{"supply", "payer", "donor"} -> Nat]

LEMMA FundingGrows ==
  ASSUME DeploymentTypeOK, UnchangedByFunding, usdc'["supply"] >= usdc["supply"]
  PROVE  Grows
BY Typed DEF UnchangedByFunding, chainVars, Grows

LEMMA FundingGoesOn ==
  ASSUME DeployInv, UnchangedByFunding, usdc' \in Balances, usdc'["supply"] >= usdc["supply"],
         operator' \in Operators, operator'.read = operator.read,
         operator'.doing \in {"fund", "publish"}, AtFund', AtPublish'
  PROVE  DeployInv'
<1>1. Grows
  BY FundingGrows DEF DeployInv
<1>2. DeploymentTypeOK'
  BY Typed, TypesStay DEF Balances, DeployInv, UnchangedByFunding, chainVars, diskVars
<1>3. ScriptInv' /\ GateInv' /\ operator'.doing # "passed"
  BY DEF ScriptInv, AtBootstrap, AtReserves, AtConfig, AtTheRest, GateInv
<1> QED
  BY <1>1, <1>2, <1>3, StepKeeps DEF UnchangedByFunding, chainVars, diskVars

LEMMA FundingStops ==
  ASSUME DeployInv, UnchangedByFunding, usdc' \in Balances, usdc'["supply"] >= usdc["supply"], Stop
  PROVE  DeployInv'
<1>1. Grows
  BY FundingGrows DEF DeployInv
<1>2. DeploymentTypeOK'
  BY Typed, IdleIsTyped, TypesStay
     DEF Stop, Balances, DeployInv, UnchangedByFunding, chainVars, diskVars
<1> QED
  BY <1>1, <1>2, StopKeeps DEF UnchangedByFunding, chainVars, diskVars

(* What is known while bootstrap funds the reserve, at a step and after it.*)
LEMMA WhileFunding ==
  ASSUME DeployInv, UnchangedByFunding, usdc' \in Balances, usdc'["supply"] >= usdc["supply"],
         operator.doing = "fund"
  PROVE  /\ operator.klend \in Programs
         /\ AccountsMade(operator.klend) /\ ReservesReady(operator.klend)
         /\ \A k : k = operator.klend => AccountsMade(k)' /\ ReservesReady(k)'
         /\ operator.step \in 0 .. 3
         /\ operator.step > 0 => usdc["supply"] + operator.owed >= TargetSupply
         /\ operator.sending > 0 => operator.step \in 1 .. 2 /\ operator.sending <= operator.owed
         /\ operator.owed \in Nat /\ operator.sending \in Nat
         /\ usdc["supply"] \in Nat /\ usdc'["supply"] \in Nat /\ TargetSupply \in Nat
         /\ operator \in Operators
<1>1. Grows
  BY FundingGrows DEF DeployInv
<1>2. AtFund
  BY DEF DeployInv, ScriptInv
<1>3. made' = made /\ initialized' = initialized
  BY DEF UnchangedByFunding, chainVars
<1>4. \A k : k = operator.klend => AccountsMade(k)' /\ ReservesReady(k)'
  BY <1>2, <1>3 DEF AtFund, AccountsMade, ReservesReady, Exists
<1> QED
  BY <1>2, <1>4, Typed, Orders, FundAssumption DEF DeployInv, AtFund, Balances

LEMMA PublishingKeeps ==
  ASSUME DeployInv, UnchangedByFunding, usdc' \in Balances, usdc'["supply"] >= usdc["supply"],
         operator.doing = "fund", usdc'["supply"] >= TargetSupply, operator' = Publishing
  PROVE  DeployInv'
<1>1. PICK k \in Programs : operator.klend = k /\ AccountsMade(k)' /\ ReservesReady(k)'
  BY WhileFunding
<1>2. Memory(operator', "publish", 0, operator.klend, operator.read, 0, operator.sending)
  <2>1. "publish" \in Stages /\ 0 \in 0 .. 9 /\ 0 \in Nat
    BY DEF Stages
  <2>2. operator' = [operator EXCEPT !.doing = "publish", !.step = 0, !.owed = 0]
    BY DEF Publishing
  <2>3. operator \in Operators
    BY WhileFunding
  <2>4. Memory([operator EXCEPT !.doing = "publish", !.step = 0, !.owed = 0],
               "publish", 0, operator.klend, operator.read, 0, operator.sending)
    BY <2>1, <2>3, StageOwedChanges
  <2> QED
    BY <2>2, <2>4, Zenon
<1>3. AtFund' /\ AtPublish'
  BY <1>1, <1>2 DEF AtFund, AtPublish, Memory, MarketComplete
<1> QED
  BY <1>2, <1>3, FundingGoesOn DEF Memory

LEMMA ReadsSupplyKeeps == ASSUME DeployInv, ReadsSupply PROVE DeployInv'
<1>1. /\ UnchangedByFunding /\ usdc' = usdc /\ usdc' \in Balances
      /\ usdc'["supply"] >= usdc["supply"] /\ operator.doing = "fund" /\ operator.step = 0
  BY Typed DEF ReadsSupply, Funding, Balances, DeployInv
<1>2. CASE usdc["supply"] >= TargetSupply
  BY <1>1, <1>2, PublishingKeeps DEF ReadsSupply
<1>3. CASE ~(usdc["supply"] >= TargetSupply)
  <2> DEFINE owed == TargetSupply - usdc["supply"]
  <2>1. owed \in Nat /\ 1 \in 0 .. 9
    BY <1>1, <1>3, WhileFunding
  <2>2. operator' = [operator EXCEPT !.step = 1, !.owed = owed]
    BY <1>3 DEF ReadsSupply
  <2>3. Memory(operator', operator.doing, 1, operator.klend, operator.read, owed, operator.sending)
    <3> HIDE DEF owed
    <3> QED
      BY <2>1, <2>2, <1>1, WhileFunding, OwedChanges, Zenon
  <2>4. PICK k \in Programs : operator.klend = k /\ AccountsMade(k)' /\ ReservesReady(k)'
    BY <1>1, WhileFunding
  <2>5. operator.sending = 0 /\ usdc'["supply"] + owed >= TargetSupply
    BY <1>1, WhileFunding
  <2>6. AtFund' /\ AtPublish'
    BY <1>1, <2>3, <2>4, <2>5 DEF AtFund, AtPublish, Memory
  <2> QED
    BY <1>1, <2>3, <2>6, FundingGoesOn DEF Memory
<1> QED
  BY <1>2, <1>3

LEMMA ReadsSourceKeeps == ASSUME DeployInv, ReadsSource PROVE DeployInv'
<1>1. /\ UnchangedByFunding /\ usdc' = usdc /\ usdc' \in Balances
      /\ usdc'["supply"] >= usdc["supply"] /\ operator.doing = "fund"
      /\ operator.step \in 1 .. 2 /\ operator.sending = 0
  BY Typed, Orders DEF ReadsSource, Funding, Balances, DeployInv
<1>2. PICK k \in Programs : operator.klend = k /\ AccountsMade(k)' /\ ReservesReady(k)'
  BY <1>1, WhileFunding
<1>3. PICK balance \in Nat :
        operator' = IF balance = 0
                      THEN [operator EXCEPT !.step = @ + 1]
                      ELSE [operator EXCEPT !.sending = IF balance >= operator.owed
                                                          THEN operator.owed ELSE balance]
  <2>1. usdc[Sources[operator.step]] \in Nat
    BY <1>1, Typed, Orders DEF DeployInv
  <2> QED
    BY <2>1 DEF ReadsSource
<1>4. CASE balance = 0
  <2> DEFINE next == operator.step + 1
  <2>1. next \in 0 .. 9 /\ next \in 0 .. 3
    BY <1>1
  <2>2. operator' = [operator EXCEPT !.step = next]
    BY <1>3, <1>4
  <2>3. Memory(operator', operator.doing, next, operator.klend, operator.read,
               operator.owed, operator.sending)
    <3> HIDE DEF next
    <3> QED
      BY <2>1, <2>2, <1>1, WhileFunding, StepChanges, Zenon
  <2>4. AtFund' /\ AtPublish'
    BY <1>1, <1>2, <2>1, <2>3, WhileFunding DEF AtFund, AtPublish, Memory
  <2> QED
    BY <1>1, <2>3, <2>4, FundingGoesOn DEF Memory
<1>5. CASE balance # 0
  <2> DEFINE amount == IF balance >= operator.owed THEN operator.owed ELSE balance
  <2>1. amount \in Nat /\ amount <= operator.owed
    BY <1>1, WhileFunding
  <2>2. operator' = [operator EXCEPT !.sending = amount]
    BY <1>3, <1>5
  <2>3. Memory(operator', operator.doing, operator.step, operator.klend, operator.read,
               operator.owed, amount)
    <3> HIDE DEF amount
    <3> QED
      BY <2>1, <2>2, <1>1, WhileFunding, SendingChanges, Zenon
  <2>4. AtFund' /\ AtPublish'
    <3> HIDE DEF amount
    <3> QED
      BY <1>1, <1>2, <2>1, <2>3, WhileFunding, Orders DEF AtFund, AtPublish, Memory
  <2> QED
    BY <1>1, <2>3, <2>4, FundingGoesOn DEF Memory
<1> QED
  BY <1>4, <1>5

LEMMA SendsUsdcKeeps == ASSUME DeployInv, SendsUsdc PROVE DeployInv'
<1> DEFINE source == Sources[operator.step]
           sent == operator.sending
<1>1. /\ UnchangedByFunding /\ operator.doing = "fund" /\ sent > 0
      /\ \/ /\ usdc[source] >= sent
            /\ usdc' = [usdc EXCEPT ![source] = @ - sent, !["supply"] = @ + sent]
            /\ WithRetry([operator EXCEPT !.step = @ + 1, !.owed = @ - sent, !.sending = 0])
         \/ Stop /\ UNCHANGED usdc
  BY DEF SendsUsdc
<1>2. /\ usdc \in Balances /\ sent \in Nat /\ operator.step \in 1 .. 2
      /\ operator.owed \in Nat /\ sent <= operator.owed /\ usdc["supply"] \in Nat
      /\ operator.klend \in Programs
  BY <1>1, Typed, Orders DEF Balances, DeployInv, ScriptInv, AtFund
<1>3. source \in {"payer", "donor"}
  BY <1>2, Orders
<1>4. /\ usdc' \in Balances
      /\ usdc'["supply"] = usdc["supply"] + sent \/ (usdc'["supply"] = usdc["supply"] /\ Stop)
  <2>1. ASSUME NEW a \in {"payer", "donor"}, NEW n \in Nat, n <= usdc[a]
        PROVE  /\ [usdc EXCEPT ![a] = @ - n, !["supply"] = @ + n] \in Balances
               /\ [usdc EXCEPT ![a] = @ - n, !["supply"] = @ + n]["supply"] = usdc["supply"] + n
    BY <1>2, <2>1 DEF Balances
  <2>2. usdc[source] >= sent => sent <= usdc[source]
    BY <1>2, <1>3 DEF Balances
  <2> HIDE DEF source, sent
  <2> QED
    BY <1>1, <1>2, <1>3, <2>1, <2>2
<1>5. usdc'["supply"] >= usdc["supply"]
  BY <1>2, <1>4
<1>6. CASE Stop
  BY <1>1, <1>4, <1>5, <1>6, FundingStops
<1>7. CASE ~Stop /\ UNCHANGED operator
  <2>1. PICK k \in Programs : operator.klend = k /\ AccountsMade(k)' /\ ReservesReady(k)'
    BY <1>1, <1>4, <1>5, WhileFunding
  <2>2. usdc["supply"] + operator.owed >= TargetSupply
    BY <1>1, <1>2, <1>4, <1>5, WhileFunding
  <2>3. usdc'["supply"] + operator.owed >= TargetSupply
    BY <1>2, <1>4, <1>7, <2>2, FundAssumption
  <2>4. AtFund' /\ AtPublish'
    BY <1>1, <1>2, <1>7, <2>1, <2>3, Orders DEF AtFund, AtPublish
  <2>5. operator \in Operators
    BY Typed DEF DeployInv
  <2> QED
    BY <1>1, <1>4, <1>5, <1>7, <2>4, <2>5, FundingGoesOn
<1>8. CASE /\ usdc' = [usdc EXCEPT ![source] = @ - sent, !["supply"] = @ + sent]
           /\ operator' = [operator EXCEPT !.step = @ + 1, !.owed = @ - sent, !.sending = 0]
           /\ ~Stop
  <2> DEFINE next == operator.step + 1
             rest == operator.owed - sent
  <2>1. next \in 0 .. 9 /\ next \in 0 .. 3 /\ rest \in Nat /\ 0 \in Nat
    BY <1>2
  <2>2. operator' = [operator EXCEPT !.step = next, !.owed = rest, !.sending = 0]
    BY <1>8
  <2>3. operator \in Operators
    BY Typed DEF DeployInv
  <2>4. Memory(operator', operator.doing, next, operator.klend, operator.read, rest, 0)
    <3> HIDE DEF next, rest
    <3> QED
      BY <2>1, <2>2, <2>3, SentChanges, Zenon
  <2>5. PICK k \in Programs : operator.klend = k /\ AccountsMade(k)' /\ ReservesReady(k)'
    BY <1>1, <1>4, <1>5, WhileFunding
  <2>6. usdc["supply"] + operator.owed >= TargetSupply
    BY <1>1, <1>2, <1>4, <1>5, WhileFunding
  <2>7. usdc'["supply"] + rest >= TargetSupply
    BY <1>2, <1>4, <1>8, <2>6, FundAssumption
  <2>8. AtFund' /\ AtPublish'
    <3> HIDE DEF next, rest
    <3> QED
      BY <1>1, <2>1, <2>4, <2>5, <2>7 DEF AtFund, AtPublish, Memory
  <2> QED
    BY <1>1, <1>4, <1>5, <2>4, <2>8, FundingGoesOn DEF Memory
<1> QED
  BY <1>1, <1>6, <1>7, <1>8 DEF WithRetry, GoesOn

LEMMA FundedBySourcesKeeps == ASSUME DeployInv, FundedBySources PROVE DeployInv'
<1>1. /\ UnchangedByFunding /\ usdc' = usdc /\ usdc' \in Balances
      /\ usdc'["supply"] >= usdc["supply"] /\ operator.doing = "fund"
      /\ operator.step > 0 /\ operator.owed = 0 /\ operator' = Publishing
  BY Typed DEF FundedBySources, Balances, DeployInv
<1>2. usdc'["supply"] >= TargetSupply
  BY <1>1, WhileFunding
<1> QED
  BY <1>1, <1>2, PublishingKeeps

LEMMA MintsRestKeeps == ASSUME DeployInv, MintsRest PROVE DeployInv'
<1>1. /\ UnchangedByFunding /\ operator.doing = "fund" /\ operator.step = 3
      /\ \/ /\ usdc' = [usdc EXCEPT !["supply"] = @ + operator.owed]
            /\ operator' = Publishing \/ Stop \/ UNCHANGED operator
         \/ Stop /\ UNCHANGED usdc
  BY Orders DEF MintsRest, Funding, GoesOn
<1>2. usdc \in Balances /\ operator.owed \in Nat /\ usdc["supply"] \in Nat
  BY Typed DEF Balances, DeployInv
<1>3. /\ usdc' \in Balances
      /\ usdc'["supply"] = usdc["supply"] + operator.owed \/ (usdc' = usdc /\ Stop)
  <2>1. \A n \in Nat : /\ [usdc EXCEPT !["supply"] = @ + n] \in Balances
                       /\ [usdc EXCEPT !["supply"] = @ + n]["supply"] = usdc["supply"] + n
    BY <1>2 DEF Balances
  <2> QED
    BY <1>1, <1>2, <2>1
<1>4. usdc'["supply"] >= usdc["supply"]
  BY <1>2, <1>3
<1>5. CASE Stop
  BY <1>1, <1>3, <1>4, <1>5, FundingStops
<1>6. ASSUME ~Stop
      PROVE  usdc'["supply"] >= TargetSupply
  BY <1>1, <1>2, <1>3, <1>4, <1>6, WhileFunding
<1>7. CASE ~Stop /\ operator' = Publishing
  BY <1>1, <1>3, <1>4, <1>6, <1>7, PublishingKeeps
<1>8. CASE ~Stop /\ UNCHANGED operator
  <2>1. PICK k \in Programs : operator.klend = k /\ AccountsMade(k)' /\ ReservesReady(k)'
    BY <1>1, <1>3, <1>4, WhileFunding
  <2>2. usdc'["supply"] + operator.owed >= TargetSupply
    BY <1>2, <1>3, <1>6, <1>8, FundAssumption
  <2>3. operator.sending = 0 /\ operator \in Operators
    BY <1>1, <1>3, <1>4, WhileFunding
  <2>4. AtFund' /\ AtPublish'
    BY <1>1, <1>8, <2>1, <2>2, <2>3 DEF AtFund, AtPublish
  <2> QED
    BY <1>1, <1>3, <1>4, <1>8, <2>3, <2>4, FundingGoesOn
<1> QED
  BY <1>1, <1>5, <1>7, <1>8

-----------------------------------------------------------------------------
(* What follows bootstrap.                                                 *)

LEMMA PublishesKeeps == ASSUME DeployInv, Publishes PROVE DeployInv'
<1>1. PICK k \in Programs : operator.klend = k /\ MarketComplete(k)
  BY DEF Publishes, DeployInv, ScriptInv, AtPublish
<1>2. /\ operator.doing = "publish"
      /\ envFile' = OutputEntries(k) /\ artifact' = OutputEntries(k)
      /\ operator' = [operator EXCEPT !.doing = "config"] \/ Stop
      /\ UNCHANGED <<made, initialized, config, checkout, accidents, usdc, mintAuthority>>
  BY <1>1 DEF Publishes, UpsertEnvSection, GoesOn, chainVars
<1>3. /\ envFile' \in Section /\ envFile'.market = k /\ envFile'.ids = k
      /\ artifact' \in Section /\ artifact'.market = k
  <2>1. /\ OutputEntries(k) \in Section
        /\ OutputEntries(k).ids = k /\ OutputEntries(k).market = k
    BY DEF OutputEntries, Canonical, Section, Maybe
  <2> QED
    BY <1>2, <2>1
<1>4. Grows
  BY <1>2, Typed DEF Grows, DeployInv
<1>5. CASE Stop
  <2>1. DeploymentTypeOK'
    BY <1>2, <1>3, <1>5, Typed, IdleIsTyped, TypesStay DEF Stop, DeployInv
  <2>2. operator'.doing = "idle" /\ operator'.read.market = NoProgram
    BY <1>5 DEF Stop, Idle, NoSection
  <2>3. PublishedInv'
    BY <1>1, <1>3, <1>4, <2>1, <2>2, CompleteStays DEF PublishedInv, DeployInv
  <2>4. ConfigFollowsReserves'
    BY <1>2, <1>4, <2>1, ConfigStays
  <2>5. ScriptInv' /\ GateInv' /\ GateMeansReady'
    BY <2>2 DEF ScriptInv, AtBootstrap, AtReserves, AtFund, AtPublish, AtConfig, AtTheRest,
                GateInv, GateMeansReady
  <2> QED
    BY <2>1, <2>3, <2>4, <2>5 DEF DeployInv
<1>6. CASE operator' = [operator EXCEPT !.doing = "config"]
  <2>1. Memory(operator', "config", operator.step, operator.klend, operator.read,
               operator.owed, operator.sending)
    <3>1. operator \in Operators /\ "config" \in Stages
      BY Typed DEF DeployInv, Stages
    <3> QED
      BY <3>1, <1>6, DoingChanges, Zenon
  <2>2. DeploymentTypeOK'
    BY <1>2, <1>3, <2>1, Typed, TypesStay DEF Memory, DeployInv
  <2>3. MarketComplete(k)'
    BY <1>1, <1>4, <2>2, CompleteStays DEF DeployInv
  <2>4. PublishedInv'
    <3>1. operator'.read = operator.read
      BY <2>1 DEF Memory
    <3>2. operator.read.market # NoProgram => MarketComplete(operator.read.market)
      BY DEF DeployInv, PublishedInv
    <3>3. \A m : m = operator.read.market /\ m # NoProgram => MarketComplete(m)'
      BY <3>2, <1>4, <2>2, CompleteStays DEF DeployInv
    <3> QED
      BY <1>3, <2>3, <3>1, <3>3 DEF PublishedInv
  <2>5. ConfigFollowsReserves'
    BY <1>2, <1>4, <2>2, ConfigStays
  <2>6. ScriptInv' /\ GateInv' /\ GateMeansReady'
    BY <1>1, <1>3, <2>1, <2>3
       DEF Memory, MarketComplete, ScriptInv, AtBootstrap, AtReserves, AtFund, AtPublish,
           AtConfig, AtTheRest, GateInv, GateMeansReady
  <2> QED
    BY <2>2, <2>4, <2>5, <2>6 DEF DeployInv
<1> QED
  BY <1>2, <1>5, <1>6

(* The next stage of the deploy flow, or its end.                          *)
LEMMA RestKeeps ==
  ASSUME DeployInv, Grows, NEW next \in {"freeze", "registry", "vault"},
         Steps(next), operator.klend \in Programs, ConfigFollowsReserves',
         made' \in [Accounts -> SUBSET Programs],
         config' \in [klend : Maybe, frozen : BOOLEAN],
         UNCHANGED <<initialized, diskVars, checkout, accidents, usdc, mintAuthority>>
  PROVE  DeployInv'
<1>1. operator' = [operator EXCEPT !.doing = next] \/ Stop
  BY DEF Steps, GoesOn
<1>2. operator \in Operators /\ next \in Stages
  BY Typed DEF DeployInv, Stages
<1>3. \/ Memory(operator', next, operator.step, operator.klend, operator.read,
                operator.owed, operator.sending)
      \/ operator' = Idle
  BY <1>1, <1>2, DoingChanges, Zenon DEF Stop
<1>4. operator' \in Operators
  BY <1>3, IdleIsTyped DEF Memory
<1>5. DeploymentTypeOK'
  BY <1>4, Orders DEF Operators, DeployInv, DeploymentTypeOK, DeployTypeOK, BootstrapTypeOK, diskVars
<1>6. /\ operator'.doing \in {next, "idle"}
      /\ operator'.doing = next => operator'.klend \in Programs
      /\ operator'.read.market \in {operator.read.market, NoProgram}
  BY <1>3 DEF Memory, Idle, NoSection
<1>7. PublishedInv'
  BY <1>5, <1>6, PublishedStays DEF diskVars
<1>8. ScriptInv' /\ GateInv' /\ GateMeansReady'
  BY <1>6 DEF ScriptInv, AtBootstrap, AtReserves, AtFund, AtPublish, AtConfig, AtTheRest,
              GateInv, GateMeansReady
<1> QED
  BY <1>5, <1>7, <1>8 DEF DeployInv

LEMMA ConfiguresProtocolKeeps == ASSUME DeployInv, ConfiguresProtocol PROVE DeployInv'
<1>1. PICK k \in Programs : operator.klend = k /\ envFile.ids = k /\ ReservesReady(k)
  BY DEF ConfiguresProtocol, DeployInv, ScriptInv, AtConfig
<1>2. PICK next \in {"freeze", "registry"} :
        \/ InitProtocolConfig(k) /\ Steps(next)
        \/ UpdateProtocolConfig(k) /\ Steps(next)
        \/ config' = config /\ (Steps(next) \/ Stop)
  BY <1>1 DEF ConfiguresProtocol
<1>3. UNCHANGED <<made, initialized, diskVars, checkout, accidents, usdc, mintAuthority>>
  BY DEF ConfiguresProtocol
<1>4. config \in [klend : Maybe, frozen : BOOLEAN] /\ made \in [Accounts -> SUBSET Programs]
  BY DEF DeployInv, DeploymentTypeOK, DeployTypeOK
<1>5. /\ config' \in [klend : Maybe, frozen : BOOLEAN]
      /\ config'.klend = k \/ config'.klend = config.klend
  <2>1. CASE InitProtocolConfig(k)
    BY <2>1 DEF InitProtocolConfig, Maybe
  <2>2. CASE UpdateProtocolConfig(k)
    BY <2>2, <1>4 DEF UpdateProtocolConfig, Maybe
  <2> QED
    BY <1>2, <1>4, <2>1, <2>2
<1>6. Grows
  BY <1>3, Typed DEF Grows, DeployInv
<1>7. ConfigFollowsReserves'
  BY <1>1, <1>3, <1>5 DEF ConfigFollowsReserves, ReservesReady, DeployInv
<1>8. CASE Steps(next)
  BY <1>1, <1>3, <1>4, <1>5, <1>6, <1>7, <1>8, RestKeeps
<1>9. CASE Stop /\ config' = config
  <2>1. DeploymentTypeOK'
    BY <1>3, <1>9, Typed, IdleIsTyped, TypesStay DEF Stop, DeployInv, diskVars
  <2> QED
    BY <1>3, <1>6, <1>9, <2>1, StopKeeps DEF diskVars
<1> QED
  BY <1>2, <1>8, <1>9

LEMMA FreezesConfigKeeps == ASSUME DeployInv, FreezesConfig PROVE DeployInv'
<1>1. /\ operator.klend \in Programs /\ Steps("registry")
      /\ config' = [config EXCEPT !.frozen = TRUE]
      /\ UNCHANGED <<made, initialized, diskVars, checkout, accidents, usdc, mintAuthority>>
  BY DEF FreezesConfig, FreezeProtocolConfig, DeployInv, ScriptInv, AtTheRest
<1>2. config \in [klend : Maybe, frozen : BOOLEAN] /\ made' \in [Accounts -> SUBSET Programs]
  BY <1>1 DEF DeployInv, DeploymentTypeOK, DeployTypeOK
<1>3. config' \in [klend : Maybe, frozen : BOOLEAN] /\ config'.klend = config.klend
  BY <1>1, <1>2
<1>4. Grows
  BY <1>1, Typed DEF Grows, DeployInv
<1>5. ConfigFollowsReserves'
  BY <1>1, <1>3 DEF ConfigFollowsReserves, DeployInv
<1> QED
  BY <1>1, <1>2, <1>3, <1>4, <1>5, RestKeeps

LEMMA EnsuresKeeps ==
  ASSUME DeployInv, NEW account \in {"registry", "vault"}, operator.doing = account,
         made' = [made EXCEPT ![account] = IF @ = {} THEN {operator.klend} ELSE @],
         Steps("vault") \/ Stop,
         UNCHANGED <<initialized, config, diskVars, checkout, accidents, usdc, mintAuthority>>
  PROVE  DeployInv'
<1>1. PICK k \in Programs : operator.klend = k
  BY DEF DeployInv, ScriptInv, AtTheRest
<1>2. /\ made \in [Accounts -> SUBSET Programs] /\ account \in Accounts
      /\ config' \in [klend : Maybe, frozen : BOOLEAN] /\ config'.klend = config.klend
  BY Orders DEF DeployInv, DeploymentTypeOK, DeployTypeOK
<1>3. made' \in [Accounts -> SUBSET Programs]
  BY <1>1, <1>2
<1>4. \A a \in Accounts : made[a] \subseteq made'[a] /\ (a # account => made'[a] = made[a])
  BY <1>1, <1>2
<1>5. Grows
  <2>1. \A r \in Reserves : r \in Accounts /\ r # account
    BY Orders DEF Reserves
  <2> QED
    BY <1>4, <2>1, Typed DEF Grows, DeployInv
<1>6. ConfigFollowsReserves'
  <2>1. config.klend # NoProgram => ReservesReady(config.klend)
    BY DEF DeployInv, ConfigFollowsReserves, ReservesReady
  <2> QED
    BY <1>5, <2>1 DEF ConfigFollowsReserves, ReservesReady, Grows
<1>7. CASE Steps("vault")
  BY <1>1, <1>2, <1>3, <1>5, <1>6, <1>7, RestKeeps
<1>8. CASE Stop
  <2>1. DeploymentTypeOK'
    BY <1>3, <1>8, Typed, IdleIsTyped, Orders
       DEF Stop, DeployInv, Operators, DeploymentTypeOK, DeployTypeOK, BootstrapTypeOK, diskVars
  <2> QED
    BY <1>2, <1>5, <1>8, <2>1, StopKeeps DEF diskVars
<1> QED
  BY <1>7, <1>8

LEMMA EnsuresRegistryKeeps == ASSUME DeployInv, EnsuresRegistry PROVE DeployInv'
BY EnsuresKeeps DEF EnsuresRegistry, Ensures

LEMMA EnsuresVaultKeeps == ASSUME DeployInv, EnsuresVault PROVE DeployInv'
BY EnsuresKeeps DEF EnsuresVault, Ensures

-----------------------------------------------------------------------------
(* The gate.                                                               *)

LEMMA VerifyingMemory ==
  ASSUME NEW stage \in Stages, NEW section \in Section
  PROVE  Memory(Verifying(stage, section), stage, 0, NoProgram, section, 0, 0)
<1>1. Memory([Idle EXCEPT !.doing = stage, !.read = section], stage, Idle.step, Idle.klend,
             section, Idle.owed, Idle.sending)
  BY IdleIsTyped DEF Memory, Operators
<1>2. Idle.step = 0 /\ Idle.klend = NoProgram /\ Idle.owed = 0 /\ Idle.sending = 0
  BY DEF Idle
<1> QED
  BY <1>1, <1>2 DEF Verifying

(* Of the deploy flow nothing is known while the gate runs.                *)
LEMMA GateIsNoScript ==
  ASSUME operator'.doing \in {"verify", "check", "reverify", "recheck", "passed", "idle"}
  PROVE  ScriptInv'
BY DEF ScriptInv, AtBootstrap, AtReserves, AtFund, AtPublish, AtConfig, AtTheRest

LEMMA GateGrows ==
  ASSUME DeploymentTypeOK, UNCHANGED <<chainVars, checkout, accidents, usdc, mintAuthority>>
  PROVE  Grows /\ config' = config /\ made' = made /\ initialized' = initialized
BY Typed DEF chainVars, Grows

LEMMA GateTypes ==
  ASSUME DeploymentTypeOK, UNCHANGED <<chainVars, checkout, accidents, usdc, mintAuthority>>,
         envFile' \in Section, artifact' \in Section, operator' \in Operators
  PROVE  DeploymentTypeOK'
BY Typed, TypesStay DEF chainVars

LEMMA StartsGateKeeps == ASSUME DeployInv, StartsGate PROVE DeployInv'
<1>1. /\ operator' = Verifying("verify", envFile)
      /\ UNCHANGED <<chainVars, diskVars, checkout, accidents, usdc, mintAuthority>>
  BY DEF StartsGate
<1>2. DeploymentTypeOK /\ envFile \in Section /\ "verify" \in Stages
  BY Typed DEF DeployInv, Stages
<1>3. Memory(operator', "verify", 0, NoProgram, envFile, 0, 0)
  BY <1>1, <1>2, VerifyingMemory, Zenon
<1>4. DeploymentTypeOK' /\ Grows
  BY <1>1, <1>2, <1>3, Typed, GateTypes, GateGrows DEF Memory, diskVars
<1>5. ScriptInv' /\ GateInv'
  BY <1>1, <1>3, GateIsNoScript DEF Memory, GateInv, diskVars
<1> QED
  BY <1>1, <1>3, <1>4, <1>5, StepKeeps DEF Memory, diskVars, chainVars

(* Keys resolved from the environment and the artifact.                    *)
LEMMA Resolves ==
  ASSUME DeploymentTypeOK
  PROVE  /\ ResolvedKlend \in Programs /\ ResolvedKlend # NoProgram
         /\ ResolvedMarket \in Maybe
         /\ ResolvedMarket \in {operator.read.market, artifact.market}
         /\ operator.read.ids # NoProgram => ResolvedKlend = operator.read.ids
         /\ operator.read.market # NoProgram => ResolvedMarket = operator.read.market
BY Typed, ProgramAssumption DEF ResolvedKlend, ResolvedMarket, FirstOf, Section, Maybe

LEMMA SectionsAreTyped ==
  ASSUME NEW k \in Programs, NEW m \in Maybe
  PROVE  /\ Canonical(k, m) \in Section /\ MinimalSection(k, m) \in Section
         /\ Canonical(k, m).ids = k /\ Canonical(k, m).market = m
         /\ Canonical(k, m).asset = TRUE /\ Canonical(k, m).derived = TRUE
         /\ MinimalSection(k, m).ids = k /\ MinimalSection(k, m).market = m
         /\ MinimalSection(k, m).asset = TRUE
BY DEF Canonical, MinimalSection, Section, Maybe

LEMMA PrefillKeeps ==
  ASSUME DeployInv, NEW stage, NEW next, VerifyPrefills(stage, next),
         <<stage, next>> \in {<<"verify", "check">>, <<"reverify", "recheck">>}
  PROVE  DeployInv'
<1>1. /\ operator.doing = stage
      /\ UNCHANGED <<chainVars, artifact, checkout, accidents, usdc, mintAuthority>>
      /\ DeploymentTypeOK /\ next \in Stages /\ next \in {"check", "recheck"}
  BY DEF VerifyPrefills, DeployInv, Stages
<1>2. operator.read = envFile /\ (stage = "reverify" => Named(envFile))
  BY <1>1 DEF DeployInv, GateInv
<1>3. Grows /\ config' = config
  BY <1>1, GateGrows
<1>4. CASE Stop /\ UNCHANGED envFile
  <2>1. DeploymentTypeOK'
    BY <1>1, <1>4, Typed, IdleIsTyped, GateTypes DEF Stop
  <2> QED
    BY <1>1, <1>3, <1>4, <2>1, StopKeeps
<1>5. CASE /\ ResolvedMarket # NoProgram
           /\ operator' = [operator EXCEPT !.doing = next]
           /\ \/ envFile' = MinimalSection(ResolvedKlend, ResolvedMarket) /\ MissingMinimal
              \/ envFile' = envFile /\ ~MissingMinimal
  <2>1. Memory(operator', next, operator.step, operator.klend, operator.read,
               operator.owed, operator.sending)
    <3>1. operator \in Operators
      BY <1>1, Typed
    <3> QED
      BY <1>1, <1>5, <3>1, DoingChanges, Zenon
  <2>2. /\ envFile' \in Section /\ Named(envFile')
        /\ envFile'.market \in {envFile.market, operator.read.market, artifact.market}
    <3>1. CASE MissingMinimal
      <4>1. /\ ResolvedKlend \in Programs /\ ResolvedKlend # NoProgram
            /\ ResolvedMarket \in Maybe
            /\ ResolvedMarket \in {operator.read.market, artifact.market}
        BY <1>1, Resolves
      <4>2. envFile' = MinimalSection(ResolvedKlend, ResolvedMarket)
        BY <1>5, <3>1
      <4> HIDE DEF ResolvedKlend, ResolvedMarket
      <4>3. /\ envFile' \in Section /\ envFile'.ids = ResolvedKlend
            /\ envFile'.market = ResolvedMarket /\ envFile'.asset = TRUE
        BY <4>1, <4>2, SectionsAreTyped
      <4> QED
        BY <1>5, <4>1, <4>3 DEF Named
    <3>2. CASE ~MissingMinimal
      BY <1>1, <1>2, <1>5, <3>2, Typed DEF MissingMinimal, Named
    <3> QED
      BY <3>1, <3>2
  <2>3. DeploymentTypeOK'
    BY <1>1, <2>1, <2>2, Typed, GateTypes DEF Memory
  <2>4. ResolvedMarket' # NoProgram
    BY <1>1, <1>5, <2>1 DEF Memory, ResolvedMarket
  <2>5. next = "recheck" => operator'.read = envFile'
    BY <1>1, <1>2, <1>5, <2>1 DEF Memory, MissingMinimal, Named
  <2>6. ScriptInv' /\ GateInv' /\ operator'.doing # "passed"
    BY <1>1, <2>1, <2>2, <2>4, <2>5, GateIsNoScript DEF Memory, GateInv, Named
  <2> QED
    BY <1>1, <1>3, <2>1, <2>2, <2>3, <2>6, StepKeeps DEF Memory
<1> QED
  BY <1>4, <1>5 DEF VerifyPrefills, UpsertEnvSection

(* The files after a verdict: of their types and naming no other market,   *)
(* and .env has all names if it had them.                                  *)
LEMMA JudgedFiles ==
  ASSUME DeployInv,
         \/ UNCHANGED diskVars
         \/ /\ artifact' = Canonical(ResolvedKlend, ResolvedMarket)
            /\ \/ envFile' = envFile /\ operator.read.derived
               \/ envFile' = Canonical(ResolvedKlend, ResolvedMarket)
  PROVE  /\ envFile' \in Section /\ artifact' \in Section
         /\ {envFile'.market, artifact'.market}
              \subseteq {envFile.market, artifact.market, operator.read.market}
         /\ Named(envFile) /\ ResolvedMarket # NoProgram => Named(envFile')
<1>1. /\ ResolvedKlend \in Programs /\ ResolvedKlend # NoProgram
      /\ ResolvedMarket \in Maybe
      /\ ResolvedMarket \in {operator.read.market, artifact.market}
      /\ envFile \in Section /\ artifact \in Section
  BY Resolves, Typed DEF DeployInv
<1> DEFINE full == Canonical(ResolvedKlend, ResolvedMarket)
<1>2. full \in Section /\ full.ids = ResolvedKlend /\ full.market = ResolvedMarket /\ full.asset = TRUE
  <2>1. PICK k \in Programs, m \in Maybe : ResolvedKlend = k /\ ResolvedMarket = m
    BY <1>1
  <2>2. full = Canonical(k, m)
    BY <2>1
  <2> QED
    BY <2>1, <2>2, SectionsAreTyped
<1> HIDE DEF full
<1>3. CASE UNCHANGED diskVars
  BY <1>1, <1>3 DEF diskVars
<1>4. CASE /\ artifact' = full
           /\ envFile' = envFile \/ envFile' = full
  BY <1>1, <1>2, <1>4 DEF Named
<1> QED
  BY <1>3, <1>4 DEF full

LEMMA JudgeStops ==
  ASSUME DeployInv, Stop, UNCHANGED <<chainVars, checkout, accidents, usdc, mintAuthority>>,
         envFile' \in Section, artifact' \in Section,
         {envFile'.market, artifact'.market}
           \subseteq {envFile.market, artifact.market, operator.read.market}
  PROVE  DeployInv'
<1>1. Grows /\ config' = config
  BY GateGrows DEF DeployInv
<1>2. DeploymentTypeOK'
  BY Typed, IdleIsTyped, GateTypes DEF Stop, DeployInv
<1> QED
  BY <1>1, <1>2, StopKeeps

LEMMA FirstVerdictKeeps ==
  ASSUME DeployInv, VerifyJudges("check", operator' = Verifying("reverify", envFile'))
  PROVE  DeployInv'
<1>1. /\ operator.doing = "check"
      /\ UNCHANGED <<chainVars, checkout, accidents, usdc, mintAuthority>>
  BY DEF VerifyJudges
<1>2. Named(envFile) /\ ResolvedMarket # NoProgram
  BY <1>1 DEF DeployInv, GateInv
<1>3. \/ Stop /\ UNCHANGED diskVars
      \/ /\ operator' = Verifying("reverify", envFile') \/ Stop
         /\ artifact' = Canonical(ResolvedKlend, ResolvedMarket)
         /\ \/ envFile' = envFile /\ operator.read.derived
            \/ envFile' = Canonical(ResolvedKlend, ResolvedMarket)
  BY DEF VerifyJudges, UpsertEnvSection
<1>4. /\ envFile' \in Section /\ artifact' \in Section
      /\ {envFile'.market, artifact'.market}
           \subseteq {envFile.market, artifact.market, operator.read.market}
      /\ Named(envFile')
  BY <1>2, <1>3, JudgedFiles
<1>5. CASE Stop
  BY <1>1, <1>4, <1>5, JudgeStops
<1>6. CASE operator' = Verifying("reverify", envFile')
  <2>1. Memory(operator', "reverify", 0, NoProgram, envFile', 0, 0)
    <3>1. "reverify" \in Stages
      BY DEF Stages
    <3> QED
      BY <1>4, <1>6, <3>1, VerifyingMemory, Zenon
  <2>2. Grows /\ config' = config
    BY <1>1, GateGrows DEF DeployInv
  <2>3. DeploymentTypeOK'
    BY <1>1, <1>4, <2>1, GateTypes DEF Memory, DeployInv
  <2>4. ScriptInv' /\ GateInv' /\ operator'.doing # "passed"
    BY <1>4, <2>1, GateIsNoScript DEF Memory, GateInv, Named
  <2>5. operator'.read.market = envFile'.market
    BY <2>1 DEF Memory
  <2> QED
    BY <1>4, <2>2, <2>3, <2>4, <2>5, StepKeeps
<1> QED
  BY <1>3, <1>5, <1>6

(* The second verdict is about the file that is on disk: what it read has  *)
(* all names, so it resolved them from there, and what it did not write it *)
(* has found complete.                                                     *)
LEMMA SecondVerdictKeeps ==
  ASSUME DeployInv, VerifyJudges("recheck", Passes)
  PROVE  DeployInv'
<1>1. /\ operator.doing = "recheck"
      /\ UNCHANGED <<chainVars, checkout, accidents, usdc, mintAuthority>>
  BY DEF VerifyJudges
<1>2. operator.read = envFile /\ Named(envFile) /\ envFile \in Section
  BY <1>1, Typed DEF DeployInv, GateInv
<1>3. /\ \/ Stop /\ UNCHANGED diskVars
         \/ /\ (Decodable /\ ChecksHold /\ Passes) \/ Stop
            /\ artifact' = Canonical(ResolvedKlend, ResolvedMarket)
            /\ \/ envFile' = envFile /\ operator.read.derived
               \/ envFile' = Canonical(ResolvedKlend, ResolvedMarket)
  BY DEF VerifyJudges, UpsertEnvSection
<1>4. /\ envFile' \in Section /\ artifact' \in Section
      /\ {envFile'.market, artifact'.market}
           \subseteq {envFile.market, artifact.market, operator.read.market}
  BY <1>3, JudgedFiles
<1>5. CASE Stop
  BY <1>1, <1>4, <1>5, JudgeStops
<1>6. CASE ~Stop
  <2>1. /\ Decodable /\ ChecksHold
        /\ operator' = [Idle EXCEPT !.doing = "passed"]
        /\ artifact' = Canonical(ResolvedKlend, ResolvedMarket)
        /\ \/ envFile' = envFile /\ operator.read.derived
           \/ envFile' = Canonical(ResolvedKlend, ResolvedMarket)
    BY <1>3, <1>6 DEF Passes
  <2>2. Memory(operator', "passed", 0, NoProgram, NoSection, 0, 0)
    <3>1. "passed" \in Stages
      BY DEF Stages
    <3>2. Memory([Idle EXCEPT !.doing = "passed"], "passed", Idle.step, Idle.klend, Idle.read,
                 Idle.owed, Idle.sending)
      BY <3>1, IdleIsTyped, DoingChanges
    <3>3. /\ Idle.step = 0 /\ Idle.klend = NoProgram /\ Idle.read = NoSection
          /\ Idle.owed = 0 /\ Idle.sending = 0
      BY DEF Idle
    <3> QED
      BY <2>1, <3>2, <3>3
  <2>3. PICK k \in Programs : ResolvedKlend = k /\ envFile.ids = k
    BY <1>2, Resolves DEF DeployInv, Named
  <2>4. ResolvedMarket = k /\ envFile.market = k
    BY <1>2, <2>1, <2>3, Resolves DEF DeployInv, Named, ChecksHold
  <2>5. Describes(Canonical(k, k), k)
    BY DEF Describes, Canonical
  <2>6. Describes(envFile', k) /\ Describes(artifact', k)
    <3>1. Canonical(ResolvedKlend, ResolvedMarket) = Canonical(k, k)
      BY <2>3, <2>4
    <3>2. CASE envFile' = envFile /\ operator.read.derived
      BY <1>2, <2>1, <2>3, <2>4, <2>5, <3>1, <3>2 DEF Named, Describes
    <3> QED
      BY <2>1, <2>5, <3>1, <3>2
  <2>7. /\ Grows /\ config' = config /\ made' = made /\ initialized' = initialized
    BY <1>1, GateGrows DEF DeployInv
  <2>8. DeploymentTypeOK'
    BY <1>1, <1>4, <2>2, GateTypes DEF Memory, DeployInv
  <2>9. GateMeansReady'
    <3>1. config'.klend = k
      BY <2>1, <2>3, <2>7 DEF ChecksHold
    <3>2. \A r \in Reserves : made'[r] = {k} /\ r \in initialized'
      BY <2>1, <2>3, <2>7 DEF ChecksHold, Decodable
    <3> QED
      BY <2>6, <3>1, <3>2 DEF GateMeansReady
  <2>10. operator'.doing = "passed" /\ operator'.read.market = NoProgram
    BY <2>2 DEF Memory, NoSection
  <2>11. ScriptInv' /\ GateInv'
    BY <2>10, GateIsNoScript DEF GateInv
  <2>12. PublishedInv' /\ ConfigFollowsReserves'
    BY <1>4, <2>7, <2>8, <2>10, PublishedStays, ConfigStays
  <2> QED
    BY <2>8, <2>9, <2>11, <2>12 DEF DeployInv
<1> QED
  BY <1>5, <1>6

-----------------------------------------------------------------------------
(* Ends, accidents and users.                                              *)

LEMMA EndsKeep == ASSUME DeployInv, GoesOnAfterGate \/ (Dies /\ UNCHANGED <<usdc, mintAuthority>>)
                  PROVE  DeployInv'
<1>1. Stop /\ UNCHANGED <<chainVars, diskVars, checkout, accidents, usdc, mintAuthority>>
  BY DEF GoesOnAfterGate, Dies
<1> QED
  BY <1>1, Typed, JudgeStops DEF diskVars, DeployInv

LEMMA AccidentKeeps == ASSUME DeployInv, Accident, UNCHANGED <<usdc, mintAuthority>> PROVE DeployInv'
<1>1. /\ UNCHANGED <<made, initialized, config>> /\ operator = Idle /\ operator' = Idle
      /\ accidents < MaxAccidents /\ accidents' = accidents + 1
  BY DEF Accident, chainVars
<1>2. /\ envFile' \in Section /\ artifact' \in Section /\ checkout' \in Programs
      /\ {envFile'.market, artifact'.market} \ {NoProgram} \subseteq {envFile.market, artifact.market}
  <2>1. /\ envFile \in Section /\ artifact \in Section /\ checkout \in Programs
        /\ NoSection \in Section /\ NoSection.market = NoProgram
    BY Typed DEF DeployInv, DeploymentTypeOK, DeployTypeOK, NoSection, Section, Maybe
  <2>2. CASE /\ envFile' \in {[envFile EXCEPT !.ids = NoProgram], [envFile EXCEPT !.market = NoProgram],
                             [envFile EXCEPT !.asset = FALSE], [envFile EXCEPT !.derived = FALSE],
                             [envFile EXCEPT !.oracle = FALSE], NoSection}
             /\ UNCHANGED <<artifact, checkout>>
    <3>1. \A e \in Section :
            /\ [e EXCEPT !.ids = NoProgram] \in Section /\ [e EXCEPT !.ids = NoProgram].market = e.market
            /\ [e EXCEPT !.market = NoProgram] \in Section
            /\ [e EXCEPT !.market = NoProgram].market = NoProgram
            /\ [e EXCEPT !.asset = FALSE] \in Section /\ [e EXCEPT !.asset = FALSE].market = e.market
            /\ [e EXCEPT !.derived = FALSE] \in Section /\ [e EXCEPT !.derived = FALSE].market = e.market
            /\ [e EXCEPT !.oracle = FALSE] \in Section /\ [e EXCEPT !.oracle = FALSE].market = e.market
      BY DEF Section, Maybe
    <3>2. envFile' \in Section /\ envFile'.market \in {envFile.market, NoProgram}
      BY <2>1, <2>2, <3>1
    <3> QED
      BY <2>1, <2>2, <3>2
  <2>3. CASE artifact' = NoSection /\ UNCHANGED <<envFile, checkout>>
    BY <2>1, <2>3
  <2>4. CASE checkout' \in Programs /\ UNCHANGED diskVars
    BY <2>1, <2>4 DEF diskVars
  <2> QED
    BY <2>2, <2>3, <2>4 DEF Accident
<1>3. Grows
  BY <1>1, Typed DEF Grows, DeployInv
<1>4. DeploymentTypeOK'
  <2>1. accidents' \in 0 .. MaxAccidents
    BY <1>1, ProgramAssumption DEF DeployInv, DeploymentTypeOK, DeployTypeOK
  <2> QED
    BY <1>1, <1>2, <2>1 DEF DeployInv, DeploymentTypeOK, DeployTypeOK, BootstrapTypeOK
<1> QED
  BY <1>1, <1>2, <1>3, <1>4, StopKeeps DEF Stop

LEMMA NobodyDeploys == ASSUME DeployInv, UNCHANGED bootstrapVars PROVE DeployInv'
<1> USE DEF bootstrapVars, deployVars
<1>1. DeploymentTypeOK' /\ ConfigFollowsReserves' /\ GateMeansReady'
  BY DEF DeployInv, DeploymentTypeOK, DeployTypeOK, BootstrapTypeOK, ConfigFollowsReserves, GateMeansReady
<1>2. PublishedInv' /\ GateInv'
  BY DEF DeployInv, PublishedInv, GateInv, MarketComplete, AccountsMade, ReservesReady, Exists,
         ResolvedMarket
<1>3. ScriptInv'
  BY DEF DeployInv, ScriptInv, AtBootstrap, AtReserves, AtFund, AtPublish, AtConfig, AtTheRest,
         MarketComplete, AccountsMade, ReservesReady, Exists
<1> QED
  BY <1>1, <1>2, <1>3 DEF DeployInv

LEMMA NextKeepsDeployInv == DeployInv /\ [Next]_<<bootstrapVars, vaultVars>> => DeployInv'
<1> SUFFICES ASSUME DeployInv, [Next]_<<bootstrapVars, vaultVars>>
             PROVE  DeployInv'
  OBVIOUS
<1>1. CASE BootstrapNext
  BY <1>1, StartsDeployKeeps, EnsuresAccountKeeps, EnsuresReserveKeeps, ReadsSupplyKeeps,
     ReadsSourceKeeps, SendsUsdcKeeps, FundedBySourcesKeeps, MintsRestKeeps, PublishesKeeps
     DEF BootstrapNext
<1>2. CASE GateNext
  <2>1. VerifiesFirst \/ VerifiesAgain => DeployInv'
    BY PrefillKeeps, FirstVerdictKeeps, SecondVerdictKeeps DEF VerifiesFirst, VerifiesAgain
  <2> QED
    BY <1>2, <2>1, ConfiguresProtocolKeeps, FreezesConfigKeeps, EnsuresRegistryKeeps,
       EnsuresVaultKeeps, StartsGateKeeps, EndsKeep DEF GateNext
<1>3. CASE (Dies \/ Accident) /\ UNCHANGED <<usdc, mintAuthority>>
  BY <1>3, EndsKeep, AccidentKeeps
<1>4. CASE UserStep \/ UNCHANGED <<bootstrapVars, vaultVars>>
  BY <1>4, NobodyDeploys DEF UserStep
<1> QED
  BY <1>1, <1>2, <1>3, <1>4 DEF Next, OperatorStep

(* The inductive invariant holds whatever fails, is lost or is repeated.   *)
THEOREM DeploymentInvariant == Spec => []DeployInv
<1> QED
  BY InitDeploys, NextKeepsDeployInv, PTL DEF Spec

(* Accounts, files and the scripts' memory are of their types.             *)
THEOREM DeploymentTypes == Spec => []DeploymentTypeOK
<1>1. DeployInv => DeploymentTypeOK
  BY DEF DeployInv
<1> QED
  BY <1>1, DeploymentInvariant, PTL

(* A gate that has passed means a deployment that is whole, for any number *)
(* of programs, crashes, lost files and repeated runs.                     *)
THEOREM GateIsSound == Spec => []GateMeansReady
<1>1. DeployInv => GateMeansReady
  BY DEF DeployInv
<1> QED
  BY <1>1, DeploymentInvariant, PTL

(* What .env or the artifact names exists, whole and funded.               *)
THEOREM PublishedIsThere == Spec => []PublishedIsBacked
<1>1. DeployInv => PublishedIsBacked
  BY DEF DeployInv, PublishedInv, PublishedIsBacked, MarketComplete, AccountsMade, ReservesReady
<1> QED
  BY <1>1, DeploymentInvariant, PTL

(* The protocol config trusts no program that has no reserves.             *)
THEOREM ConfigIsBacked == Spec => []ConfigFollowsReserves
<1>1. DeployInv => ConfigFollowsReserves
  BY DEF DeployInv
<1> QED
  BY <1>1, DeploymentInvariant, PTL
=============================================================================
