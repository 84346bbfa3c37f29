----------------------------- MODULE Bootstrap -----------------------------
(***************************************************************************)
(* bootstrapKlendMock.ts: the Kamino stand-in's market, reserves and       *)
(* liquidity, made by a script that may be run again after any failure.    *)
(* Every account is looked up before it is made; the reserve's liquidity   *)
(* is topped up to a target; the addresses are published last, in .env and *)
(* in the artifact.  The prices that a second run sets back are left out.  *)
(***************************************************************************)
EXTENDS DeployChain

CONSTANTS
  TargetSupply,   \* MOCK_USDC_SUPPLY_RAW
  PayerUsdc,      \* USDC of the payer
  DonorsUsdc,     \* what MOCK_USDC_DONOR_KEYPAIR may hold, 0 when none is set
  MaxSupply       \* how much repeated mints may add up to; bounds the model

ASSUME FundAssumption ==
  /\ TargetSupply \in Nat
  /\ PayerUsdc \in Nat
  /\ DonorsUsdc \subseteq Nat
  /\ MaxSupply \in Nat

VARIABLES
  usdc,          \* balances: the reserve's supply vault and the two sources
  mintAuthority  \* whether payer or donor is the mint's authority

bootstrapVars == <<deployVars, usdc, mintAuthority>>

Sources == <<"payer", "donor">>

BootstrapTypeOK ==
  /\ usdc \in [{"supply", "payer", "donor"} -> Nat]
  /\ mintAuthority \in BOOLEAN

BootstrapInit ==
  /\ \E donor \in DonorsUsdc : usdc = [supply |-> 0, payer |-> PayerUsdc, donor |-> donor]
  /\ mintAuthority \in BOOLEAN

-----------------------------------------------------------------------------

(* deploy-environment.sh reads .env into the shell, then deploys; the key  *)
(* of the section wins over the checkout's keypair.                        *)
StartsDeploy ==
  /\ operator.doing = "idle"
  /\ LET klend == FirstOf(envFile.ids, checkout)
     IN  operator' = [Idle EXCEPT !.doing = "bootstrap", !.step = 1, !.klend = klend]
  /\ UNCHANGED <<chainVars, diskVars, checkout, accidents, usdc, mintAuthority>>

(* Mutant: the list of accounts has no end.                                *)
AnotherAccount == [operator EXCEPT !.step = @ + 1]

NextAccount ==
  IF operator.step < Len(BootstrapOrder)
    THEN [operator EXCEPT !.step = @ + 1]
    ELSE [operator EXCEPT !.doing = "reserves", !.step = 1]

(* ensureMint, ensureSystemAccount, ensureTokenAccount and the three       *)
(* look-ups of main: what exists is left as it is, whoever made it.        *)
EnsuresAccount ==
  /\ operator.doing = "bootstrap"
  /\ LET account == BootstrapOrder[operator.step]
     IN  IF Exists(account, operator.klend)
           THEN operator' = NextAccount /\ UNCHANGED made
           ELSE /\ made' = [made EXCEPT ![account] = @ \cup {operator.klend}]
                /\ GoesOn(NextAccount)
  /\ UNCHANGED <<initialized, config, diskVars, checkout, accidents, usdc, mintAuthority>>

ReserveOrder == <<"solReserve", "usdcReserve">>

NextReserve ==
  IF operator.step < Len(ReserveOrder)
    THEN [operator EXCEPT !.step = @ + 1]
    ELSE [operator EXCEPT !.doing = "fund", !.step = 0]

(* Mutant: the account is there, so it will do.                            *)
WritableByAnyone(reserve, klend) == made[reserve] # {}

(* A program writes only to accounts it owns.                              *)
Writable(reserve, klend) == made[reserve] = {klend}

EnsuresReserveInitialized ==
  /\ operator.doing = "reserves"
  /\ LET reserve == ReserveOrder[operator.step]
     IN  IF Writable(reserve, operator.klend)
           THEN initialized' = initialized \cup {reserve} /\ GoesOn(NextReserve)
           ELSE Stop /\ UNCHANGED initialized
  /\ UNCHANGED <<made, config, diskVars, checkout, accidents, usdc, mintAuthority>>

-----------------------------------------------------------------------------
(* Funding.  Step 0 reads the supply, steps 1 and 2 are the sources, step  *)
(* 3 mints the rest.                                                       *)

Funding(step) == operator.doing = "fund" /\ operator.step = step

Publishing == [operator EXCEPT !.doing = "publish", !.step = 0, !.owed = 0]

UnchangedByFunding == UNCHANGED <<chainVars, diskVars, checkout, accidents, mintAuthority>>

(* What landed may be reported as a transient failure, and is sent again   *)
(* as it was.                                                              *)
WithRetry(next) == GoesOn(next) \/ UNCHANGED operator

ReadsSupply ==
  /\ Funding(0)
  /\ operator' = IF usdc["supply"] >= TargetSupply
                   THEN Publishing
                   ELSE [operator EXCEPT !.step = 1, !.owed = TargetSupply - usdc["supply"]]
  /\ UNCHANGED usdc
  /\ UnchangedByFunding

ReadsSource ==
  /\ \E step \in DOMAIN Sources : Funding(step)
  /\ operator.owed > 0 /\ operator.sending = 0
  /\ LET balance == usdc[Sources[operator.step]]
     IN  operator' = IF balance = 0
                       THEN [operator EXCEPT !.step = @ + 1]
                       ELSE [operator EXCEPT !.sending = IF balance >= operator.owed
                                                           THEN operator.owed ELSE balance]
  /\ UNCHANGED usdc
  /\ UnchangedByFunding

(* One attempt of the transfer.                                            *)
SendsUsdc ==
  /\ operator.doing = "fund" /\ operator.sending > 0
  /\ LET source == Sources[operator.step]
         sent   == operator.sending
     IN  \/ /\ usdc[source] >= sent
            /\ usdc' = [usdc EXCEPT ![source] = @ - sent, !["supply"] = @ + sent]
            /\ WithRetry([operator EXCEPT !.step = @ + 1, !.owed = @ - sent, !.sending = 0])
         \/ usdc[source] < sent /\ Stop /\ UNCHANGED usdc
  /\ UnchangedByFunding

FundedBySources ==
  /\ operator.doing = "fund" /\ operator.step > 0 /\ operator.owed = 0
  /\ operator' = Publishing
  /\ UNCHANGED usdc
  /\ UnchangedByFunding

(* Mutant: the sources run dry and bootstrap goes on.                      *)
PublishesShort ==
  /\ Funding(Len(Sources) + 1) /\ operator.owed > 0
  /\ operator' = Publishing
  /\ UNCHANGED usdc
  /\ UnchangedByFunding

(* The rest is minted by whoever holds the authority, again with retries;  *)
(* without one bootstrap gives up.                                         *)
MintsRest ==
  /\ Funding(Len(Sources) + 1) /\ operator.owed > 0
  /\ \/ /\ mintAuthority
        /\ usdc' = [usdc EXCEPT !["supply"] = @ + operator.owed]
        /\ \/ GoesOn(Publishing)
           \/ usdc'["supply"] + operator.owed <= MaxSupply /\ UNCHANGED operator
     \/ ~mintAuthority /\ Stop /\ UNCHANGED usdc
  /\ UnchangedByFunding

-----------------------------------------------------------------------------
(* Both files are written with no await between.                           *)
Publishes ==
  /\ operator.doing = "publish"
  /\ UpsertEnvSection(OutputEntries(operator.klend))
  /\ artifact' = OutputEntries(operator.klend)
  /\ GoesOn([operator EXCEPT !.doing = "config"])
  /\ UNCHANGED <<chainVars, checkout, accidents, usdc, mintAuthority>>

BootstrapNext ==
  \/ StartsDeploy \/ EnsuresAccount \/ EnsuresReserveInitialized
  \/ ReadsSupply \/ ReadsSource \/ SendsUsdc \/ FundedBySources \/ MintsRest \/ Publishes
=============================================================================
