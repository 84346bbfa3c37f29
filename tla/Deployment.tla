----------------------------- MODULE Deployment -----------------------------
(***************************************************************************)
(* A deployment and the vault it opens.  The operator's scripts run until  *)
(* the gate has passed; the vault's users come with the client, once the   *)
(* operator says so and the vault is there.                                *)
(***************************************************************************)
EXTENDS ReadyGate, VaultClient

DeploymentTypeOK ==
  /\ DeployTypeOK
  /\ BootstrapTypeOK

Init ==
  /\ DeployInit
  /\ BootstrapInit
  /\ VaultInit

(* Bounds of the composition.  Users read nothing that the scripts write,  *)
(* so they are explored after one deployment in which nothing went astray; *)
(* and the operator works only while the vault is as he made it.           *)
PlainDeployment ==
  /\ accidents = 0 /\ checkout = DefaultProgram
  /\ ~config.frozen
  /\ mintAuthority /\ usdc["supply"] = TargetSupply /\ usdc["donor"] = 0

VaultUntouched == totalManagedAssets = 0 /\ shareSupply = 0 /\ vaultToken = 0

OperatorStep ==
  /\ VaultUntouched
  /\ BootstrapNext \/ GateNext \/ ((Dies \/ Accident) /\ UNCHANGED <<usdc, mintAuthority>>)
  /\ UNCHANGED vaultVars

UsersCome == operator.doing = "passed" /\ made["vault"] # {} /\ PlainDeployment

ClientInstruction ==
  \E u \in Users, amount \in Amounts, limit \in Limits :
    \/ BuildDeposit(u, amount, limit)
    \/ BuildMint(u, amount, limit)
    \/ BuildWithdraw(u, amount, limit)
    \/ BuildRedeem(u, amount, limit)

UserStep ==
  /\ UsersCome
  /\ ClientInstruction \/ MoveIdle \/ BurnOwnShares
  /\ UNCHANGED bootstrapVars

Next == OperatorStep \/ UserStep

Spec == Init /\ [][Next]_<<bootstrapVars, vaultVars>>

-----------------------------------------------------------------------------
(* Safety of the deployment.                                               *)

(* A section has every key that a script reads, all for one deployment.    *)
Describes(section, klend) ==
  /\ section.ids = klend /\ section.market = klend
  /\ section.asset /\ section.derived

(* When the gate has passed, the deployment is whole, whatever failed,     *)
(* was lost or was repeated before: .env and the artifact name all that a  *)
(* script reads and agree on it, both reserves are initialised and belong  *)
(* to the program they name, and so does the protocol config, without      *)
(* which the Cushion program refuses that program's accounts.  (They need  *)
(* not be equal: the gate leaves the mock's oracle key in .env when it     *)
(* finds the section complete, and never has it in the artifact.)          *)
GateMeansReady ==
  operator.doing = "passed" =>
    \E klend \in Programs :
      /\ Describes(envFile, klend) /\ Describes(artifact, klend)
      /\ \A r \in Reserves : made[r] = {klend} /\ r \in initialized
      /\ config.klend = klend

(* Where a market is published, in .env or in the artifact, there is one:  *)
(* all its accounts are made, its reserves are its own and initialised,    *)
(* and its USDC supply has reached the target, whichever transfer or mint  *)
(* failed, landed twice or was never sent.                                 *)
PublishedIsBacked ==
  \A market \in {envFile.market, artifact.market} \ {NoProgram} :
    /\ \A i \in DOMAIN BootstrapOrder : Exists(BootstrapOrder[i], market)
    /\ \A r \in Reserves : made[r] = {market} /\ r \in initialized
    /\ usdc["supply"] >= TargetSupply

(* The protocol config never trusts a program that has no reserves: the    *)
(* flow configures only what bootstrap has published, in whatever order    *)
(* runs of different checkouts fail and are repeated.                      *)
ConfigFollowsReserves ==
  config.klend # NoProgram => \A r \in Reserves : made[r] = {config.klend} /\ r \in initialized
=============================================================================
