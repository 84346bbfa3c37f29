----------------------------- MODULE ReadyGate -----------------------------
(***************************************************************************)
(* What follows bootstrap: initProtocolConfig.ts, initPositionRegistry.ts  *)
(* and initVaultLocal.ts, run by deploy-environment.sh one after the other *)
(* and only as long as each succeeds, and the readiness gate               *)
(* (devnet-ready-gate.sh), which runs verifyDevnetReady.ts twice.          *)
(*                                                                         *)
(* Verification reads the environment node was started with, fills in what *)
(* is missing on disk, and only then compares with the chain.              *)
(***************************************************************************)
EXTENDS Bootstrap

Steps(next) == GoesOn([operator EXCEPT !.doing = next])

(* init_protocol_config creates the account; update_protocol_config        *)
(* refuses a frozen one.  The mode follows from the ids: DevnetMock.       *)
InitProtocolConfig(klend) ==
  /\ config.klend = NoProgram
  /\ config' = [klend |-> klend, frozen |-> FALSE]

UpdateProtocolConfig(klend) ==
  /\ ~config.frozen
  /\ config' = [config EXCEPT !.klend = klend]

FreezeProtocolConfig ==
  /\ config.klend # NoProgram
  /\ config' = [config EXCEPT !.frozen = TRUE]

(* PROTOCOL_CONFIG_UPDATE_IF_EXISTS and PROTOCOL_CONFIG_FREEZE are the     *)
(* operator's; the freeze is a second transaction.                         *)
ConfiguresProtocol ==
  /\ operator.doing = "config"
  /\ \E updateIfExists, freezeAfterWrite \in BOOLEAN :
       LET next == IF freezeAfterWrite THEN "freeze" ELSE "registry"
       IN  \/ InitProtocolConfig(envFile.ids) /\ Steps(next)
           \/ /\ config.klend # NoProgram
              /\ IF updateIfExists
                   THEN \/ UpdateProtocolConfig(envFile.ids) /\ Steps(next)
                        \/ config.frozen /\ Stop /\ UNCHANGED config
                   ELSE Steps(next) /\ UNCHANGED config
  /\ UNCHANGED <<made, initialized, diskVars, checkout, accidents, usdc, mintAuthority>>

FreezesConfig ==
  /\ operator.doing = "freeze"
  /\ FreezeProtocolConfig
  /\ Steps("registry")
  /\ UNCHANGED <<made, initialized, diskVars, checkout, accidents, usdc, mintAuthority>>

(* init_position_registry and init_vault, unless the account is there.     *)
Ensures(account, next) ==
  /\ operator.doing = account
  /\ made' = [made EXCEPT ![account] = IF @ = {} THEN {operator.klend} ELSE @]
  /\ next
  /\ UNCHANGED <<initialized, config, diskVars, checkout, accidents, usdc, mintAuthority>>

EnsuresRegistry == Ensures("registry", Steps("vault"))

EnsuresVault == Ensures("vault", Stop)

-----------------------------------------------------------------------------
(* The gate.                                                               *)

Verifying(stage, section) == [Idle EXCEPT !.doing = stage, !.read = section]

StartsGate ==
  /\ operator.doing = "idle"
  /\ operator' = Verifying("verify", envFile)
  /\ UNCHANGED <<chainVars, diskVars, checkout, accidents, usdc, mintAuthority>>

(* A key from the environment, else from the artifact.                     *)
ResolvedMarket == FirstOf(operator.read.market, artifact.market)

ResolvedKlend == FirstOf(operator.read.ids, FirstOf(artifact.ids, DefaultProgram))

MissingMinimal ==
  \/ operator.read.ids = NoProgram
  \/ operator.read.market = NoProgram
  \/ ~operator.read.asset

(* Prefills the section, before anything is checked.                       *)
VerifyPrefills(stage, next) ==
  /\ operator.doing = stage
  /\ IF ResolvedMarket = NoProgram
       THEN Stop /\ UNCHANGED envFile
       ELSE /\ IF MissingMinimal
                 THEN UpsertEnvSection(MinimalSection(ResolvedKlend, ResolvedMarket))
                 ELSE UNCHANGED envFile
            /\ operator' = [operator EXCEPT !.doing = next]
  /\ UNCHANGED <<chainVars, artifact, checkout, accidents, usdc, mintAuthority>>

(* Without these the script throws before it has a verdict.                *)
Decodable ==
  /\ \A r \in Reserves : made[r] # {} /\ r \in initialized
  /\ config.klend # NoProgram

ChecksHold ==
  /\ ResolvedKlend \in made["lendingMarket"] /\ ResolvedMarket = ResolvedKlend
  /\ \A r \in Reserves : made[r] = {ResolvedKlend}
  /\ operator.read.derived \/ artifact.derived
  /\ config.klend = ResolvedKlend

(* The environment is filled in when the one that was READ lacks a key,    *)
(* the artifact always, and only then the checks decide.                   *)
VerifyJudges(stage, passed) ==
  /\ operator.doing = stage
  /\ IF Decodable
       THEN LET canonical == Canonical(ResolvedKlend, ResolvedMarket)
            IN  /\ IF operator.read.derived THEN UNCHANGED envFile ELSE UpsertEnvSection(canonical)
                /\ artifact' = canonical
                /\ IF ChecksHold THEN passed ELSE Stop
       ELSE Stop /\ UNCHANGED diskVars
  /\ UNCHANGED <<chainVars, checkout, accidents, usdc, mintAuthority>>

Passes == operator' = [Idle EXCEPT !.doing = "passed"]

(* Mutant: the gate believes its first verification.                       *)
PassesOnce ==
  \/ VerifyPrefills("verify", "check")
  \/ VerifyJudges("check", Passes)

VerifiesFirst ==
  \/ VerifyPrefills("verify", "check")
  \/ VerifyJudges("check", operator' = Verifying("reverify", envFile'))

(* The second run starts from the file the first one left.                 *)
VerifiesAgain ==
  \/ VerifyPrefills("reverify", "recheck")
  \/ VerifyJudges("recheck", Passes)

GoesOnAfterGate ==
  /\ operator.doing = "passed"
  /\ Stop
  /\ UNCHANGED <<chainVars, diskVars, checkout, accidents, usdc, mintAuthority>>

GateNext ==
  \/ ConfiguresProtocol \/ FreezesConfig \/ EnsuresRegistry \/ EnsuresVault
  \/ StartsGate \/ VerifiesFirst \/ VerifiesAgain \/ GoesOnAfterGate
=============================================================================
