---------------------------- MODULE DeployChain ----------------------------
(***************************************************************************)
(* What a deployment on devnet leaves behind, on chain and on the          *)
(* operator's disk, and the operator who runs the scripts of sdk/scripts.  *)
(*                                                                         *)
(* One operator works alone, with one payer.  A program stands for its id: *)
(* the Kamino stand-in is deployed from the checkout's own keypair, so     *)
(* another checkout has another id.  Some accounts have addresses derived  *)
(* from that program, the others from the payer alone.                     *)
(***************************************************************************)
EXTENDS Naturals, Sequences

CONSTANTS
  Programs,        \* ids the Kamino stand-in may be deployed under
  DefaultProgram,  \* DEFAULT_KLEND_MOCK_PROGRAM_ID
  NoProgram,       \* an absent key
  MaxAccidents     \* lost keys, lost caches and changed checkouts explored

ASSUME ProgramAssumption ==
  /\ DefaultProgram \in Programs
  /\ NoProgram \notin Programs
  /\ MaxAccidents \in Nat

VARIABLES
  made,         \* per account, the programs under which it was created
  initialized,  \* reserves whose account holds a reserve
  config,       \* the protocol config account
  envFile,      \* the section KLEND_MOCK_BOOTSTRAP_DEVNET of .env
  artifact,     \* the bootstrap artifact in sdk/.cache
  checkout,     \* the program of the operator's klend_mock keypair
  accidents,
  operator      \* the script that runs, and what it holds in memory

chainVars == <<made, initialized, config>>
diskVars == <<envFile, artifact>>
deployVars == <<made, initialized, config, envFile, artifact, checkout, accidents, operator>>

Reserves == {"solReserve", "usdcReserve"}
TokenAccounts == {"solTokenAccounts", "usdcTokenAccounts"}

(* Accounts in the order bootstrap makes them.  Accounts that one helper   *)
(* makes in a row, and that nothing below tells apart, are one: the two    *)
(* collateral mints, the two farm states, the three token accounts of a    *)
(* reserve.                                                                *)
BootstrapOrder ==
  <<"collateralMints", "solReserve", "usdcReserve", "farmStates",
    "solTokenAccounts", "usdcTokenAccounts",
    "lendingMarket", "lendingMarketAuthority", "oracle">>

PerProgram == {"lendingMarket", "lendingMarketAuthority", "oracle"}

Accounts == {BootstrapOrder[i] : i \in DOMAIN BootstrapOrder} \cup {"registry", "vault"}

(* getAccountInfo of the address that a script working for klend computes. *)
Exists(account, klend) ==
  IF account \in PerProgram THEN klend \in made[account] ELSE made[account] # {}

-----------------------------------------------------------------------------
(* Sections of keys.  The keys a script writes together are one key here;  *)
(* a value is the deployment it describes.  KLEND_PROGRAM_ID and           *)
(* KLEND_FARMS_PROGRAM always get the same value on devnet.                *)

Maybe == Programs \cup {NoProgram}

Section ==
  [ids : Maybe, market : Maybe, asset : BOOLEAN, derived : BOOLEAN, oracle : BOOLEAN]

NoSection ==
  [ids |-> NoProgram, market |-> NoProgram, asset |-> FALSE, derived |-> FALSE, oracle |-> FALSE]

(* The keys that verifyDevnetReady knows.  It writes no KLEND_MOCK_ORACLE. *)
Canonical(ids, market) ==
  [ids |-> ids, market |-> market, asset |-> TRUE, derived |-> TRUE, oracle |-> FALSE]

(* What bootstrap publishes: one key more, which no script reads.          *)
OutputEntries(klend) == [Canonical(klend, klend) EXCEPT !.oracle = TRUE]

(* What verifyDevnetReady prefills: all but the keys that it reads from    *)
(* the reserves.                                                           *)
MinimalSection(ids, market) == [Canonical(ids, market) EXCEPT !.derived = FALSE]

FirstOf(value, fallback) == IF value # NoProgram THEN value ELSE fallback

(* upsertEnvSection: the new entries REPLACE the section, keys that are    *)
(* not among them are lost.                                                *)
UpsertEnvSection(entries) == envFile' = entries

-----------------------------------------------------------------------------
(* The operator's scripts.  A script holds the program it works for, the   *)
(* section as node read it when it started and, while it funds the         *)
(* reserve, what it still has to find and what it is sending.              *)

Idle == [doing |-> "idle", step |-> 0, klend |-> NoProgram, read |-> NoSection,
         owed |-> 0, sending |-> 0]

Stages == {"idle", "bootstrap", "reserves", "fund", "publish", "config", "freeze",
           "registry", "vault", "verify", "check", "reverify", "recheck", "passed"}

Stop == operator' = Idle

(* A transaction that has landed may still be reported as failed, or the   *)
(* script may die right after it: the shell runs with set -e.              *)
GoesOn(next) == operator' = next \/ Stop

DeployTypeOK ==
  /\ made \in [Accounts -> SUBSET Programs]
  /\ initialized \subseteq Reserves
  /\ config \in [klend : Maybe, frozen : BOOLEAN]
  /\ envFile \in Section
  /\ artifact \in Section
  /\ checkout \in Programs
  /\ accidents \in 0 .. MaxAccidents
  /\ operator \in [doing : Stages, step : 0 .. Len(BootstrapOrder),
                   klend : Maybe, read : Section, owed : Nat, sending : Nat]

DeployInit ==
  /\ made = [a \in Accounts |-> {}]
  /\ initialized = {}
  /\ config = [klend |-> NoProgram, frozen |-> FALSE]
  /\ envFile = NoSection
  /\ artifact = NoSection
  /\ checkout \in Programs
  /\ accidents = 0
  /\ operator = Idle

(* Any script may die or be interrupted at any await.                      *)
Dies ==
  /\ operator.doing \notin {"idle", "passed"}
  /\ Stop
  /\ UNCHANGED <<chainVars, diskVars, checkout, accidents>>

(* Keys of the section get lost by hand, the cache is deleted, or the work *)
(* goes on in another checkout.                                            *)
Accident ==
  /\ operator = Idle
  /\ accidents < MaxAccidents
  /\ accidents' = accidents + 1
  /\ \/ /\ envFile' \in {[envFile EXCEPT !.ids = NoProgram], [envFile EXCEPT !.market = NoProgram],
                         [envFile EXCEPT !.asset = FALSE], [envFile EXCEPT !.derived = FALSE],
                         [envFile EXCEPT !.oracle = FALSE], NoSection}
        /\ UNCHANGED <<artifact, checkout>>
     \/ artifact' = NoSection /\ UNCHANGED <<envFile, checkout>>
     \/ checkout' \in Programs /\ UNCHANGED diskVars
  /\ UNCHANGED <<chainVars, operator>>
=============================================================================
