----------------------------- MODULE KeeperJobs -----------------------------
(***************************************************************************)
(* The jobs that pass from watchers to workers (keeper/src/types.ts), by   *)
(* their dedupe keys.                                                      *)
(***************************************************************************)
EXTENDS ExecuteJobs

VARIABLE pending  \* pending compute jobs

BootRescan  == <<"full_rescan", "boot">>
PrimeRescan == <<"full_rescan", "price_prime">>
PriceRescan == <<"price_changed", "reserve">>
Rescans     == {BootRescan, PrimeRescan, PriceRescan}

Changed(p) == <<"position_changed", p>>
Removed(p) == <<"position_removed", p>>

(* A position is named by its public key, which no other key of a job is.  *)
ASSUME KeyAssumption == {"boot", "price_prime", "reserve"} \intersect Positions = {}

ComputeJobs == Rescans \union {Changed(p) : p \in Positions} \union {Removed(p) : p \in Positions}

JobsTypeOK == pending \in SUBSET ComputeJobs /\ ExecuteTypeOK

NoJobs == pending = {} /\ asked = {}
=============================================================================
