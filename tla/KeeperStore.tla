---------------------------- MODULE KeeperStore -----------------------------
(***************************************************************************)
(* The keeper's Postgres tables (keeper/src/store/postgres_repository.ts). *)
(* A row of keeper_positions repeats a position account; here it is the    *)
(* account's injected flag, the field the keeper branches on, or Nothing.  *)
(* A row of keeper_position_risk is written and never read back by the     *)
(* keeper; what matters is that it cannot be written for a position that   *)
(* has no row.                                                             *)
(*                                                                         *)
(* There are no transactions: every query is its own, and a row is written *)
(* over whatever is there, however old the account it was read from.       *)
(***************************************************************************)
EXTENDS KeeperChain

VARIABLE rows  \* keeper_positions

Row == BOOLEAN \union {Nothing}

StoreTypeOK == rows \in [Positions -> Row]

(* init creates the tables when they are missing, and keeps their rows:    *)
(* an earlier keeper's, perhaps of an earlier validator's accounts.        *)
StoreInit == rows \in [Positions -> Row]

(* listPositions, getPosition                                              *)
StoredPositions(table) == {p \in Positions : table[p] # Nothing}

UpsertNewer(listed, written) ==  \* mutant: a row is only ever inserted
  rows' = [p \in Positions |-> IF p \in written /\ rows[p] = Nothing THEN listed[p] ELSE rows[p]]

(* upsertPositions, for the positions that have been written before it     *)
(* failed, or for all.                                                     *)
Upsert(listed, written) ==
  rows' = [p \in Positions |-> IF p \in written THEN listed[p] ELSE rows[p]]

(* deletePositions; risk rows go with their position (ON DELETE CASCADE).  *)
Delete(positions) == rows' = [p \in Positions |-> IF p \in positions THEN Nothing ELSE rows[p]]

(* saveRiskSnapshot refuses a position that is not stored: its row         *)
(* references keeper_positions.                                            *)
CanSaveRisk(p) == rows[p] # Nothing
=============================================================================
