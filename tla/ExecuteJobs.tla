---------------------------- MODULE ExecuteJobs -----------------------------
(***************************************************************************)
(* The jobs that pass from workers to executors (keeper/src/types.ts), by  *)
(* their dedupe keys.  A queue is the set of its pending keys, as module   *)
(* DedupQueue is shown to implement WorkSet: a key that is pending is      *)
(* refused, and is free again once its job is taken.                       *)
(***************************************************************************)
EXTENDS KeeperStore

VARIABLE asked  \* pending execute jobs

Kinds == {"inject", "withdraw", "liquidate"}

Jobs == Kinds \X Positions

ExecuteTypeOK == asked \in SUBSET Jobs

(* The action that a snapshot calls for, by the row's flag: at most one.   *)
Wanted(row, ltv) ==
  IF row
    THEN IF ltv >= LiquidateFrom THEN {"liquidate"}
         ELSE IF ltv <= WithdrawUpTo THEN {"withdraw"} ELSE {}
    ELSE IF ltv > InjectAbove THEN {"inject"} ELSE {}
=============================================================================
