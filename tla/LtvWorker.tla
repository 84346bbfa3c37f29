----------------------------- MODULE LtvWorker ------------------------------
(***************************************************************************)
(* keeper/src/worker/ltv_worker.ts: the consumers of the compute queue.  A *)
(* job is one position or a rescan of all that are stored; a position is   *)
(* recomputed from the row in the store and from the obligation, which are *)
(* read one after the other.                                               *)
(***************************************************************************)
EXTENDS KeeperJobs

CONSTANT Workers

VARIABLE worker  \* per worker: where it is and what it has read

Idle == [at |-> "free", todo |-> {}, on |-> Nothing, row |-> Nothing, ltv |-> 0]

WorkerTypeOK ==
  /\ \A w \in Workers :
       /\ worker[w].at \in {"free", "list", "row", "risk", "decide"}
       /\ worker[w].todo \in SUBSET Positions
       /\ worker[w].at \in {"risk", "decide"} => worker[w].on \in Positions /\ worker[w].row \in BOOLEAN
       /\ worker[w].ltv \in Int

WorkersIdle == worker = [w \in Workers |-> Idle]

Resume(w, k) == worker' = [worker EXCEPT ![w] = k]

(* The rest of the job, or the next one.                                   *)
Done(w, p) ==
  LET left == worker[w].todo \ {p}
  IN  Resume(w, IF left = {} THEN Idle ELSE [Idle EXCEPT !.at = "row", !.todo = left])

-----------------------------------------------------------------------------

WorkerTakes(w) ==
  /\ worker[w].at = "free"
  /\ \E job \in pending :
       /\ pending' = pending \ {job}
       /\ Resume(w, IF job[2] \in Positions
                      THEN [Idle EXCEPT !.at = "row", !.todo = {job[2]}]
                      ELSE [Idle EXCEPT !.at = "list"])
  /\ UNCHANGED <<account, rows, asked>>

WorkerLists(w) ==
  /\ worker[w].at = "list"
  /\ LET all == StoredPositions(rows)
     IN  Resume(w, IF all = {} THEN Idle ELSE [Idle EXCEPT !.at = "row", !.todo = all])
  /\ UNCHANGED <<account, rows, pending, asked>>

WorkerTrustsKey(w) ==  \* mutant: the row of a key is taken to be there
  /\ worker[w].at = "row"
  /\ \E p \in worker[w].todo :
       Resume(w, [worker[w] EXCEPT !.at = "risk", !.on = p, !.row = rows[p]])
  /\ UNCHANGED <<account, rows, pending, asked>>

WorkerReadsRow(w) ==
  /\ worker[w].at = "row"
  /\ \E p \in worker[w].todo :
       IF rows[p] = Nothing
         THEN Done(w, p)
         ELSE Resume(w, [worker[w] EXCEPT !.at = "risk", !.on = p, !.row = rows[p]])
  /\ UNCHANGED <<account, rows, pending, asked>>

(* getRefreshedPositionRiskSnapshot sends the refresh and does not wait    *)
(* for it: it lands before the obligation is read, or after, or never.     *)
ReadsRisk(w, lands) ==
  LET p == worker[w].on
  IN  /\ worker[w].at = "risk"
      /\ IF lands = "never" THEN UNCHANGED account ELSE RefreshObligation(p)
      /\ Resume(w, [worker[w] EXCEPT
           !.at = "decide",
           !.ltv = IF lands = "before" THEN LiveLtv(p) ELSE FetchPositionRisk(p)])
      /\ UNCHANGED <<rows, pending, asked>>

WorkerReadsRisk(w) == \E lands \in {"before", "after", "never"} : ReadsRisk(w, lands)

WorkerDecides(w) ==
  LET p == worker[w].on
  IN  /\ worker[w].at = "decide"
      /\ CanSaveRisk(p)
      /\ asked' = asked \union (Wanted(worker[w].row, worker[w].ltv) \X {p})
      /\ Done(w, p)
      /\ UNCHANGED <<account, rows, pending>>

(* A request or a query fails, or the snapshot is refused because the      *)
(* position's row is gone: the job is logged and over, with all of a       *)
(* rescan that is left.                                                    *)
WorkerRefused(w) ==
  /\ worker[w].at = "decide"
  /\ ~CanSaveRisk(worker[w].on)
  /\ Resume(w, Idle)
  /\ UNCHANGED <<account, rows, pending, asked>>

WorkerFails(w) ==
  /\ worker[w].at # "free"
  /\ Resume(w, Idle)
  /\ UNCHANGED <<account, rows, pending, asked>>
=============================================================================
