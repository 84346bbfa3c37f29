------------------------------- MODULE Keeper -------------------------------
(***************************************************************************)
(* The keeper process (keeper/src/main.ts): watchers, compute queue,       *)
(* workers and store, over a chain that moves by itself.  Executors are    *)
(* module ActionExecutor's; here they take a job, act or not, and write    *)
(* back the row they read after acting.                                    *)
(*                                                                         *)
(* Requests, queries and the process itself may fail, MaxFaults times; the *)
(* world moves MaxMoves times.  A process that dies is started again       *)
(* (restart: unless-stopped): memory is lost, the store is kept.           *)
(***************************************************************************)
EXTENDS PriceWatcher, PositionWatcher, LtvWorker

CONSTANTS
  MaxMoves,   \* how often the world moves; bounds the model
  MaxFaults   \* how much fails; bounds the model

ASSUME BoundAssumption == MaxMoves \in Nat /\ MaxFaults \in Nat

VARIABLES
  stage,   \* of main: "start", "priming", "running"
  echo,    \* per position: the row an executor read back and will write
  moves,   \* of the world, so far
  faults,  \* of anything, so far
  looked,  \* history: positions read by a worker since the watchers last
           \* recorded a change that concerns them
  dropped  \* history: a worker's job or a query failed, and was not retried

vars == <<chainVars, rows, pending, asked, priceVars, watchVars, worker,
          stage, echo, moves, faults, looked, dropped>>

jobs == <<pending, asked>>
process == <<jobs, priceVars, watchVars, worker, stage, echo>>
history == <<looked, dropped>>

KeeperTypeOK ==
  /\ ChainTypeOK /\ StoreTypeOK /\ JobsTypeOK
  /\ PriceTypeOK /\ WatchTypeOK /\ WorkerTypeOK
  /\ stage \in {"start", "priming", "running"}
  /\ echo \in [Positions -> Row]
  /\ moves \in 0 .. MaxMoves
  /\ faults \in 0 .. MaxFaults
  /\ looked \in SUBSET Positions
  /\ dropped \in BOOLEAN

MemoryEmpty ==
  /\ NoJobs /\ PriceIdle /\ WatchIdle /\ WorkersIdle
  /\ echo = [p \in Positions |-> Nothing]

Init ==
  /\ ChainInit /\ StoreInit /\ MemoryEmpty
  /\ stage = "start"
  /\ moves = 0 /\ faults = 0
  /\ looked = {} /\ dropped = FALSE

-----------------------------------------------------------------------------
(* main: prices are primed before anything else starts.                    *)

Boot ==
  /\ stage = "start"
  /\ stage' = "priming"
  /\ PrimePrices
  /\ UNCHANGED <<chainVars, rows, jobs, watchVars, worker, echo, moves, faults, history>>

Start ==
  /\ stage = "priming"
  /\ stage' = "running"
  /\ pending' = {PrimeRescan, BootRescan}
  /\ UNCHANGED <<chainVars, rows, asked, priceVars, watchVars, worker, echo, moves, faults, history>>

Running == stage = "running" /\ UNCHANGED stage

(* An executor's job that fails outside its try block ends the process, as *)
(* does a failure of main; and the container may be restarted.             *)
Crash ==
  /\ stage # "start"
  /\ stage' = "start"
  /\ faults < MaxFaults /\ faults' = faults + 1
  /\ pending' = {} /\ asked' = {}
  /\ lastPrice' = Nothing /\ priceTick' = [t \in PriceTicks |-> Nothing]
  /\ digests' = [p \in Positions |-> Nothing] /\ tick' = [t \in PositionTicks |-> NoTick]
  /\ worker' = [w \in Workers |-> Idle]
  /\ echo' = [p \in Positions |-> Nothing]
  /\ looked' = {} /\ dropped' = FALSE
  /\ UNCHANGED <<chainVars, rows, moves>>

Fault == Running /\ faults < MaxFaults /\ faults' = faults + 1

-----------------------------------------------------------------------------
(* Watchers.                                                               *)

PriceWatch(t) ==
  /\ Running
  /\ PriceTickBegins(t) \/ PriceTickEnds(t)
  /\ looked' = IF lastPrice' # lastPrice THEN {} ELSE looked
  /\ UNCHANGED <<chainVars, rows, asked, watchVars, worker, echo, moves, faults, dropped>>

PriceWatchFails(t) ==
  /\ Fault
  /\ PriceTickFails(t)
  /\ UNCHANGED <<chainVars, rows, asked, watchVars, worker, echo, moves, history>>

watchFrame == <<chainVars, asked, priceVars, worker, echo, moves>>

PositionWatch(t) ==
  /\ Running
  /\ \/ TickListsChain(t) /\ UNCHANGED history
     \/ TickListsStore(t) /\ UNCHANGED history
     \/ /\ TickUpserts(t)
        /\ looked' = looked \ {p \in Listed(t) : tick[t].previous[p] # tick[t].listed[p]}
        /\ UNCHANGED dropped
     \/ /\ TickDeletes(t)
        /\ dropped' = (dropped \/ \E p \in Gone(t) : account[p].open)
        /\ UNCHANGED looked
     \/ TickFetchesDigests(t, {}) /\ UNCHANGED history
     \/ /\ TickCompares(t)
        /\ looked' = {p \in looked : ~DigestChanged(tick[t], p)}
        /\ UNCHANGED dropped
  /\ UNCHANGED <<watchFrame, faults>>

PositionWatchFails(t) ==
  /\ Fault
  /\ \/ TickLosesChain(t) /\ UNCHANGED dropped
     \/ TickFetchesDigests(t, Listed(t)) /\ UNCHANGED dropped
     \/ TickLosesStore(t) /\ dropped' = TRUE
  /\ UNCHANGED <<watchFrame, looked>>

-----------------------------------------------------------------------------
(* Workers and executors.                                                  *)

Work(w) ==
  /\ Running
  /\ \/ WorkerTakes(w) /\ UNCHANGED history
     \/ WorkerLists(w) /\ UNCHANGED history
     \/ WorkerReadsRow(w) /\ UNCHANGED history
     \/ WorkerReadsRisk(w) /\ looked' = looked \union {worker[w].on} /\ UNCHANGED dropped
     \/ WorkerDecides(w) /\ UNCHANGED history
     \/ WorkerRefused(w) /\ dropped' = TRUE /\ UNCHANGED looked
  /\ UNCHANGED <<drop, priceVars, watchVars, echo, moves, faults>>

WorkFails(w) ==
  /\ Fault
  /\ WorkerFails(w)
  /\ dropped' = TRUE
  /\ UNCHANGED <<drop, priceVars, watchVars, echo, moves, looked>>

Moves == moves < MaxMoves /\ moves' = moves + 1

(* What a job may do to the chain now.                                     *)
Effect(kind, p) ==
  /\ Moves
  /\ \/ kind = "inject" /\ CanInject(p) /\ InjectCollateral(p)
     \/ kind = "withdraw" /\ CanWithdraw(p) /\ WithdrawInjected(p)
     \/ kind = "liquidate" /\ CanLiquidate(p) /\ Liquidate(p)

ExecutorActs(kind, p) ==
  /\ Running
  /\ <<kind, p>> \in asked
  /\ asked' = asked \ {<<kind, p>>}
  /\ \/ Effect(kind, p) /\ echo' = [echo EXCEPT ![p] = account'[p].injected]
     \/ UNCHANGED <<account, echo, moves>>
  /\ UNCHANGED <<drop, rows, pending, priceVars, watchVars, worker, faults, history>>

ExecutorWritesBack(p) ==
  /\ Running
  /\ echo[p] # Nothing
  /\ Upsert(echo, {p})
  /\ echo' = [echo EXCEPT ![p] = Nothing]
  /\ UNCHANGED <<chainVars, jobs, priceVars, watchVars, worker, moves, faults, history>>

-----------------------------------------------------------------------------

WorldMoves ==
  /\ Moves
  /\ World
  /\ UNCHANGED <<rows, process, faults, history>>

Next ==
  \/ Boot \/ Start \/ Crash
  \/ \E t \in PriceTicks : PriceWatch(t) \/ PriceWatchFails(t)
  \/ \E t \in PositionTicks : PositionWatch(t) \/ PositionWatchFails(t)
  \/ \E w \in Workers : Work(w) \/ WorkFails(w)
  \/ \E kind \in Kinds, p \in Positions : ExecutorActs(kind, p)
  \/ \E p \in Positions : ExecutorWritesBack(p)
  \/ WorldMoves

Spec == Init /\ [][Next]_vars

(* Timers fire, awaits settle and the container is started again.          *)
Fairness ==
  /\ WF_vars(Boot) /\ WF_vars(Start)
  /\ \A t \in PriceTicks : WF_vars(PriceWatch(t))
  /\ \A t \in PositionTicks : WF_vars(PositionWatch(t))
  /\ \A w \in Workers : WF_vars(Work(w))
  /\ \A p \in Positions : WF_vars(ExecutorWritesBack(p))

FairSpec == Spec /\ Fairness

-----------------------------------------------------------------------------
(* A worker that has still to read p's obligation, for a job it holds.     *)
WillRead(w, p) ==
  \/ worker[w].at = "list"
  \/ p \in worker[w].todo /\ ~(worker[w].at = "decide" /\ worker[w].on = p)

(* A tick that has noticed p, and has not yet asked for it.                *)
WillAsk(t, p) ==
  /\ tick[t].at \in {"stored", "digested"}
  /\ tick[t].listed[p] \notin {Nothing, tick[t].previous[p]}

(* Whatever the watchers record, a price, a row or a digest, they record   *)
(* once, and will not notice again.  So every stored position concerned    *)
(* must be read by a worker afterwards: unless a job was dropped, one is   *)
(* pending or running that still has to read it, across restarts and       *)
(* failing ticks, and however jobs are merged by their keys.               *)
RecordedChangesReach ==
  stage = "running" /\ ~dropped =>
    \A p \in StoredPositions(rows) \ looked :
      \/ pending \intersect (Rescans \union {Changed(p), Removed(p)}) # {}
      \/ \E w \in Workers : WillRead(w, p)
      \/ \E t \in PositionTicks : WillAsk(t, p)

(* The store follows the chain: once the chain is left alone, every open   *)
(* position has the row it should have, for good, whatever a tick and the  *)
(* executors had written over each other or deleted, and whatever failed.  *)
StoreCatchesUp ==
  <>[](\A p \in Positions : account[p].open => rows[p] = account[p].injected)
=============================================================================
