--------------------------- MODULE ActionExecutor ---------------------------
(***************************************************************************)
(* keeper/src/executor/action_executor.ts: the consumers of the execute    *)
(* queue, cut at the awaits where what they have read may grow stale, with *)
(* their timers, and the vault they spend.                                 *)
(*                                                                         *)
(* Of workers and watchers, which module Keeper has in full, there remains *)
(* what an executor can tell: a worker asks for what the row and a reading *)
(* of the obligation call for, and a watcher writes rows that it has read  *)
(* some time before, or deletes them.  Other keepers send the same         *)
(* transactions.                                                           *)
(*                                                                         *)
(* A vault's idle WSOL is counted in buffers: a buffer takes one, and so   *)
(* does the swap that pays a debt; a liquidation returns one.              *)
(***************************************************************************)
EXTENDS ExecuteJobs

CONSTANTS
  Executors,
  UnderwaterFrom,  \* LTV from which a position is worth less than its debt
  MaxIdle,         \* buffers in all; bounds the model
  MaxEvents,       \* how often the world moves or a fault strikes; bounds the model
  MaxAsks          \* how often each job is asked for; bounds the model

ASSUME UnderwaterAssumption == UnderwaterFrom \in Nat /\ LiquidateFrom <= UnderwaterFrom

ASSUME FiniteAssumption ==
  /\ IsFiniteSet(Executors) /\ IsFiniteSet(Positions)
  /\ MaxIdle \in Nat /\ MaxEvents \in Nat /\ MaxAsks \in Nat

VARIABLES
  idle,       \* the vault's WSOL, in buffers
  usdc,       \* the vault's USDC, in debts it can pay
  purse,      \* the keeper authority's USDC
  exec,       \* per executor: where it is, its job, the row it has read
  timers,     \* per job: setTimeouts that will enqueue it again
  listing,    \* the rows a watcher's tick has read, or Nothing
  accepted,   \* history: how often a worker's ask was accepted, per job
  owed,       \* history: jobs that were asked for and are neither done, nor
              \* moot on the chain when they were let go, nor failed with an
              \* error that is to be final
  misled,     \* history: jobs that the program would have done, let go since they
              \* were last asked for on a row or a reading that was out of date
  events      \* moves of the world and faults, so far

vaultVars == <<idle, usdc, purse>>
market == <<chainVars, vaultVars>>
asks == <<owed, misled>>
bookkeeping == <<accepted, events>>
vars == <<market, rows, asked, exec, timers, listing, asks, bookkeeping>>

Free == [at |-> "free", job |-> Nothing, row |-> Nothing]

(* The transactions: a liquidation takes two.                              *)
Steps == {"inject", "withdraw", "swap", "liquidate"}

ExecutorTypeOK ==
  /\ ChainTypeOK /\ StoreTypeOK /\ ExecuteTypeOK
  /\ idle \in 0 .. MaxIdle /\ usdc \in Nat /\ purse \in {0, 1}
  /\ \A e \in Executors :
       /\ exec[e].at \in {"free", "row", "assess", "recheck", "prefund", "settle", "store"} \union Steps
       /\ exec[e].at # "free" => exec[e].job \in Jobs
       /\ exec[e].row \in Row
  /\ timers \in [Jobs -> Nat]
  /\ listing = Nothing \/ listing \in [Positions -> Row]
  /\ accepted \in [Jobs -> 0 .. MaxAsks]
  /\ owed \in SUBSET Jobs /\ misled \in SUBSET Jobs
  /\ events \in 0 .. MaxEvents

(* In the vault, and out of it.                                            *)
Buffers == idle + Cardinality({p \in Positions : account[p].injected})

(* A keeper starts over a chain and a store that are older than it.        *)
Init ==
  /\ ChainInit /\ StoreInit
  /\ \A p \in Positions : rows[p] # Nothing <=> account[p].open
  /\ idle \in 0 .. MaxIdle /\ Buffers <= MaxIdle
  /\ usdc = 0 /\ purse \in {0, 1}
  /\ asked = {}
  /\ exec = [e \in Executors |-> Free]
  /\ timers = [job \in Jobs |-> 0]
  /\ listing = Nothing
  /\ accepted = [job \in Jobs |-> 0]
  /\ owed = {} /\ misled = {}
  /\ events = 0

Job(e) == exec[e].job
Kind(e) == Job(e)[1]
Position(e) == Job(e)[2]

Goes(e, at) == exec' = [exec EXCEPT ![e].at = at]

(* The program would do it now, whatever rows and readings say.            *)
Due(job) ==
  LET p == job[2]
  IN  /\ account[p].open
      /\ CASE job[1] = "inject"    -> CanInject(p)
           [] job[1] = "withdraw"  -> CanWithdraw(p)
           [] job[1] = "liquidate" -> CanLiquidate(p)

(* And the vault could pay for it.                                         *)
Possible(job) ==
  /\ Due(job)
  /\ job[1] # "withdraw" => idle > 0
  /\ job[1] = "liquidate" => LiveLtv(job[2]) < UnderwaterFrom

(* Copies of what the chain has: a row, and an obligation's stored values. *)
RowIsCurrent(row, p) == row = ListPositions[p]

ValuesAreCurrent(p) == account[p].valuedAt = drop

-----------------------------------------------------------------------------
(* What becomes of a job.                                                  *)

Abandons(e) ==
  /\ exec' = [exec EXCEPT ![e] = Free]
  /\ UNCHANGED timers

Retries(e) ==
  /\ exec' = [exec EXCEPT ![e] = Free]
  /\ timers' = [timers EXCEPT ![Job(e)] = @ + 1]

(* It is taken to be moot, on the word of something current or not.        *)
Ends(e, current) ==
  /\ Abandons(e)
  /\ IF Due(Job(e))
       THEN misled' = (IF current THEN misled ELSE misled \union {Job(e)}) /\ UNCHANGED owed
       ELSE owed' = owed \ {Job(e)} /\ UNCHANGED misled

GoesOn(e, at) == Goes(e, at) /\ UNCHANGED <<timers, asks>>

RetriableLiquidateOnly(kind) ==  \* mutant: an empty vault is final for an injection
  CASE kind = "inject"    -> {"no vault", "stale reserve"}
    [] kind = "withdraw"  -> {"no funds", "stale reserve"}
    [] kind = "liquidate" -> {"no vault", "no funds", "stale reserve", "calculation"}

(* isRetriableInjectError and its likes.  "other" stands for all messages  *)
(* that no list has: timeouts, lost confirmations, the program's refusals. *)
Retriable(kind) ==
  CASE kind = "inject"    -> {"no vault", "no funds", "stale reserve"}
    [] kind = "withdraw"  -> {"no funds", "stale reserve"}
    [] kind = "liquidate" -> {"no vault", "no funds", "stale reserve", "calculation"}

(* Whether the code means a failure to be the end of the job.              *)
Final(kind, error) == error = "other" \/ (kind = "withdraw" /\ error = "no vault")

(* The catch blocks of injections and withdrawals.                         *)
Caught(e, error) ==
  /\ IF error \in Retriable(Kind(e)) THEN Retries(e) ELSE Abandons(e)
  /\ owed' = IF Final(Kind(e), error) THEN owed \ {Job(e)} ELSE owed
  /\ UNCHANGED misled

(* That of liquidations: one that found the vault without USDC is first    *)
(* paid for from the authority's own.                                      *)
CaughtLiquidation(e, error) ==
  \/ error = "no usdc" /\ GoesOn(e, "prefund")
  \/ error # "no usdc" /\ Caught(e, error)

-----------------------------------------------------------------------------
(* Transactions, by what the program makes of them.                        *)

OutcomeUnchecked(step, p) ==  \* mutant: an empty vault pays all the same
  CASE step = "inject"   /\ ~CanInject(p)   -> "other"
    [] step = "withdraw" /\ ~CanWithdraw(p) -> "other"
    [] step = "swap"     /\ ~CanLiquidate(p) -> "other"
    [] OTHER -> "ok"

Outcome(step, p) ==
  CASE step = "inject"   /\ ~CanInject(p)   -> "other"
    [] step = "withdraw" /\ ~CanWithdraw(p) -> "other"
    [] step = "swap"     /\ ~CanLiquidate(p) -> "other"
    [] step \in {"inject", "swap"} /\ idle = 0 -> "no funds"
    [] step = "liquidate" /\ ~account[p].injected -> "other"
    [] step = "liquidate" /\ LiveLtv(p) >= UnderwaterFrom -> "calculation"
    [] step = "liquidate" /\ usdc = 0 -> "no usdc"
    [] step = "liquidate" /\ account[p].load = 0 -> "other"
    [] OTHER -> "ok"

Effect(step, p) ==
  \/ step = "inject" /\ InjectCollateral(p) /\ idle' = idle - 1 /\ UNCHANGED usdc
  \/ step = "withdraw" /\ WithdrawInjected(p) /\ idle' = idle + 1 /\ UNCHANGED usdc
  \/ step = "swap" /\ LiquidateSwap(p) /\ idle' = idle - 1 /\ usdc' = usdc + 1
  \/ step = "liquidate" /\ Liquidate(p) /\ idle' = idle + 1 /\ usdc' = 0

Submits(e, next) ==
  /\ Outcome(exec[e].at, Position(e)) = "ok"
  /\ Effect(exec[e].at, Position(e))
  /\ Goes(e, next)
  /\ owed' = IF next = "settle" THEN owed \ {Job(e)} ELSE owed
  /\ UNCHANGED <<timers, misled>>

Refused(e) == Outcome(exec[e].at, Position(e)) # "ok" /\ UNCHANGED <<account, idle, usdc>>

-----------------------------------------------------------------------------
(* A job, up to where the kinds part.                                      *)

Takes(e) ==
  /\ exec[e].at = "free"
  /\ \E job \in asked :
       /\ asked' = asked \ {job}
       /\ exec' = [exec EXCEPT ![e] = [Free EXCEPT !.at = "row", !.job = job]]
  /\ UNCHANGED <<market, rows, timers, listing, asks>>

(* Mutant: as if only positions without a buffer had work left.            *)
SkipsInjected(kind, row) ==
  \/ row = Nothing
  \/ kind # "liquidate" /\ row
  \/ kind = "liquidate" /\ ~row

Skips(kind, row) ==
  \/ row = Nothing
  \/ kind = "inject" /\ row
  \/ kind = "liquidate" /\ ~row

(* getPosition.  A job is moot when the row is gone or says that it is     *)
(* already done; a withdrawal when there is nothing to withdraw, which it  *)
(* finds out later.                                                        *)
ReadsRow(e) ==
  LET row == rows[Position(e)]
  IN  /\ exec[e].at = "row"
      /\ IF Skips(Kind(e), row)
           THEN Ends(e, RowIsCurrent(row, Position(e)))
           ELSE /\ exec' = [exec EXCEPT ![e].at = "assess", ![e].row = row]
                /\ UNCHANGED <<timers, asks>>
      /\ UNCHANGED <<market, rows, asked, listing>>

At(e, at, kind) == exec[e].at = at /\ Kind(e) = kind

aside == <<drop, purse, rows, asked, listing>>

-----------------------------------------------------------------------------
(* Injections.  A failure to save or read back is logged, and no more.     *)

AssessesInjection(e) ==
  /\ At(e, "assess", "inject")
  /\ GoesOn(e, "recheck")
  /\ UNCHANGED <<market, rows, asked, listing>>

(* The last look before an injection, at an obligation that the refresh    *)
(* has reached or has not.  When it cannot be saved, or fails, the         *)
(* injection goes on.                                                      *)
RechecksInjection(e, lands) ==
  LET p == Position(e)
      ltv == IF lands THEN LiveLtv(p) ELSE FetchPositionRisk(p)
  IN  /\ exec[e].at = "recheck"
      /\ IF lands THEN RefreshObligation(p) ELSE UNCHANGED account
      /\ IF ltv <= InjectAbove /\ CanSaveRisk(p)
           THEN Ends(e, lands \/ ValuesAreCurrent(p))
           ELSE GoesOn(e, "inject")
      /\ UNCHANGED <<drop, vaultVars, rows, asked, listing>>

SendsInjection(e) ==
  /\ exec[e].at = "inject"
  /\ \/ Submits(e, "settle")
     \/ Refused(e) /\ Caught(e, Outcome("inject", Position(e)))
  /\ UNCHANGED aside

(* The account is read back, after one more refresh, which lands or not.   *)
ReadsBack(e, lands) ==
  /\ exec' = [exec EXCEPT ![e].at = "store", ![e].row = account[Position(e)].injected]
  /\ IF lands THEN RefreshObligation(Position(e)) ELSE UNCHANGED account
  /\ UNCHANGED <<timers, asks>>

SettlesInjection(e, lands) ==
  /\ At(e, "settle", "inject")
  /\ ReadsBack(e, lands)
  /\ UNCHANGED <<idle, usdc, aside>>

-----------------------------------------------------------------------------
(* Withdrawals.                                                            *)

(* The values a withdrawal is weighed with are those stored in the         *)
(* obligation: nothing is refreshed before.                                *)
WithdrawPrecheck(e) ==
  /\ exec[e].row
  /\ LET p == Position(e) IN Ltv(account[p].load, account[p].valuedAt, FALSE) < WithdrawUpTo

AssessesWithdrawal(e) ==
  /\ At(e, "assess", "withdraw")
  /\ IF ~CanSaveRisk(Position(e)) THEN Caught(e, "other")
     ELSE IF WithdrawPrecheck(e) THEN GoesOn(e, "withdraw")
     ELSE Ends(e, RowIsCurrent(exec[e].row, Position(e)) /\ ValuesAreCurrent(Position(e)))
  /\ UNCHANGED <<market, rows, asked, listing>>

SendsWithdrawal(e) ==
  /\ exec[e].at = "withdraw"
  /\ \/ Submits(e, "settle")
     \/ Refused(e) /\ Caught(e, Outcome("withdraw", Position(e)))
  /\ UNCHANGED aside

(* The risk afterwards is saved, if the row is still there.                *)
SettlesWithdrawal(e, lands) ==
  /\ At(e, "settle", "withdraw")
  /\ IF CanSaveRisk(Position(e)) THEN ReadsBack(e, lands)
     ELSE Caught(e, "other") /\ UNCHANGED account
  /\ UNCHANGED <<idle, usdc, aside>>

-----------------------------------------------------------------------------
(* Liquidations: two transactions, a swap of WSOL and then the payment.    *)

AssessesLiquidation(e) ==
  /\ At(e, "assess", "liquidate")
  /\ IF CanSaveRisk(Position(e)) /\ HasBorrowReserve(Position(e))
       THEN GoesOn(e, "swap")
       ELSE CaughtLiquidation(e, "other")
  /\ UNCHANGED <<market, rows, asked, listing>>

SendsSwap(e) ==
  /\ exec[e].at = "swap"
  /\ \/ Submits(e, "liquidate")
     \/ Refused(e) /\ CaughtLiquidation(e, Outcome("swap", Position(e)))
  /\ UNCHANGED aside

SendsLiquidation(e) ==
  /\ exec[e].at = "liquidate"
  /\ \/ Submits(e, "settle")
     \/ Refused(e) /\ CaughtLiquidation(e, Outcome("liquidate", Position(e)))
  /\ UNCHANGED aside

SettlesLiquidation(e, lands) ==
  /\ At(e, "settle", "liquidate")
  /\ IF CanSaveRisk(Position(e)) THEN ReadsBack(e, lands)
     ELSE CaughtLiquidation(e, "other") /\ UNCHANGED account
  /\ UNCHANGED <<idle, usdc, aside>>

(* prefundVaultDebtFromAuthority sends all the authority has, or nothing.  *)
PrefundVaultDebt == usdc' = usdc + purse /\ purse' = 0

PrefundsTwice(e) ==  \* mutant: goes on to the other retry
  /\ exec[e].at = "prefund"
  /\ PrefundVaultDebt
  /\ exec' = [exec EXCEPT ![e] = Free]
  /\ timers' = [timers EXCEPT ![Job(e)] = @ + 2 * purse]
  /\ owed' = IF purse > 0 THEN owed ELSE owed \ {Job(e)}
  /\ UNCHANGED <<chainVars, idle, rows, asked, listing, misled>>

Prefunds(e) ==
  /\ exec[e].at = "prefund"
  /\ PrefundVaultDebt
  /\ IF purse > 0 THEN Retries(e) ELSE Abandons(e)
  /\ owed' = IF purse > 0 THEN owed ELSE owed \ {Job(e)}
  /\ UNCHANGED <<chainVars, idle, rows, asked, listing, misled>>

-----------------------------------------------------------------------------

WritesBack(e) ==
  /\ exec[e].at = "store"
  /\ Upsert([p \in Positions |-> exec[e].row], {Position(e)})
  /\ exec' = [exec EXCEPT ![e] = Free]
  /\ UNCHANGED <<market, asked, timers, listing, asks>>

Executes(e) ==
  /\ \/ Takes(e) \/ ReadsRow(e)
     \/ AssessesInjection(e) \/ SendsInjection(e)
     \/ AssessesWithdrawal(e) \/ SendsWithdrawal(e)
     \/ AssessesLiquidation(e) \/ SendsSwap(e) \/ SendsLiquidation(e) \/ Prefunds(e)
     \/ \E lands \in BOOLEAN :
          \/ RechecksInjection(e, lands) \/ SettlesInjection(e, lands)
          \/ SettlesWithdrawal(e, lands) \/ SettlesLiquidation(e, lands)
     \/ WritesBack(e)
  /\ UNCHANGED bookkeeping

TimerFires(job) ==
  /\ timers[job] > 0
  /\ timers' = [timers EXCEPT ![job] = @ - 1]
  /\ asked' = asked \union {job}
  /\ UNCHANGED <<market, rows, exec, listing, asks, bookkeeping>>

-----------------------------------------------------------------------------
(* Faults.                                                                 *)

Event == events < MaxEvents /\ events' = events + 1

(* A request fails, or a transaction does without reaching the program,    *)
(* or reaches it and is reported as failed.  While an injection is         *)
(* rechecked or settled, that is ignored.                                  *)
Falters(e) ==
  LET step == exec[e].at
      p == Position(e)
  IN  /\ Event /\ UNCHANGED accepted
      /\ \/ /\ step \in {"assess", "settle", "store"} \union Steps
            /\ \E error \in {"other", "no vault", "stale reserve"} :
                 /\ error = "no vault" => step = "assess"
                 /\ error = "stale reserve" => step \in Steps
                 /\ Caught(e, error)
            /\ UNCHANGED <<account, idle, usdc, purse>>
         \/ /\ step \in Steps
            /\ Outcome(step, p) = "ok"
            /\ Effect(step, p)
            /\ Caught(e, "other")
            /\ UNCHANGED purse
         \/ /\ step = "recheck"
            /\ GoesOn(e, "inject")
            /\ UNCHANGED <<account, idle, usdc, purse>>
         \/ /\ step = "prefund"
            /\ PrefundVaultDebt \/ UNCHANGED <<usdc, purse>>
            /\ CaughtLiquidation(e, "other")
            /\ UNCHANGED <<account, idle>>
      /\ UNCHANGED <<drop, rows, asked, listing>>

Live(job) ==
  \/ job \in asked
  \/ timers[job] > 0
  \/ \E e \in Executors : exec[e].at \notin {"free", "settle", "store"} /\ Job(e) = job

(* The process ends, as it does when getPosition fails, outside the try    *)
(* blocks: queue and timers are gone, and the executors with them.         *)
Dies ==
  /\ Event
  /\ asked' = {} /\ listing' = Nothing
  /\ exec' = [e \in Executors |-> Free]
  /\ timers' = [job \in Jobs |-> 0]
  /\ accepted' = [job \in Jobs |-> 0]
  /\ owed' = {} /\ misled' = {}
  /\ UNCHANGED <<market, rows>>

-----------------------------------------------------------------------------
(* The others.                                                             *)

(* enqueue, by a worker whose refresh has reached the obligation or not.   *)
WorkerAsks(p, lands) ==
  LET ltv == IF lands THEN LiveLtv(p) ELSE FetchPositionRisk(p)
  IN  /\ rows[p] # Nothing
      /\ IF lands THEN RefreshObligation(p) ELSE UNCHANGED account
      /\ \E kind \in Wanted(rows[p], ltv) :
           /\ <<kind, p>> \notin asked
           /\ accepted[<<kind, p>>] < MaxAsks
           /\ accepted' = [accepted EXCEPT ![<<kind, p>>] = @ + 1]
           /\ asked' = asked \union {<<kind, p>>}
           /\ owed' = owed \union {<<kind, p>>} /\ misled' = misled \ {<<kind, p>>}
      /\ UNCHANGED <<drop, vaultVars, rows, exec, timers, listing, events>>

WatcherLists ==
  /\ listing = Nothing
  /\ listing' = ListPositions
  /\ UNCHANGED <<market, rows, asked, exec, timers, asks, bookkeeping>>

WatcherUpserts ==
  /\ listing # Nothing
  /\ Upsert(listing, StoredPositions(listing))
  /\ listing' = Nothing
  /\ UNCHANGED <<market, asked, exec, timers, asks, bookkeeping>>

(* By a tick that began before the position was opened.                    *)
WatcherDeletes(p) ==
  /\ Event /\ UNCHANGED accepted
  /\ rows[p] # Nothing
  /\ Delete({p})
  /\ UNCHANGED <<market, asked, exec, timers, listing, asks>>

WorldMoves ==
  /\ Event /\ UNCHANGED accepted
  /\ \/ World /\ UNCHANGED vaultVars
     \/ \E step \in Steps, p \in Positions :
          /\ Outcome(step, p) = "ok"
          /\ Effect(step, p)
          /\ UNCHANGED <<drop, purse>>
     \/ \* a depositor's tokens
        /\ Buffers < MaxIdle /\ idle' = idle + 1
        /\ UNCHANGED <<chainVars, usdc, purse>>
     \/ \* the liquidation of a position not among these
        /\ usdc > 0 /\ usdc' = 0
        /\ UNCHANGED <<chainVars, idle, purse>>
  /\ UNCHANGED <<rows, asked, exec, timers, listing, asks>>

Next ==
  \/ \E e \in Executors : Executes(e) \/ Falters(e)
  \/ \E job \in Jobs : TimerFires(job)
  \/ Dies
  \/ \E p \in Positions :
       \/ \E lands \in BOOLEAN : WorkerAsks(p, lands)
       \/ WatcherDeletes(p)
  \/ WatcherLists \/ WatcherUpserts
  \/ WorldMoves

Spec == Init /\ [][Next]_vars

(* Awaits settle and timers fire.  Nothing else has to happen.             *)
Fairness ==
  /\ \A e \in Executors : WF_vars(Executes(e))
  /\ \A job \in Jobs : WF_vars(TimerFires(job))

FairSpec == Spec /\ Fairness

-----------------------------------------------------------------------------
Held(job) == Cardinality({e \in Executors : exec[e].at # "free" /\ Job(e) = job})

Copies(job) == Held(job) + timers[job] + (IF job \in asked THEN 1 ELSE 0)

(* A job that fails comes back once: through the prefunded retry or the    *)
(* ordinary one, the retries of a job never outnumber the times a worker   *)
(* asked for it.  (They may be as many: a worker's ask is accepted while a *)
(* retry waits for its timer.)                                             *)
RetriesDoNotMultiply == \A job \in Jobs : Copies(job) <= accepted[job]

(* No ask is lost on the way.  While the process lives, a job that was     *)
(* asked for is queued, held by an executor or waiting for a timer until   *)
(* it is done, an executor lets it go that the program would refuse, or it *)
(* fails with an error that no list of retriable ones has; in particular   *)
(* it is when it failed because the vault was empty.  One thing only loses *)
(* a job that the program would still do: what the executor went by, a row *)
(* or stored values, was not what the chain had.  That does happen.        *)
AsksAreKept == \A job \in owed : Live(job) \/ job \in misled

(* And retries come to an end: a job that nothing stale has lost does not  *)
(* stay asked for and possible for ever, whatever other jobs, ticks,       *)
(* keepers and faults did meanwhile.                                       *)
AskedGetsDone == \A job \in Jobs : []<>~(job \in owed \ misled /\ Possible(job))
=============================================================================
