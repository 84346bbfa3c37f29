# Cushion, in TLA+

Cushion keeps a lending vault beside a lending market. Depositors fund the vault; when a borrower's
position gets close to liquidation, the vault lends it a *buffer* of collateral, and takes it back
with interest when the position has recovered. When it does not recover, Cushion liquidates the
position itself. An off-chain *keeper* watches prices and positions and calls the program; TypeScript
clients build the users' transactions; scripts deploy the whole and drive its price on devnet.

This directory holds TLA+ models of that system, TLC configurations that check them on small
instances, and TLAPS proofs about them. Paths below are relative to `src/`.

## 1. Inventory

| Component | Where | State | Operations |
|---|---|---|---|
| Lending vault | `programs/cushion/src/handlers/vault/liquidity.rs`, `managers/vault_manager_v1.rs`, `math/vault_shares.rs`, `state/vault.rs`, `handlers/admin/init.rs` | vault account, share mint, idle token account | `init_vault`, `deposit`, `mint`, `redeem`, `withdraw` |
| Buffer | `handlers/vault/position_ops/{inject,withdraw}_collateral.rs`, `math/{inject,withdraw,interest,health_factor}.rs` | `position.injected`, `injected_amount`, `vault.accumulated_interest`, `interest_last_updated` | `inject_collateral`, `withdraw_injected_collateral` |
| Liquidation | `position_ops/liquidate{_swap,_swap_admin,}.rs`, `cpi/{orca_swap,liquidate_klend}.rs` | the vault's USDC account | `liquidate_swap`, `admin_liquidate_swap`, `liquidate` |
| Borrower instructions | `handlers/obligation/{collateral,debt}`, `cpi/*_klend.rs` | the Kamino obligation | `increase_collateral`, `decrease_collateral`, `borrow_asset`, `increase_debt`, `repay_debt` |
| Kamino stand-in | `programs/klend_mock/src/lib.rs` | obligations, reserves, oracle | deposits, withdrawals, borrows, repayments, refreshes |
| Vault price | `utils/pyth.rs`, `handlers/admin/params.rs` | `vault.market_price` | `update_market_price` |
| Position creation, registry | `handlers/obligation/init_position.rs`, `handlers/position_registry`, `registry` | position accounts, registry counter | `init_position`, `insure_existing_position`, `init_position_registry` |
| Protocol configuration | `state/protocol_config.rs`, `handlers/admin/protocol_config.rs` | mode, program ids, frozen flag | `init`, `update`, `freeze` |
| Account validation | `handlers/obligation/{klend_obligation,position_auth,reserve_guard}.rs` | none | checks in front of every instruction |
| Keeper queue | `keeper/src/queue/dedup_queue.ts` | items, keys, waiters | `enqueue`, `dequeue` |
| Keeper watchers | `keeper/src/watchers` | last prices, digests of obligations | `tick` |
| Keeper LTV worker | `keeper/src/worker/ltv_worker.ts` | none of its own | recompute one position, rescan by price or vault |
| Keeper executor | `keeper/src/executor/action_executor.ts`, `keeper/src/chain` | retry timers | inject, withdraw, liquidate branches |
| Keeper store | `keeper/src/store` | positions, prices, vaults in Postgres | upserts and queries |
| Clients | `web/src/sdk` (vault, position, collateral and debt domains, the Kamino resolver) | what was read and what a wallet holds | quotes, builders of transactions, shown risk |
| Deployment scripts | `sdk/scripts/bootstrapKlendMock.ts`, `init*.ts`, `verifyDevnetReady.ts`, `scripts/deploy-environment.sh`, `scripts/devnet-ready-gate.sh` | accounts, `.env`, the artifact in `sdk/.cache` | bootstrap, configure, register, open the vault, verify |
| Price simulation | `sdk/scripts/simulateMockPriceCycle.ts` | the stand-in's SOL price | a target per stage, nudges while liquidating |

How they interact:

* An instruction is one Solana transaction. It runs alone, and any failed check undoes all of it.
  Between transactions there is no order at all: `inject_collateral`, `withdraw_injected_collateral`,
  `liquidate_swap`, `liquidate` and `update_market_price` may be sent by anybody, borrowers and
  depositors act when they like, prices move on their own.
* The vault's idle token account is shared by depositors and position instructions; the vault's
  USDC account and its interest index are shared by all positions. These are where components meet.
* Every position instruction refreshes the Kamino obligation before it reads it, so obligation
  values are those of the reserve's price at that moment. The vault's own price is separate, and
  sizes the injection and the collateral that a liquidation takes.
* A liquidation is two transactions. Nothing on the position says the first has happened.
* The keeper's watchers feed a deduplicating queue, its worker writes the store and enqueues jobs
  for the executor, and the executor sends transactions and reads accounts back. Watchers, worker
  and executor share the store without locks, across `await`s.
* A client reads the chain, builds a transaction from what it read and hands it to a wallet. What it
  built meets another state when it lands.
* The deployment scripts run one after the other over a chain that keeps what earlier runs have
  made, and over two files that a person may lose or carry from another checkout.

What is hard, and what makes each part correct:

* *Vault*: integer rounding in four conversions, under any interleaving. The price of a share never
  falls, no claim exceeds what is managed, no round trip pays, and token movements behind the
  depositors' backs change nothing of this.
* *Buffer*: two thresholds of one ratio, a global interest index that any withdrawal moves, u64 and
  u128 limits. A buffer stays in its position until it is returned, at least the principal returns,
  and the two thresholds do not chatter.
* *Liquidation*: the gap between its transactions, in which debt, price and the shared USDC change.
* *Borrower instructions*: they must leave a margin to liquidation, and must not take the buffer.
* *Keeper*: stale reads written back, changes lost between a tick and its processing, a failed job
  that is dropped, retries of something half done, a restart that forgets what had been seen. What a
  watcher records must reach a worker, what a worker asks for must not get lost by anything but
  out-of-date data, and retries must not multiply.
* *Clients*: a second implementation of the vault's arithmetic; lists of reserves and token accounts
  that are stale when the transaction lands; a shown maximum that another formula decides on.
* *Deployment*: scripts that die anywhere and are run again, transfers that land and are reported
  as failed, files that disagree with the chain. A gate that passes must mean what it says.

`PROJECT.json` lists every hazard with its line and the properties that watch it.

## 2. Plan

Every step of the plan is done. The order, each module extending the ones before it:

1. `CheckedMath`, `VaultShares`, `CushionVault`: the vault alone.
2. `LtvMath`, `Klend`, `Cushion`: the whole program, with `CushionVault` both as its vault and as its
   abstract specification.
3. `WorkSet`, `DedupQueue`: the keeper's queue, and the set of pending keys it implements.
4. `KeeperChain`, `KeeperStore`, `ExecuteJobs`, `KeeperJobs`, `PriceWatcher`, `PositionWatcher`,
   `LtvWorker`, `Keeper`: the keeper's process with its faults and restarts.
5. `ActionExecutor`: the executors with their retries, against a vault that runs dry.
6. `VaultClient`, `PositionClient`: the clients over the program.
7. `DeployChain`, `Bootstrap`, `ReadyGate`, `Deployment`: the scripts, and the vault they open.
8. `PriceCycle`: the price simulation, over every state of the program.

and a `…Proofs` module beside `CushionVault`, `Cushion`, `DedupQueue`, `Keeper`, `PositionClient`,
`Deployment` (with `VaultClient`), `PriceCycle` and `ActionExecutor`.

The keeper is two models and not one. The program's arithmetic and the keeper's interleavings
multiply out of TLC's reach, and they meet in few facts: whether a position is past a threshold and
whether the vault can pay. So the keeper's chain (`KeeperChain`) counts prices, debts and the relief
of a buffer in levels, and keeps what the keeper's races turn on, that an obligation's values are
those of its last refresh. Watchers and workers (`Keeper`) leave of an executor that it acts and
writes a row back; executors (`ActionExecutor`) leave of watchers and workers that they ask, and
write or delete rows.

## 3. Modules and the code

### The program

`CheckedMath`: Rust's checked integers. An operator that computes returns the *set* of its results,
a singleton or `{}` for an error, so that `\E amount \in SomeAmount(...)` in an action is the `?` of
the handler: no result, no transaction. Widths are constants.

`VaultShares`: `math/vault_shares.rs`, the four conversions and the one-to-one case of an empty vault.

`CushionVault`: the vault account, the share mint, the users' accounts and the idle account. One
action per instruction, with all of its checks as guards. `MoveIdle` stands for whatever position
instructions, or anybody's direct transfer, do to the idle account; `BurnOwnShares` for a holder
who burns shares at the token program.

`Klend`: the repository's Kamino stand-in for one SOL deposit and one USDC debt per position. A
withdrawal takes the tokens and books what it can (saturating subtraction), as the stand-in does.

`LtvMath`: the thresholds, the size of a buffer, the interest index, what a withdrawal returns.

`Cushion`: the program. State: the vault's variables, `collateral` and `debt` per position,
`injected` and `injectedAmount`, the borrowers' wallets, `vaultUsdc`, the two prices, the index and
the clock since its last update.

| Action | Handler |
|---|---|
| `Inject` | `inject_collateral_handler` |
| `WithdrawInjected` | `withdraw_injected_collateral_handler` |
| `LiquidateSwap`, `AdminLiquidateSwap`, `Liquidate` | `liquidate_swap_handler`, `admin_liquidate_swap_handler`, `liquidate_handler` |
| `IncreaseCollateral`, `DecreaseCollateral` | the handlers of these names |
| `BorrowAsset` | `borrow_asset_handler` and `increase_debt_handler`, whose checks are the same |
| `RepayDebt` | `repay_handler` |
| `UpdateMarketPrice` | `refresh_market_price` |
| `MarketMoves`, `ClockTicks` | the world: the reserve's price, the clock |
| `DepositorActs` | the four liquidity instructions and `BurnOwnShares` |

Abstractions. `reservePrice` is the price stored in the reserve, so an instruction on a stale oracle
is one that happens before `MarketMoves`. USDC is at par and a debt is kept as its value, as the
stand-in stores it. The clock is kept only as its distance from `interest_last_updated`, in ticks of
which `Year` make a year. The Orca pool pays anything that meets `min_usdc_out`. The market's own
liquidity does not run out. `update_market_price` takes its feed id from the caller and accepts
updates up to 347 days old, so it may set any price. `market_price_last_updated` is written and never
read, and is left out. Account constraints, signers and PDA derivations are taken as met.

### The keeper

`WorkSet`: what the keeper's queue promises. A key is pending or not, leaves the set only into the
hands of one idle consumer, and a new key reaches a consumer at once only when nothing is pending.

`DedupQueue`: `queue/dedup_queue.ts` and the `run()` loops of its consumers. `Enqueue` is `HandOver`
(the oldest waiter's callback, which deletes the key `enqueue` has just added) or `Push`; `Dequeue` is
`DequeueImmediate` or `DequeueWaiting`; `Finish` is the end of a job, `Stop` is `shutdown()`. One
callback of JavaScript is one step, and consumers interleave at their `await`s. A payload is a
function of its key as far as the queue can tell, so a job is its key; a refused `enqueue` changes
nothing and is a stutter. `Enqueue` may happen at any time for any key: watchers, workers and the
executor's retry timers all call it. A consumer told to stop while it sleeps in `dequeue` still takes
the next job, as in the code. The other keeper modules use the queue as `WorkSet` has it: a set.

`KeeperChain` (`keeper/src/chain`): per position, whether it is open, whether a buffer is injected, its
`load` and the price level its obligation was last valued at; `LiveLtv` is what a transaction finds,
`FetchPositionRisk` what a read of the stored obligation says. `KeeperStore`: the rows, each query one
step; a row is the `injected` flag, or absent, and a risk row cannot be written without it.

`PriceWatcher`, `PositionWatcher`: a tick is cut at each `await`, so other ticks, workers and executors
run inside it. `TickListsChain`, `TickListsStore`, `TickUpserts`, `TickDeletes`, `TickFetchesDigests`,
`TickCompares` are its stages; `TickLosesChain` and `TickLosesStore` its failures, an upsert that fails
having written some of the rows. `LtvWorker`: `WorkerTakes`, `WorkerLists` (a rescan),
`WorkerReadsRow`, `WorkerReadsRisk` (the refresh it sends lands before the read, after it or never),
`WorkerDecides`; `WorkerRefused` and `WorkerFails` end the whole job, as the loop's catch does.

`Keeper` (`keeper/src/main.ts`): these together. `Boot` primes the prices, `Start` starts the loops with
the two boot rescans, `Crash` forgets the memory and keeps the store. `echo` is the row that an
executor has read back and will write. `looked` and `dropped` are history variables: which positions a
worker has read since a watcher recorded a change about them, and whether a job was lost to an error
that nothing retries.

`ActionExecutor` (`executor/action_executor.ts`): a job goes `Takes`, `ReadsRow`, then by kind
`AssessesInjection`, `RechecksInjection`, `SendsInjection`, `SettlesInjection`, or
`AssessesWithdrawal`, `SendsWithdrawal`, `SettlesWithdrawal`, or `AssessesLiquidation`, `SendsSwap`,
`SendsLiquidation`, `SettlesLiquidation`, and at last `WritesBack`. Every one ends in going on, in
`Ends` (the job is taken to be moot), or in a catch block, `Caught` or `CaughtLiquidation`, with the
lists of retriable errors; `Prefunds` is the detour of a liquidation that found the vault without
USDC. `TimerFires` is `setTimeout`'s callback. `Falters` is a request that fails, or a transaction that
fails before the program, or that succeeds and is reported as failed; `Dies` the process that ends.
`owed` and `misled` are history variables. A job is owed from the moment a worker asks for it until it is
done, is let go when the program would refuse it (`Due`, which looks at the chain alone), or fails with an
error in no list of retriable ones. It is in `misled` when it was let go although it was `Due`, because the
row it was judged by was not the chain's (`RowIsCurrent`) or the stored values were of an earlier price
(`ValuesAreCurrent`); an `Ends` whose data was current puts nothing there. `Possible` is `Due` with a vault that
can pay.

### Clients, deployment, simulation

`VaultClient`: the client's four quotes in integers without width, and its builders, which add checks
in front of the program's. `PositionClient`: opening a position, building a transaction from what is
read (`BuildsTx`), its landing (`SendsTx`), being dropped (`DropsTx`), and the same owner's second
window (`ActsAtOnce`); `AccountsAccepted` is what the program demands of reserve lists and token
accounts, `RepayValue` what it makes of the largest u64, `MaxSafeLtvShown` what the client shows.

`DeployChain`: accounts by the program they were made under, the section of `.env`, the artifact, the
operator and the script that runs; `Dies` may end a script after any call, `Accident` loses keys or the
cache or changes the checkout. A section keeps the program its ids and its market belong to and which groups of
keys it has: those of the assets, those read from the reserves (`derived`), and the mock's oracle, which
bootstrap publishes (`OutputEntries`, 18 keys) and the gate does not know (`Canonical`, 17). `Bootstrap`: `bootstrapKlendMock.ts`, account by account, then the
funding of the reserve by transfers that may land and be sent again, then publication. `ReadyGate`:
protocol configuration (`init`, `update`, `freeze`), registry, vault, and the gate that verifies twice.
`Deployment`: the scripts with the vault they open; users come once the gate has passed.

`PriceCycle`: the targets and nudges of the simulation as operators over a state of `Cushion`.
`ProgramAt(price)` is the program with the reserve at that price, and so answers what the keeper
could then do. `LiquidateStart` is the reserve as the liquidate stage sets it, next to an obligation whose values may
still be those of the price before; `LiquidatePrices` are the prices that `NudgedFrom` may lead to from there,
with each refresh landing before the read or after it.

`MCCushionVault` (over `Deployment`), `MCCushion` (over `PriceCycle`), `MCPositionClient`, `MCKeeper`,
`MCActionExecutor`, `MCDedupQueue`: instances for TLC, with the symmetry of positions or users.

## 4. Runs

| Run | Instance | What it shows |
|---|---|---|
| `queue` | 3 keys, 2 consumers, a shutdown at any moment | `TypeOK`, `KeysAreQueued`, `NoSleeperWhileQueued`, `SleepersAreIdle`, `ImplementsWorkSet`, `EveryJobTaken` |
| `vault` | `Deployment`: 2 programs, 2 accidents, then 2 depositors with a virtual pair | the vault: `VaultTypeOK`, `SharePriceCovered`, `ClaimsCovered`, `AllClaimsCovered`, `RoundTripNoProfit`, `NoDilution`; its client: `QuotesAreExact`, `ExitQuotesHold`; the scripts: `DeploymentTypeOK`, `GateMeansReady`, `PublishedIsBacked`, `ConfigFollowsReserves` |
| `pair` | 2 positions (symmetric), 1 depositor, 2 prices, a clock that ticks once | `CushionTypeOK`, `BufferInPlace`, `BackingKept`, `TokensKept`, `VaultRefinement`; the simulation: `StageTargetsTrigger`, `NudgesKeepLiquidatable` |
| `solo` | `PositionClient`: 1 position, 2 prices, interest, 2 years between updates, one transaction waiting | `ClientTypeOK`, `ShownRoomIsReal`, `BackingKept`, `Hysteresis`, `BorrowerKeepsMargin`, `LandedIsFresh`, `MaxClearsDebt` |
| `keeper` | 1 position, one tick of each watcher, 1 worker, 1 move of the world, 1 fault or crash | `KeeperTypeOK`, `RecordedChangesReach`, `StoreCatchesUp` |
| `execute` | 1 position, 2 executors, 2 buffers, 2 events, every job asked for once per life | `ExecutorTypeOK`, `RetriesDoNotMultiply`, `AsksAreKept`, `AskedGetsDone` |
| `managed` | 1 position, 3 prices | violated: after liquidations managed assets are not there |
| `repaid` | debts in steps of 60 | violated: the debt grows between the two transactions and is not repaid in full |
| `interest` | rate 10 | violated: interest returned by a borrower belongs to nobody |
| `flat` | clock still | violated: a buffer injected and withdrawn at once pays a full period |
| `overflow` | width at `WAD`² | violated: a large unsafe position cannot be injected |
| `stranded` | 2 years | violated: after two years no buffer can be withdrawn |

The six violations are disagreements between the code and what its own comments and README say;
each is listed under `findings` with the line it contradicts.

What each property is about:

* `KeysAreQueued`: the key set, which three pieces of code update apart, is the set of queued items,
  each queued once; so no job is refused for ever and none runs twice for one request.
* `NoSleeperWhileQueued`, `SleepersAreIdle`: no wakeup is lost, and none goes to a busy consumer.
* `ImplementsWorkSet`: the queue implements `WorkSet`. `EveryJobTaken`: producers that never pause do
  not starve a queued job.
* `SharePriceCovered`, `NoDilution`: no instruction, of anybody, lowers the value of a share.
* `ClaimsCovered`: a redemption fails for lack of idle liquidity only, never because
  `total_managed_assets` would underflow. `AllClaimsCovered`: nor do the claims of all depositors
  together exceed it, so what is rounded in favour of one is never due to another.
* `RoundTripNoProfit`: in every reachable state, in and out again gains nothing, in four ways.
* `QuotesAreExact`, `ExitQuotesHold`: the client's own arithmetic agrees with the program's wherever
  the program can answer, and a quoted exit only gets better while its user hesitates.
* `BufferInPlace`: an insured position holds at least its buffer. Borrowers, price moves,
  injections into other positions and half-done liquidations are all tried against it.
* `BackingKept`: idle tokens plus deployed principal keep up with managed assets under everything but
  a liquidation; in particular a withdrawal returns at least the principal, which a comment in
  `math/withdraw.rs:29` wonders about.
* `TokensKept`: the stand-in books what it can of a withdrawal and pays all of it, so it is each instruction's own
  arithmetic that keeps it from paying out what was never put in. A liquidation at a vault price below the
  market's is excepted, and has to be: it asks for tokens worth the debt at the vault's price, which may be more
  than there are. (`pair` does not reach that case. With debts of 1500 it does: 226 tokens leave a position of 200.)
* `Hysteresis`: what was just injected cannot be withdrawn and what was just withdrawn cannot be
  injected, with nothing in between.
* `BorrowerKeepsMargin`: a borrower's own instruction never makes the position liquidatable.
* `LandedIsFresh`: however old its list of reserves, a transaction that lands has refreshed all that its
  obligation uses by then. `MaxClearsDebt`: "max" means the debt at landing, not at building.
* `ShownRoomIsReal`: a loan within the maximum LTV that the client shows passes the program's limit,
  another formula of another threshold, and the market's. It is about the two checks, `SafeWithDebt` and
  `WithinBorrowLimit`, for positions whose value a u128 can hold scaled (340 USD in the program).
* `StageTargetsTrigger`: the prices the simulation computes lie on their side of the program's
  threshold and of no other one's. `NudgesKeepLiquidatable`: none of the nudges, computed from values
  that may be one price old, takes the position out of the reach of a liquidation. Before the first nudge
  that older price is the one before the stage, if the stage comes down from it. If the stage has to raise the price to
  its target (the position was in deeper trouble), the property begins with the first refresh that has landed
  (`PromisedStart`): without that condition it is false, and `pair` without it finds such a nudge at depth 19. Both
  are about debts of at least one unit of USDC, targets that were not clamped, and positions whose value a u128 can
  hold scaled at them (`Promised`).
* `RecordedChangesReach`: what a watcher records it will not notice again, so there must be a job, or
  a step under way, that will still read the position. `StoreCatchesUp`: when the chain is left alone,
  the rows come to say what it says, whatever was written over what.
* `RetriesDoNotMultiply`: the copies of a job never outnumber the asks for it. It counts copies; that a repeated
  liquidation swaps again is modelled, and nothing says it should not.
* `AsksAreKept`: a job that is asked for stays queued, held or waiting until it is done, refused or finally failed,
  and is lost in between to one thing only, an executor that goes by an out-of-date row or reading. That loss
  is real and a few steps long: a watcher writes an old listing back, and an executor about to inject reads that
  the position is injected already. `AskedGetsDone`: any other job does not stay possible and undone for ever. A
  process that ends forgets what was asked for; both begin anew with it.
* `GateMeansReady`: after a passed gate, `.env` and the artifact each have every key that a script reads, of one
  program, and reserves and configuration on chain are that program's. They need not be equal: the oracle's
  key is in neither of them or in `.env` alone, as the gate finds `.env`. `PublishedIsBacked`,
  `ConfigFollowsReserves`: what a published address and the protocol configuration each imply about the chain. All
  three hold after any crashes, repetitions, lost files and changed checkouts.

Bounds, and why they do.

*Program.* Amounts, prices and precisions are scaled down: `WAD` is 1000 and
`TOKEN_PRECISION` 30 in the `Cushion` runs, large enough that rounding happens in every division and
that a one-token difference matters, with thresholds in the program's own proportions. The order of
magnitudes that decides overflow is kept: `U64_MAX` lies between the square and the cube of
`TOKEN_PRECISION` (10^18 < 1.8·10^19 < 10^27 in the program), so an index squared after two years
overflows there as here. A u128 holds 340·`WAD`² in the program, so values above 340 USD overflow;
in `solo` and the six violations it holds one `WAD`², positions are worth less than one unit, and
`overflow` takes one that is not. `pair` has prices ten times as fine (200 and 360, and 100 `WAD`²), so
that the simulation's nudges of 1.5% are not swamped by rounding. A scaled value also has its
limits: the client's limit and the program's, 75% and 75.1% of the collateral, differ by less than one
unit for positions worth less than about a thousand, so `solo` keeps to debts the position is large enough for;
in the program that unit is 10^-18 USD. The program's rate is 5%; runs with interest use ones that give
a buffer of a few tokens at least one unit. `IndexBound` stops withdrawals once the index has grown past it: in
`pair` it is 31, so that a buffer injected under the index 30 can be withdrawn after the other position's
withdrawal has moved it to 31; in `solo` and the others it is 30, so the first one is the last, and what `BackingKept`
adds in `solo` is the client's ways to the instructions only (`ClientsKeepBacking` has every index).
`ElapsedBound` stops the clock; amounts come from the sets of each cfg, and both prices from
`Prices`, chosen to lie on both sides of the insuring and liquidation thresholds. Two positions are
enough for every interaction through the shared accounts and the shared index, as an instruction
names one position and only the vault connects it to others. The depositor's 220 tokens pay for two
swaps at the higher price and one at the lower, so a vault that runs dry is reached.

*Clients.* `WalletAsked`: one transaction waits at a time, asked for while the vault has charged no
interest and holds no USDC, and depositors and the vault's price, which touch no position, stand still
while it waits; a tick of the clock is longer than a blockhash lives, so it ends the wait. Everything
else, injections, liquidations, prices and the owner's second window, happens while it waits.

*Deployment.* `MaxAccidents` 2 is enough to lose one file and the other, or to change the checkout and come
back. `PlainDeployment`, `VaultUntouched`, `UsersCome`: users read nothing that the scripts write, so they
are explored after one deployment in which nothing went astray; `DeploymentIsAVault` is proved without these
bounds mattering to it.

*Keeper.* One position, one tick of each watcher under way at a time, one worker, one move of the world
(`MaxMoves`) and one fault (`MaxFaults`): already some 870,000 states, with everything else interleaved. Two
overlapping ticks of the position watcher exceed what a run may take; a tick that overlaps with executors' writes
and with a crash is there. Jobs concern one position each and rescans run over them one by one, so a
second position adds no interaction but the rescan's failure in the middle, which with one position
shows as the loss of the job.

*Executor.* Two executors on one position are the interleaving that matters: keys differ by kind, so
an injection and a liquidation of one position do run at once. `MaxIdle` 2 buffers let the vault run dry and
be refilled; `MaxEvents` 2 faults or moves, of other keepers, depositors, prices or requests; `MaxAsks` 1.

*Queue.* Three keys let two requests overtake each other with a third pending, and two consumers let one
sleep while the other works; queue and waiters are never both non-empty, so longer ones add nothing but length.

Deadlock is checked in every run but `queue`, `keeper` and `execute`: a keeper that has shut down, and a
bounded world in which nothing is left to do, really stop.

## 5. Fairness

`DedupQueue`: weak fairness of `Dequeue` and `Finish` for each consumer. The event loop resumes every
consumer whose `await` has settled, and a consumer that is neither asleep nor working is runnable; that
a job ends assumes that the requests it awaits succeed or fail. Nothing is assumed of producers, who
may enqueue for ever or never, nor of `Stop`.

`Keeper`: weak fairness of `Boot`, `Start`, each tick, each worker and each pending write-back. `main.ts`
starts the polling timers unconditionally and the container is started again (`restart:
unless-stopped`); awaits settle. Nothing is assumed of the world, of executors taking up a job, of crashes or of
faults. `StoreCatchesUp` needs no more: faults and moves are finitely many, which is what "left alone" means.

`ActionExecutor`: weak fairness of each executor's next step and of each timer. Whether another keeper, a
depositor or a watcher acts is open, and so is which job a free executor takes: with the bounds of the run
there are few enough of them that none is passed over for ever.

`Cushion`, `PositionClient` and `Deployment` have no fairness and no liveness property. On chain nothing
has to happen: every instruction waits for a caller. A script that is not run makes no progress.

## 6. Proofs

For all values of the constants that meet the named assumptions:

* `CushionVaultProofs`: `RoundTrip`, on which the rest stands: rounding down one way and back never
  returns more than went in. `VaultInv` is type correctness, the price bound and `SharesAddUp`. The first
  two carry each other: the bound is what keeps a redemption within what is managed. It is inductive, step by
  instruction; each conversion's rounding gives one inequality between products, and a lemma turns it into
  the price bound. From it follow `VaultTypes`, `SharePriceIsCovered`, `ClaimsAreCovered`,
  `RoundTripsDoNotPay` and, as an action property, `NobodyIsDiluted`. `SharesAddUp`, that the supply is the
  sum of the users' shares, is what `AllClaimsAreCovered` needs: each claim is at most its shares' part of
  what is managed, and the parts add up only if the shares do. Sums over finite sets are reasoned about by
  the least set that would be a counterexample (`LeastMember`, from the library's theorem on well-founded
  relations), since an induction rule with an operator parameter is out of reach.
* `CushionProofs`: `CushionInv` adds to the vault's invariant that a released position has no
  injected amount and that an insured one holds its buffer. Without the first half an injection
  would add to a leftover, and without the second a withdrawal could take more collateral than
  there is. Every position instruction is shown to move only idle tokens of the vault (`IdleMoves`),
  which gives the refinement `CushionImplementsVault`, and with it `NobodyIsDilutedByPositions`.
  * `PrincipalComesBack`: a withdrawal is at least the principal, for every index, rate and amount and any
    number of years, over which the index is raised to a power (`PowerGrows`, by the least exponent that
    would fail).
  * `BackingIsKept`: idle tokens and the sum of all buffers keep up with managed assets under every step
    but a liquidation. Hence `BackedUnlessLiquidated`, and with `AllClaimsAreCovered`, `EveryClaimIsBacked`: as
    long as nothing is liquidated, all depositors' claims together are there, idle or out as buffers.
  * `ThresholdsDoNotChatter` and `BorrowersKeepMargin`: each compares two ratios to different deposits, rounded
    three times each, and one of the deposits loses a unit more. `ThresholdsApart` is the inequality
    that absorbs it all, under two hypotheses: a token unit is worth `n` units of 10^-18 USD or more (`Fine`),
    and the two thresholds leave room for it (`ReleaseIsApart`, `MarginIsApart`). `ConstsLeaveRoom` shows that the
    fractions in `consts.rs` do with `n` = 3000, for every collateral factor above 0: that is SOL above three
    millionths of a dollar. (`solo` checks the two properties where a token unit is worth about one, which the
    hypotheses do not cover and its amounts happen to allow; below such prices rounding may break them.)

  * `TokensAreKept`: no instruction but a swap changes the number of tokens there are. What is withdrawn is
    within what is there because its value, rounded down, passed the subtraction in `LtvAfterRemoving` with
    something left to divide by (`RemovedIsHad`), and what a liquidation takes because debt and profit are within the
    deposit (`LiquidatedIsHad`). The hypothesis is `TOKEN_PRECISION` = `MintFactor`, which holds of wrapped SOL: the
    amount of a liquidation is computed with the first and its value with the second. Sums over all positions and
    users are compared before and after by the one entry that changes.

  The lemmas on borrowers' instructions take any amount, not only those a run explores.
* `DedupQueueProofs`: `IInv` is the conjunction of the four invariants of `queue`; no smaller part that
  matters is inductive, since a hand-over is harmless only if the sleeper is idle, and the queue is
  empty then only because no one sleeps on a queued job. Two lemmas on injective sequences (append a
  fresh element, drop the head) carry the steps. `DedupSound`, `QueueTypes`, `NoLostWakeup` and `SleepersAreFree`
  follow, and `QueueIsWorkSet` is the refinement, each step mapped to a step of `WorkSet` or a stutter.
* `PositionClientProofs`: `ClientInv` is `CushionInv`, the owner's accounts and a wallet whose transactions
  come from the client; each landing is one of `Cushion`'s instructions with an amount of its own. It gives
  `ClientTypes`, `ClientsKeepPromises`, `ClientsKeepBacking`, `ClientsKeepTokens`, `ClientsKeepThresholds`,
  `LandedIsRefreshed`, `MaxDoesClearDebt` and the refinement `ClientsImplementVault`.
  * `ClientsRunTheProgram` is the refinement of `Cushion` itself, with every amount a u64 can hold and every value
    (`Program`): wallets, accounts and waiting transactions are hidden, and the rest is the program. The set
    of values is all of `Nat`, as `CushionAssumption` asks of `DebtAmounts`: a value is no u64.
  * `ShownRoomExists`: the client's maximum exists, and what it allows, both of the program's checks accept. It is
    the allowed LTV, rounded twice, where the program's is two fractions of the unhealthy one, rounded four times, so
    two hypotheses keep them apart: `Fine(n)` again, and `RoomIsApart`, that the first percentage is below the
    scaled second one by more than the rounding. `ConstsShowRealRoom` shows that the fractions in `consts.rs` with the collateral
    factors that `bootstrapKlendMock.ts` sets (75% and 85%) leave that room for `n` = 4000; that `WAD`² fits in a
    u128 is the third hypothesis.
* `DeploymentProofs`: nothing made on chain is undone (`Grows`), so each stage of the scripts may rely on
  what the stages before it have established (`ScriptInv`), whatever ran in between; `PublishedInv` says what a published
  address stands on, and `GateInv` what the gate has seen when it comes to its second verification. They give
  `GateIsSound`, `PublishedIsThere` and `ConfigIsBacked`. `DeploymentIsAVault` is a refinement: everything
  proved of the vault and of its quotes holds of the vault a deployment opens (`DeployedVaultIsSound`).
  Of the quotes, `QuotesMatch` compares the two implementations of each conversion; `ExitQuotesDoHold` is
  floor and ceiling division being monotone in a ratio that, by `NobodyIsDiluted`, does not fall.
* `PriceCycleProofs`: no invariant beyond `CushionInv`, but much division.
  * `StagesHitTheirTriggers`: a target is a thousandth off the price at which the debt is the stage's part of its
    limit. `TargetPasses` and `PassedIsOver` show that this is more than the limit, the boundary, the value at
    the target, the two ratios and the scaling lose together by rounding; `TargetStops` and `StoppedIsUnder` that it
    is less than what lies between that threshold and the next one. That the instructions' ratios and amounts can be
    computed there is part of it (`Computable`). The hypothesis `RoomForSteps` says that consecutive thresholds differ
    by more than a hundredth and 0.11 `WAD` (of a percentage), and that an amount computed from a value fits in a u64.
  * `NudgesDoNotLoseIt`: the nudges are a walk in which each price is computed from values at one of the last two.
    `Held` is its invariant: no price is above the target, where the debt was at most 85% of the deposit, or below
    where it is 99.8%, and two in a row differ by at most 6.01% down and 3% up. A price rises only where an LTV above
    91.99% was seen, so two rises do not lead back to the target; it falls by 6% only where one below 88% was
    seen, and 0.88 is less than 0.998 of 0.9399². The values before the first nudge may be of any higher price
    (`FirstStep`): they show an LTV no higher than the target's own, below what would raise the price, so the
    first step is one down. The function behind the walk is chosen, as the powers are (`WalksExist`).
  * `ConstsDriveTheKeeper`: the fractions in `consts.rs`, with the collateral factors of the bootstrap, leave that
    room. The instance of `pair` does not (its `WAD` is 1000), so there the run is the evidence, and with a debt
    of 1500 it finds a target one unit short of its threshold.
* `ActionExecutorProofs`: each of the executor's actions is shown to go on with its job or to let it go, leaving it to
  one timer at most (`Proceeds`), and to let it go for good only where it is no longer owed (`KeepsOwed`). The
  first is all that counting copies needs (`RetriesStayFew`), the two together that no ask is lost but to
  data that was out of date (`AsksKept`): for each place that ends a job one shows that a current row
  and current values would not have ended one that is due. The invariant needs of types that only a liquidation swaps and only an injection is rechecked
  (`Suits`), for the lists of retriable errors differ by kind.
* `KeeperProofs`: `KeeperInv` is the types, `Opened`, `Stored` and `RecordedChangesReach`, for any number of
  positions, workers, overlapping ticks, moves and faults. `RecordedChangesReach` alone is not inductive: an
  executor's write-back or another tick may make a row appear or vanish between a tick's reads and its comparison,
  and the tick would then see no change where there was one. `Opened` (whatever anybody still means to act on is an
  open position) and `Stored` (unless something was dropped, whatever anybody still means to write back has a row)
  follow through the memory of every actor what rules this out. One lemma per action; they give `KeeperTypes`,
  `ChangesReach` and `ActsOnOpenPositions`.

Assumptions on constants: `NoneAssumption` (no job is called None), `WidthAssumption` (u64 no wider than u128),
`VirtualAssumption`, `VirtualPairAssumption` (virtual assets come with virtual shares: `init_vault` does not check this,
the tests use 10 and 20 and the deployment script 0 and 0), `ConfigAssumption` (what `init_vault` does
check), `ScaleAssumption`, `ThresholdAssumption`, `MarketAssumption`, `LevelAssumption`, `NothingAssumption` and
`UnderwaterAssumption` (the keeper's levels, in the order of the thresholds), `FiniteAssumption`, `UsersAssumption` and
`PositionsAssumption` (finitely many executors, users and positions), `KeyAssumption` (a rescan is no position's job),
`ProgramAssumption`, `FundAssumption`, `CushionAssumption` (arguments are u64; the two names of the token's precision
agree; a value may be any number), and the bounds. Only the theorems on thresholds, on what the client shows, on
tokens and on the simulation have further hypotheses, named above.

The solvers' front end adds up and multiplies literals in 63 bits, so no proof has a literal near the program's own
constants: `FractionsOfConsts` states their ratios.

Model-checked only: the liveness properties `EveryJobTaken`, `StoreCatchesUp` and `AskedGetsDone`, which are beyond
the prover.

## 7. Not modelled

Account validation beyond the match of passed and used reserves; PDA derivations; parsing of Pyth updates;
Orca's tick arrays; Kamino farms; events and logs; entries of the position registry and the NFT, which
nothing reads again; SQL and connections; in the executor, the arithmetic of a requested amount, the posting of
the vault's price in front of a job and the token accounts set up in front of a swap; the compilation and upload of programs;
the React frontend and generated types. Scripts that walk once through a position's or a vault's life only call
what is modelled, and the local test tooling is left out.

Seen while modelling, and stated by no property, for no document or comment promises otherwise:

* `repay_debt` with the largest u64 transfers the owner's whole USDC balance, and the market books the debt
  (`cpi/repay_klend.rs:282`).
* Bootstrap run under another checkout takes token accounts it finds whoever their authority is
  (`sdk/scripts/bootstrapKlendMock.ts:176`), and the gate does not look. Nor does it look at registry or vault.
  `verifyDevnetReady` fills in `.env` also when its checks then fail.
* A worker's job that fails is not retried; what it had still to read waits for the next change.
* The simulation's withdraw stage aims at the LTV with the buffer, while program and keeper test the LTV
  without it (`sdk/scripts/simulateMockPriceCycle.ts:531`), so that its first price need not be enough for a withdrawal. Its
  refresh is sent and not confirmed (`:454`). `NudgesKeepLiquidatable` covers what follows for the nudges of a stage
  that lowers the price. Where the liquidate stage raises it and the values from before show an LTV of 92% or more, the first
  nudge goes up by 3 to 5%, and lifts a target a thousandth below the threshold over it (`:580-587`, `:764-808`); the
  nudges after it, with fresh values, come down again. `StageTargetsTrigger` takes the refresh of a stage's start as landed.
* An executor that goes by an out-of-date row or by stored values drops a job that the program would do
  (`keeper/src/executor/action_executor.ts:180-198`, `:847`, `:1046-1063`); it is not done before a worker asks again.
* The gate replaces the artifact, and `.env` where it is incomplete, with a section that lacks `KLEND_MOCK_ORACLE`, which
  only bootstrap writes (`sdk/scripts/bootstrapKlendMock.ts:695-714`, `sdk/scripts/verifyDevnetReady.ts:253-271`, `:364-379`).
