---------------------------- MODULE KeeperProofs ----------------------------
(***************************************************************************)
(* The keeper, for any number of positions, workers and overlapping ticks, *)
(* however often the world moves and things fail: its state keeps its      *)
(* types, and a change that a watcher has recorded reaches a worker.       *)
(*                                                                         *)
(* That a pending job survives is not enough.  A row may appear or vanish  *)
(* behind a tick's back, and the tick compares what it read before.  The   *)
(* invariant therefore follows two facts through every actor's memory: a   *)
(* position that anybody still means to act on is open (Opened), for the   *)
(* account of a position is never closed; and unless something was dropped *)
(* a position that anybody still means to write has a row (Stored).        *)
(***************************************************************************)
EXTENDS Keeper, TLAPS

-----------------------------------------------------------------------------
(* Types.                                                                  *)

WorkerSlot == [at : {"free", "list", "row", "risk", "decide"}, todo : SUBSET Positions,
               on : Positions \union {Nothing}, row : Row, ltv : Int]

TickSlot == [at : {"off", "listed", "compared", "stored", "digested"},
             listed : [Positions -> Row] \union {Nothing},
             previous : [Positions -> Row] \union {Nothing},
             next : [Positions -> Digest] \union {Nothing}]

WatchInv ==
  /\ digests \in [Positions -> Digest]
  /\ tick \in [PositionTicks -> TickSlot]
  /\ \A t \in PositionTicks : TickTypeOK(tick[t])

WorkInv ==
  /\ worker \in [Workers -> WorkerSlot]
  /\ \A w \in Workers :
       /\ worker[w].at \in {"risk", "decide"} => worker[w].on \in Positions /\ worker[w].row \in BOOLEAN
       /\ worker[w].at = "free" => worker[w].todo = {}

MainInv ==
  /\ stage \in {"start", "priming", "running"}
  /\ echo \in [Positions -> Row]
  /\ moves \in 0 .. MaxMoves
  /\ faults \in 0 .. MaxFaults
  /\ looked \in SUBSET Positions
  /\ dropped \in BOOLEAN

TypeInv ==
  ChainTypeOK /\ StoreTypeOK /\ JobsTypeOK /\ PriceTypeOK /\ WatchInv /\ WorkInv /\ MainInv

-----------------------------------------------------------------------------
(* What is open: a position with a debt or a buffer, one that a tick has   *)
(* listed, one that a worker finds above the insuring threshold, one that  *)
(* is to be injected, and one that was acted on.                           *)

InUse(p) == account[p].load # 0 \/ account[p].injected

TickOpened(t) == tick[t].at # "off" => \A p \in Listed(t) : account[p].open

WorkerOpened(w) ==
  worker[w].at = "decide" /\ worker[w].ltv > InjectAbove => account[worker[w].on].open

JobOpened(p) ==
  /\ InUse(p) => account[p].open
  /\ <<"inject", p>> \in asked => account[p].open
  /\ echo[p] # Nothing => account[p].open

Opened ==
  /\ \A p \in Positions : JobOpened(p)
  /\ \A t \in PositionTicks : TickOpened(t)
  /\ \A w \in Workers : WorkerOpened(w)

(* What is stored, unless something was dropped: a position that may be    *)
(* acted on or written back, and one that a tick has found stored and is   *)
(* about to write.                                                         *)

JobStored(p) ==
  /\ \A kind \in Kinds :
       <<kind, p>> \in asked /\ (kind = "inject" \/ account[p].injected) => rows[p] # Nothing
  /\ echo[p] # Nothing => rows[p] # Nothing

TickStored(t) ==
  tick[t].at = "compared" =>
    \A p \in Listed(t) : tick[t].previous[p] # Nothing => rows[p] # Nothing

Stored ==
  ~dropped =>
    /\ \A p \in Positions : JobStored(p)
    /\ \A t \in PositionTicks : TickStored(t)

KeeperInv == TypeInv /\ Opened /\ Stored /\ RecordedChangesReach

LEMMA TypesOK == TypeInv => KeeperTypeOK
BY DEF TypeInv, WatchInv, WorkInv, MainInv, KeeperTypeOK, WatchTypeOK, WorkerTypeOK, WorkerSlot

-----------------------------------------------------------------------------
(* Steps that do not touch what the invariants speak of.                   *)

StaysOpen == \A p \in Positions : account[p].open => account'[p].open

(* Nobody's memory gains anything that must be open.                       *)
LEMMA OpenedStays ==
  ASSUME TypeInv, Opened, StaysOpen,
         \A p \in Positions : InUse(p)' => account'[p].open,
         \A p \in Positions : <<"inject", p>> \in asked' => <<"inject", p>> \in asked,
         \A p \in Positions : echo'[p] # Nothing => echo[p] # Nothing,
         \A t \in PositionTicks :
           tick'[t].at # "off" => tick[t].at # "off" /\ tick'[t].listed = tick[t].listed,
         \A w \in Workers : worker'[w].at = "decide" => worker'[w] = worker[w]
  PROVE  Opened'
<1>1. ASSUME NEW p \in Positions
      PROVE  JobOpened(p)'
  BY DEF Opened, JobOpened, StaysOpen
<1>2. ASSUME NEW t \in PositionTicks
      PROVE  TickOpened(t)'
  BY DEF Opened, TickOpened, StaysOpen, Listed, StoredPositions
<1>3. ASSUME NEW w \in Workers
      PROVE  WorkerOpened(w)'
  BY DEF Opened, WorkerOpened, StaysOpen, TypeInv, WorkInv
<1> QED
  BY <1>1, <1>2, <1>3 DEF Opened

(* Rows stay, and nobody's memory gains anything that must be stored.      *)
LEMMA StoredStays ==
  ASSUME TypeInv, Stored, dropped => dropped',
         \A p \in Positions : rows[p] # Nothing => rows'[p] # Nothing,
         asked' \subseteq asked,
         \A p \in Positions : account'[p].injected => account[p].injected,
         \A p \in Positions : echo'[p] # Nothing => echo[p] # Nothing,
         \A t \in PositionTicks : tick'[t].at = "compared" => tick'[t] = tick[t]
  PROVE  Stored'
<1>1. ASSUME NEW p \in Positions, ~dropped
      PROVE  JobStored(p)'
  BY <1>1 DEF Stored, JobStored
<1>2. ASSUME NEW t \in PositionTicks, ~dropped
      PROVE  TickStored(t)'
  BY <1>2 DEF Stored, TickStored, Listed, StoredPositions
<1> QED
  BY <1>1, <1>2 DEF Stored

(* No new row, nothing to look at again, and nobody who would look gone.   *)
LEMMA ReachStays ==
  ASSUME RecordedChangesReach, stage' = stage, dropped => dropped',
         \A p \in Positions : rows'[p] # Nothing => rows[p] # Nothing,
         looked \subseteq looked',
         pending \subseteq pending',
         \A w \in Workers, p \in Positions : rows'[p] # Nothing /\ p \notin looked' /\ WillRead(w, p) => WillRead(w, p)',
         \A t \in PositionTicks, p \in Positions : WillAsk(t, p) => WillAsk(t, p)'
  PROVE  RecordedChangesReach'
<1> SUFFICES ASSUME stage' = "running", ~dropped', NEW p \in Positions, rows'[p] # Nothing, p \notin looked'
             PROVE  \/ pending' \intersect (Rescans \union {Changed(p), Removed(p)}) # {}
                    \/ \E w \in Workers : WillRead(w, p)'
                    \/ \E t \in PositionTicks : WillAsk(t, p)'
  BY DEF RecordedChangesReach, StoredPositions, Changed, Removed, Rescans, BootRescan, PrimeRescan, PriceRescan
<1>1. p \in StoredPositions(rows) \ looked
  BY DEF StoredPositions
<1>2. \/ pending \intersect (Rescans \union {Changed(p), Removed(p)}) # {}
      \/ \E w \in Workers : WillRead(w, p)
      \/ \E t \in PositionTicks : WillAsk(t, p)
  BY <1>1 DEF RecordedChangesReach
<1> QED
  BY <1>2

(* A process that is not running promises nothing about changes yet.       *)
LEMMA NotRunningReaches ==
  ASSUME stage' # "running"
  PROVE  RecordedChangesReach'
BY DEF RecordedChangesReach

(* A pending rescan reaches every position.                                *)
LEMMA RescanReaches ==
  ASSUME NEW job \in Rescans, job \in pending'
  PROVE  RecordedChangesReach'
<1>1. \A p \in Positions : pending' \intersect (Rescans \union {Changed(p), Removed(p)}) # {}
  OBVIOUS
<1> QED
  BY <1>1 DEF RecordedChangesReach, StoredPositions, Rescans, BootRescan, PrimeRescan, PriceRescan,
              Changed, Removed

-----------------------------------------------------------------------------
(* main, and the death of the process.                                     *)

LEMMA InitHolds == Init => KeeperInv
<1> SUFFICES ASSUME Init
             PROVE  KeeperInv
  OBVIOUS
<1> USE DEF Init, MemoryEmpty
<1>1. ChainTypeOK /\ StoreTypeOK
  BY DEF ChainInit, ChainTypeOK, StoreInit, StoreTypeOK
<1>2. JobsTypeOK /\ PriceTypeOK
  BY DEF NoJobs, JobsTypeOK, ExecuteTypeOK, PriceIdle, PriceTypeOK
<1>3. WatchInv
  BY DEF WatchIdle, WatchInv, TickSlot, NoTick, Digest, TickTypeOK
<1>4. WorkInv
  BY DEF WorkersIdle, WorkInv, WorkerSlot, Idle, Row
<1>5. MainInv
  <2>1. 0 \in 0 .. MaxMoves /\ 0 \in 0 .. MaxFaults
    BY BoundAssumption
  <2> QED
    BY <2>1 DEF MainInv, Row
<1>6. Opened
  BY DEF Opened, JobOpened, TickOpened, WorkerOpened, InUse, ChainInit, Account, NoJobs, WatchIdle,
         NoTick, WorkersIdle, Idle
<1>7. Stored
  BY DEF Stored, JobStored, TickStored, NoJobs, WatchIdle, NoTick
<1>8. RecordedChangesReach
  BY DEF RecordedChangesReach
<1> QED
  BY <1>1, <1>2, <1>3, <1>4, <1>5, <1>6, <1>7, <1>8 DEF KeeperInv, TypeInv

LEMMA BootKeeps ==
  ASSUME KeeperInv, Boot
  PROVE  KeeperInv'
<1> USE DEF KeeperInv, Boot
<1>1. TypeInv'
  BY DEF TypeInv, chainVars, jobs, watchVars, history, PrimePrices, FetchReservePrice, ChainTypeOK,
         StoreTypeOK, JobsTypeOK, ExecuteTypeOK, PriceTypeOK, WatchInv, WorkInv, MainInv
<1>2. Opened'
  BY OpenedStays DEF chainVars, jobs, watchVars, StaysOpen, Opened, JobOpened, InUse
<1>3. Stored'
  BY StoredStays DEF chainVars, jobs, watchVars, history
<1>4. RecordedChangesReach'
  BY NotRunningReaches
<1> QED
  BY <1>1, <1>2, <1>3, <1>4

LEMMA StartKeeps ==
  ASSUME KeeperInv, Start
  PROVE  KeeperInv'
<1> USE DEF KeeperInv, Start
<1>1. TypeInv'
  BY DEF TypeInv, chainVars, priceVars, watchVars, history, ChainTypeOK, StoreTypeOK, JobsTypeOK,
         ExecuteTypeOK, ComputeJobs, Rescans, PriceTypeOK, WatchInv, WorkInv, MainInv
<1>2. Opened'
  BY OpenedStays DEF chainVars, watchVars, StaysOpen, Opened, JobOpened, InUse
<1>3. Stored'
  BY StoredStays DEF chainVars, watchVars, history
<1>4. BootRescan \in pending' /\ BootRescan \in Rescans
  BY DEF Rescans
<1>5. RecordedChangesReach'
  BY <1>4, RescanReaches
<1> QED
  BY <1>1, <1>2, <1>3, <1>5

LEMMA CrashKeeps ==
  ASSUME KeeperInv, Crash
  PROVE  KeeperInv'
<1> USE DEF KeeperInv, Crash
<1>1. ChainTypeOK' /\ StoreTypeOK' /\ JobsTypeOK' /\ PriceTypeOK'
  BY DEF TypeInv, chainVars, ChainTypeOK, StoreTypeOK, JobsTypeOK, ExecuteTypeOK, PriceTypeOK
<1>2. WatchInv'
  BY DEF WatchInv, TickSlot, NoTick, Digest, TickTypeOK
<1>3. WorkInv'
  BY DEF WorkInv, WorkerSlot, Idle, Row
<1>4. MainInv'
  <2>1. faults' \in 0 .. MaxFaults
    BY BoundAssumption DEF TypeInv, MainInv
  <2>2. echo' \in [Positions -> Row]
    BY DEF Row
  <2> QED
    BY <2>1, <2>2 DEF TypeInv, MainInv
<1>5. Opened'
  BY DEF chainVars, Opened, JobOpened, TickOpened, WorkerOpened, InUse, NoTick, Idle
<1>6. Stored'
  BY DEF Stored, JobStored, TickStored, NoTick
<1>7. RecordedChangesReach'
  BY NotRunningReaches
<1> QED
  BY <1>1, <1>2, <1>3, <1>4, <1>5, <1>6, <1>7 DEF TypeInv

-----------------------------------------------------------------------------
(* The price watcher.                                                      *)

LEMMA PriceWatchKeeps ==
  ASSUME KeeperInv, NEW t \in PriceTicks, PriceWatch(t)
  PROVE  KeeperInv'
<1> USE DEF KeeperInv, PriceWatch, Running
<1>1. PriceTypeOK' /\ pending' \in SUBSET ComputeJobs /\ pending \subseteq pending'
  BY DEF PriceTickBegins, PriceTickEnds, FetchReservePrice, TypeInv, PriceTypeOK, ChainTypeOK,
         JobsTypeOK, ComputeJobs, Rescans
<1>2. TypeInv'
  BY <1>1 DEF TypeInv, chainVars, watchVars, ChainTypeOK, StoreTypeOK, JobsTypeOK, ExecuteTypeOK,
         WatchInv, WorkInv, MainInv
<1>3. Opened'
  BY OpenedStays DEF chainVars, watchVars, StaysOpen, Opened, JobOpened, InUse
<1>4. Stored'
  BY StoredStays DEF chainVars, watchVars
<1>5. RecordedChangesReach'
  <2>1. CASE lastPrice' = lastPrice
    BY <1>1, <2>1, ReachStays DEF watchVars, WillRead, WillAsk
  <2>2. CASE lastPrice' # lastPrice
    <3>1. PriceRescan \in pending' /\ PriceRescan \in Rescans
      BY <2>2 DEF PriceTickBegins, PriceTickEnds, Rescans
    <3> QED
      BY <3>1, RescanReaches
  <2> QED
    BY <2>1, <2>2
<1> QED
  BY <1>2, <1>3, <1>4, <1>5

LEMMA PriceWatchFailsKeeps ==
  ASSUME KeeperInv, NEW t \in PriceTicks, PriceWatchFails(t)
  PROVE  KeeperInv'
<1> USE DEF KeeperInv, PriceWatchFails, PriceTickFails, Fault, Running
<1>1. TypeInv'
  BY BoundAssumption
     DEF TypeInv, chainVars, watchVars, history, PriceTypeOK, ChainTypeOK, StoreTypeOK, JobsTypeOK,
         ExecuteTypeOK, WatchInv, WorkInv, MainInv
<1>2. Opened'
  BY OpenedStays DEF chainVars, watchVars, StaysOpen, Opened, JobOpened, InUse
<1>3. Stored'
  BY StoredStays DEF chainVars, watchVars, history
<1>4. RecordedChangesReach'
  BY ReachStays DEF watchVars, history, WillRead, WillAsk
<1> QED
  BY <1>1, <1>2, <1>3, <1>4

-----------------------------------------------------------------------------
(* The position watcher: one lemma per cut of a tick.  What a tick may     *)
(* touch is the rows, the digests, the pending jobs and itself.            *)

WatchFrame == UNCHANGED <<watchFrame, stage>>

(* A tick that goes on, and what it leaves of the types to show.           *)
LEMMA TickTypes ==
  ASSUME TypeInv, WatchFrame, NEW t \in PositionTicks, NEW k \in TickSlot, TickTypeOK(k),
         Advance(t, k),
         rows' \in [Positions -> Row], digests' \in [Positions -> Digest],
         pending' \in SUBSET ComputeJobs,
         faults' \in 0 .. MaxFaults, looked' \in SUBSET Positions, dropped' \in BOOLEAN
  PROVE  TypeInv'
<1>1. WatchInv'
  BY DEF TypeInv, WatchInv, Advance
<1>2. ChainTypeOK' /\ StoreTypeOK' /\ JobsTypeOK' /\ PriceTypeOK' /\ WorkInv'
  BY DEF TypeInv, WatchFrame, watchFrame, chainVars, priceVars, ChainTypeOK, StoreTypeOK, JobsTypeOK,
         ExecuteTypeOK, PriceTypeOK, WorkInv
<1>3. MainInv'
  BY DEF TypeInv, MainInv, WatchFrame, watchFrame
<1> QED
  BY <1>1, <1>2, <1>3 DEF TypeInv

(* A tick that is over or goes on with the listing it has.                 *)
LEMMA TickOpenedStays ==
  ASSUME TypeInv, Opened, WatchFrame, NEW t \in PositionTicks, NEW k \in TickSlot, Advance(t, k),
         k.at # "off" => tick[t].at # "off" /\ k.listed = tick[t].listed
  PROVE  Opened'
<1>1. tick' = [tick EXCEPT ![t] = k] /\ tick \in [PositionTicks -> TickSlot]
  BY DEF Advance, TypeInv, WatchInv
<1>2. \A s \in PositionTicks :
        tick'[s].at # "off" => tick[s].at # "off" /\ tick'[s].listed = tick[s].listed
  BY <1>1
<1>3. UNCHANGED <<account, asked, echo, worker>>
  BY DEF WatchFrame, watchFrame, chainVars
<1>4. StaysOpen /\ \A p \in Positions : InUse(p)' => account'[p].open
  BY <1>3 DEF StaysOpen, Opened, JobOpened, InUse
<1> QED
  BY <1>2, <1>3, <1>4, OpenedStays

(* A tick that keeps all rows, and is not about to write.                  *)
LEMMA TickStoredStays ==
  ASSUME TypeInv, Stored, WatchFrame, NEW t \in PositionTicks, NEW k \in TickSlot, Advance(t, k),
         k.at # "compared", dropped => dropped',
         \A p \in Positions : rows[p] # Nothing => rows'[p] # Nothing
  PROVE  Stored'
<1>1. tick' = [tick EXCEPT ![t] = k] /\ tick \in [PositionTicks -> TickSlot]
  BY DEF Advance, TypeInv, WatchInv
<1>2. \A s \in PositionTicks : tick'[s].at = "compared" => tick'[s] = tick[s]
  BY <1>1
<1>3. UNCHANGED <<account, asked, echo>>
  BY DEF WatchFrame, watchFrame, chainVars
<1> QED
  BY <1>2, <1>3, StoredStays

(* What the other ticks and the workers would do they still would do.      *)
LEMMA OthersStillAct ==
  ASSUME TypeInv, WatchFrame, NEW t \in PositionTicks, NEW k \in TickSlot, Advance(t, k)
  PROVE  /\ \A w \in Workers, p \in Positions : WillRead(w, p)' <=> WillRead(w, p)
         /\ \A s \in PositionTicks \ {t}, p \in Positions : WillAsk(s, p)' <=> WillAsk(s, p)
         /\ tick'[t] = k
<1>1. tick' = [tick EXCEPT ![t] = k] /\ tick \in [PositionTicks -> TickSlot]
  BY DEF Advance, TypeInv, WatchInv
<1>2. worker' = worker
  BY DEF WatchFrame, watchFrame
<1>3. \A w \in Workers, p \in Positions : WillRead(w, p)' <=> WillRead(w, p)
  BY <1>2 DEF WillRead
<1>4. \A s \in PositionTicks \ {t}, p \in Positions : WillAsk(s, p)' <=> WillAsk(s, p)
  BY <1>1 DEF WillAsk
<1> QED
  BY <1>1, <1>3, <1>4

(* A tick that records nothing new.                                        *)
LEMMA TickReachStays ==
  ASSUME TypeInv, RecordedChangesReach, WatchFrame, NEW t \in PositionTicks, NEW k \in TickSlot,
         Advance(t, k), dropped => dropped', looked' = looked, pending \subseteq pending',
         \A p \in Positions : rows'[p] # Nothing => rows[p] # Nothing,
         \A p \in Positions : WillAsk(t, p) => WillAsk(t, p)'
  PROVE  RecordedChangesReach'
<1>1. \A w \in Workers, p \in Positions :
        rows'[p] # Nothing /\ p \notin looked' /\ WillRead(w, p) => WillRead(w, p)'
  BY OthersStillAct
<1>2. \A s \in PositionTicks, p \in Positions : WillAsk(s, p) => WillAsk(s, p)'
  BY OthersStillAct
<1>3. stage' = stage
  BY DEF WatchFrame
<1> QED
  BY <1>1, <1>2, <1>3, ReachStays

(* What is known of a tick that is under way.                              *)
LEMMA TickHas ==
  ASSUME TypeInv, NEW t \in PositionTicks
  PROVE  /\ tick[t] \in TickSlot /\ TickTypeOK(tick[t])
         /\ rows \in [Positions -> Row] /\ digests \in [Positions -> Digest]
         /\ pending \in SUBSET ComputeJobs /\ faults \in 0 .. MaxFaults
         /\ looked \in SUBSET Positions /\ dropped \in BOOLEAN
BY DEF TypeInv, WatchInv, StoreTypeOK, JobsTypeOK, MainInv

LEMMA ListsChainKeeps ==
  ASSUME KeeperInv, WatchFrame, NEW t \in PositionTicks, TickListsChain(t), UNCHANGED <<faults, history>>
  PROVE  KeeperInv'
<1> USE DEF KeeperInv
<1> DEFINE k == [NoTick EXCEPT !.at = "listed", !.listed = ListPositions]
<1>1. tick[t].at = "off" /\ Advance(t, k) /\ UNCHANGED <<rows, digests, pending>>
  BY DEF TickListsChain
<1>2. ListPositions \in [Positions -> Row]
  BY DEF ListPositions, Row, TypeInv, ChainTypeOK, Account
<1>3. /\ k \in TickSlot /\ TickTypeOK(k)
      /\ k.at = "listed" /\ k.listed = ListPositions
  BY <1>2 DEF NoTick, TickSlot, TickTypeOK
<1> HIDE DEF k
<1>4. TypeInv'
  BY <1>1, <1>3, TickTypes, TickHas DEF history
<1>5. Stored'
  BY <1>1, <1>3, TickStoredStays DEF history
<1>6. RecordedChangesReach'
  BY <1>1, <1>3, TickReachStays DEF history, WillAsk
<1>7. Opened'
  <2>1. UNCHANGED <<account, asked, echo, worker>>
    BY DEF WatchFrame, watchFrame, chainVars
  <2>2. ASSUME NEW p \in Positions
        PROVE  JobOpened(p)'
    BY <2>1 DEF Opened, JobOpened, InUse
  <2>3. ASSUME NEW s \in PositionTicks \ {t}
        PROVE  TickOpened(s)'
    <3>1. tick'[s] = tick[s]
      BY <1>1 DEF Advance, TypeInv, WatchInv
    <3> QED
      BY <2>1, <3>1 DEF Opened, TickOpened, Listed, StoredPositions
  <2>4. TickOpened(t)'
    <3>1. tick'[t] = k
      BY <1>1, <1>3, OthersStillAct
    <3> QED
      BY <1>3, <2>1, <3>1 DEF TickOpened, Listed, StoredPositions, ListPositions
  <2>5. ASSUME NEW w \in Workers
        PROVE  WorkerOpened(w)'
    BY <2>1 DEF Opened, WorkerOpened
  <2> QED
    BY <2>2, <2>3, <2>4, <2>5 DEF Opened
<1> QED
  BY <1>4, <1>5, <1>6, <1>7

LEMMA ListsStoreKeeps ==
  ASSUME KeeperInv, WatchFrame, NEW t \in PositionTicks, TickListsStore(t), UNCHANGED <<faults, history>>
  PROVE  KeeperInv'
<1> USE DEF KeeperInv
<1> DEFINE k == [tick[t] EXCEPT !.at = "compared", !.previous = rows]
<1>1. tick[t].at = "listed" /\ Advance(t, k) /\ UNCHANGED <<rows, digests, pending>>
  BY DEF TickListsStore
<1>2. /\ k \in TickSlot /\ TickTypeOK(k)
      /\ k.at = "compared" /\ k.listed = tick[t].listed /\ k.previous = rows
  BY <1>1, TickHas DEF TickSlot, TickTypeOK
<1> HIDE DEF k
<1>3. TypeInv'
  BY <1>1, <1>2, TickTypes, TickHas DEF history
<1>4. Opened'
  BY <1>1, <1>2, TickOpenedStays
<1>5. RecordedChangesReach'
  BY <1>1, <1>2, TickReachStays DEF history, WillAsk
<1>6. Stored'
  <2>1. UNCHANGED <<account, asked, echo, dropped>>
    BY DEF WatchFrame, watchFrame, chainVars, history
  <2>2. ASSUME NEW p \in Positions, ~dropped
        PROVE  JobStored(p)'
    BY <1>1, <2>1, <2>2 DEF Stored, JobStored
  <2>3. ASSUME NEW s \in PositionTicks \ {t}, ~dropped
        PROVE  TickStored(s)'
    <3>1. tick'[s] = tick[s]
      BY <1>1 DEF Advance, TypeInv, WatchInv
    <3> QED
      BY <1>1, <2>3, <3>1 DEF Stored, TickStored, Listed, StoredPositions
  <2>4. TickStored(t)'
    <3>1. tick'[t] = k
      BY <1>1, <1>2, OthersStillAct
    <3> QED
      BY <1>1, <1>2, <3>1 DEF TickStored, Listed, StoredPositions
  <2> QED
    BY <2>1, <2>2, <2>3, <2>4 DEF Stored
<1> QED
  BY <1>3, <1>4, <1>5, <1>6

LEMMA UpsertsKeeps ==
  ASSUME KeeperInv, WatchFrame, NEW t \in PositionTicks, TickUpserts(t), UNCHANGED <<faults, dropped>>,
         looked' = looked \ {p \in Listed(t) : tick[t].previous[p] # tick[t].listed[p]}
  PROVE  KeeperInv'
<1> USE DEF KeeperInv
<1> DEFINE k == [tick[t] EXCEPT !.at = "stored"]
<1>1. /\ tick[t].at = "compared" /\ Advance(t, k) /\ UNCHANGED <<digests, pending>>
      /\ rows' = [p \in Positions |-> IF p \in Listed(t) THEN tick[t].listed[p] ELSE rows[p]]
  BY DEF TickUpserts, Upsert
<1>2. /\ k \in TickSlot /\ TickTypeOK(k)
      /\ k.at = "stored" /\ k.listed = tick[t].listed /\ k.previous = tick[t].previous
      /\ tick[t].listed \in [Positions -> Row]
  BY <1>1, TickHas DEF TickSlot, TickTypeOK
<1> HIDE DEF k
<1>3. \A p \in Listed(t) : p \in Positions /\ tick[t].listed[p] # Nothing
  BY DEF Listed, StoredPositions
<1>4. rows' \in [Positions -> Row] /\ \A p \in Positions : rows[p] # Nothing => rows'[p] # Nothing
  BY <1>1, <1>2, <1>3, TickHas
<1>5. TypeInv'
  BY <1>1, <1>2, <1>4, TickTypes, TickHas
<1>6. Opened'
  BY <1>1, <1>2, TickOpenedStays
<1>7. Stored'
  BY <1>1, <1>2, <1>4, TickStoredStays
<1>8. RecordedChangesReach'
  <2> SUFFICES ASSUME stage' = "running", ~dropped',
                      NEW p \in Positions, rows'[p] # Nothing, p \notin looked'
               PROVE  \/ pending' \intersect (Rescans \union {Changed(p), Removed(p)}) # {}
                      \/ \E w \in Workers : WillRead(w, p)'
                      \/ \E s \in PositionTicks : WillAsk(s, p)'
    BY DEF RecordedChangesReach, StoredPositions, Changed, Removed, Rescans, BootRescan, PrimeRescan,
           PriceRescan
  <2>1. stage = "running" /\ ~dropped /\ tick'[t] = k
    BY <1>1, <1>2, OthersStillAct DEF WatchFrame
  <2>2. CASE p \in Listed(t) /\ tick[t].previous[p] # tick[t].listed[p]
    <3>1. WillAsk(t, p)'
      BY <1>2, <1>3, <2>1, <2>2 DEF WillAsk
    <3> QED
      BY <3>1
  <2>3. CASE ~(p \in Listed(t) /\ tick[t].previous[p] # tick[t].listed[p])
    <3>1. rows[p] # Nothing
      <4>1. CASE p \in Listed(t)
        BY <1>1, <1>3, <2>1, <2>3, <4>1 DEF Stored, TickStored
      <4>2. CASE p \notin Listed(t)
        BY <1>1, <4>2
      <4> QED
        BY <4>1, <4>2
    <3>2. p \in StoredPositions(rows) \ looked
      BY <2>3, <3>1 DEF StoredPositions
    <3>3. \/ pending \intersect (Rescans \union {Changed(p), Removed(p)}) # {}
          \/ \E w \in Workers : WillRead(w, p)
          \/ \E s \in PositionTicks : WillAsk(s, p)
      BY <2>1, <3>2 DEF RecordedChangesReach
    <3>4. ~WillAsk(t, p)
      BY <1>1 DEF WillAsk
    <3> QED
      BY <1>1, <1>2, <3>3, <3>4, OthersStillAct
  <2> QED
    BY <2>2, <2>3
<1> QED
  BY <1>5, <1>6, <1>7, <1>8

LEMMA DeletesKeeps ==
  ASSUME KeeperInv, WatchFrame, NEW t \in PositionTicks, TickDeletes(t), UNCHANGED <<faults, looked>>,
         dropped' = (dropped \/ \E p \in Gone(t) : account[p].open)
  PROVE  KeeperInv'
<1> USE DEF KeeperInv
<1> DEFINE previous == [p \in Positions |-> IF p \in Gone(t) THEN Nothing ELSE tick[t].previous[p]]
           k == [tick[t] EXCEPT !.previous = previous]
<1>1. /\ tick[t].at = "stored"
      /\ rows' = [p \in Positions |-> IF p \in Gone(t) THEN Nothing ELSE rows[p]]
      /\ digests' = [p \in Positions |-> IF p \in Gone(t) THEN Nothing ELSE digests[p]]
      /\ pending' = pending \union {Removed(p) : p \in Gone(t)}
      /\ Advance(t, k)
  BY DEF TickDeletes, Delete
<1>2. previous \in [Positions -> Row]
  BY <1>1, TickHas DEF TickTypeOK, Row
<1>3. /\ k \in TickSlot /\ TickTypeOK(k)
      /\ k.at = "stored" /\ k.listed = tick[t].listed /\ k.previous = previous
  BY <1>1, <1>2, TickHas DEF TickSlot, TickTypeOK
<1> HIDE DEF k
<1>4. \A p \in Gone(t) : p \in Positions /\ tick[t].listed[p] = Nothing
  BY DEF Gone, Listed, StoredPositions
<1>5. /\ rows' \in [Positions -> Row] /\ digests' \in [Positions -> Digest]
      /\ \A p \in Positions : rows'[p] # Nothing => rows[p] # Nothing
  BY <1>1, TickHas DEF Row, Digest
<1>6. pending \subseteq pending' /\ pending' \in SUBSET ComputeJobs
  BY <1>1, <1>4, TickHas DEF ComputeJobs
<1>7. dropped' \in BOOLEAN /\ (dropped => dropped')
  BY TickHas
<1>8. TypeInv'
  BY <1>1, <1>3, <1>5, <1>6, <1>7, TickTypes, TickHas
<1>9. Opened'
  BY <1>1, <1>3, TickOpenedStays
<1>10. RecordedChangesReach'
  <2>1. \A p \in Positions : WillAsk(t, p) => p \notin Gone(t)
    BY <1>4 DEF WillAsk
  <2>2. tick'[t] = k
    BY <1>1, <1>3, <1>8, OthersStillAct
  <2>3. \A p \in Positions : WillAsk(t, p) => WillAsk(t, p)'
    BY <1>1, <1>3, <2>1, <2>2 DEF WillAsk
  <2> HIDE DEF previous
  <2> QED
    BY <1>1, <1>3, <1>5, <1>6, <1>7, <2>3, TickReachStays
<1>11. Stored'
  <2> SUFFICES ASSUME ~dropped'
               PROVE  (\A p \in Positions : JobStored(p)') /\ \A s \in PositionTicks : TickStored(s)'
    BY DEF Stored
  <2>1. ~dropped /\ \A p \in Gone(t) : ~account[p].open
    OBVIOUS
  <2>2. UNCHANGED <<account, asked, echo>>
    BY DEF WatchFrame, watchFrame, chainVars
  <2>3. ASSUME NEW p \in Positions
        PROVE  JobStored(p)'
    <3>1. CASE p \in Gone(t)
      <4>1. <<"inject", p>> \notin asked /\ ~account[p].injected /\ echo[p] = Nothing
        BY <2>1, <3>1 DEF Opened, JobOpened, InUse
      <4> QED
        BY <2>2, <4>1 DEF JobStored
    <3>2. CASE p \notin Gone(t)
      <4>1. rows'[p] = rows[p]
        BY <1>1, <3>2
      <4> QED
        BY <2>1, <2>2, <4>1 DEF Stored, JobStored
    <3> QED
      BY <3>1, <3>2
  <2>4. ASSUME NEW s \in PositionTicks
        PROVE  TickStored(s)'
    <3>1. CASE s = t
      <4>1. tick'[t] = k
        BY <1>1, <1>3, OthersStillAct
      <4> QED
        BY <1>3, <3>1, <4>1 DEF TickStored
    <3>2. CASE s # t
      <4>1. tick'[s] = tick[s]
        BY <1>1, <3>2 DEF Advance, TypeInv, WatchInv
      <4>2. ASSUME tick[s].at = "compared", NEW p \in Listed(s), tick[s].previous[p] # Nothing
            PROVE  rows'[p] # Nothing
        <5>1. account[p].open /\ p \in Positions
          BY <4>2 DEF Opened, TickOpened, Listed, StoredPositions
        <5>2. p \notin Gone(t)
          BY <2>1, <5>1
        <5>3. rows[p] # Nothing
          BY <2>1, <4>2 DEF Stored, TickStored
        <5> QED
          BY <1>1, <5>1, <5>2, <5>3
      <4> QED
        BY <4>1, <4>2 DEF TickStored, Listed, StoredPositions
    <3> QED
      BY <3>1, <3>2
  <2> QED
    BY <2>3, <2>4
<1> QED
  BY <1>8, <1>9, <1>10, <1>11

LEMMA FetchesDigestsKeeps ==
  ASSUME KeeperInv, WatchFrame, NEW t \in PositionTicks, NEW missing,
         TickFetchesDigests(t, missing), UNCHANGED history, faults' \in 0 .. MaxFaults
  PROVE  KeeperInv'
<1> USE DEF KeeperInv
<1> DEFINE next == [p \in Positions |->
                      IF p \in Listed(t) \ missing THEN FetchUserStateDigest(p) ELSE Nothing]
           k == [tick[t] EXCEPT !.at = "digested", !.next = next]
<1>1. tick[t].at = "stored" /\ Advance(t, k) /\ UNCHANGED <<rows, digests, pending>>
  BY DEF TickFetchesDigests
<1>2. next \in [Positions -> Digest]
  BY DEF TypeInv, ChainTypeOK, Account, FetchUserStateDigest, Digest
<1>3. /\ k \in TickSlot /\ TickTypeOK(k)
      /\ k.at = "digested" /\ k.listed = tick[t].listed /\ k.previous = tick[t].previous
  BY <1>1, <1>2, TickHas DEF TickSlot, TickTypeOK
<1> HIDE DEF k
<1>4. TypeInv'
  BY <1>1, <1>3, TickTypes, TickHas DEF history
<1>5. Opened'
  BY <1>1, <1>3, TickOpenedStays
<1>6. Stored'
  BY <1>1, <1>3, TickStoredStays DEF history
<1>7. RecordedChangesReach'
  <2>1. tick'[t] = k
    BY <1>1, <1>3, OthersStillAct
  <2>2. \A p \in Positions : WillAsk(t, p) => WillAsk(t, p)'
    BY <1>1, <1>3, <2>1 DEF WillAsk
  <2> QED
    BY <1>1, <1>3, <2>2, TickReachStays DEF history
<1> QED
  BY <1>4, <1>5, <1>6, <1>7

(* A tick whose digest of p differs has p listed and stored alike.         *)
LEMMA TellsOfChange ==
  ASSUME TypeInv, NEW t \in PositionTicks, tick[t].at = "digested", NEW p \in Positions,
         DigestChanged(tick[t], p) \/ WillAsk(t, p)
  PROVE  /\ p \in Listed(t)
         /\ \/ Discovered(tick[t], p)
            \/ MetadataChanged(tick[t], p)
            \/ DigestChanged(tick[t], p)
BY DEF DigestChanged, MetadataChanged, Discovered, WillAsk, Listed, StoredPositions

LEMMA NoTickFits == NoTick \in TickSlot /\ TickTypeOK(NoTick) /\ NoTick.at = "off"
BY DEF NoTick, TickSlot, TickTypeOK

LEMMA ComparesKeeps ==
  ASSUME KeeperInv, WatchFrame, NEW t \in PositionTicks, TickCompares(t), UNCHANGED <<faults, dropped>>,
         looked' = {p \in looked : ~DigestChanged(tick[t], p)}
  PROVE  KeeperInv'
<1> USE DEF KeeperInv
<1> DEFINE k == tick[t]
           told == {p \in Listed(t) : Discovered(k, p) \/ MetadataChanged(k, p) \/ DigestChanged(k, p)}
<1>1. /\ tick[t].at = "digested"
      /\ digests' = [p \in Positions |->
                       IF p \in Listed(t) /\ ~KeepsDigest(k, p) THEN k.next[p] ELSE digests[p]]
      /\ pending' = pending \union {Changed(p) : p \in told}
      /\ Advance(t, NoTick)
      /\ UNCHANGED rows
  BY DEF TickCompares
<1>2. digests' \in [Positions -> Digest]
  BY <1>1, TickHas DEF TickTypeOK
<1>3. pending \subseteq pending' /\ pending' \in SUBSET ComputeJobs
  BY <1>1, TickHas DEF ComputeJobs, Listed, StoredPositions
<1>4. looked' \in SUBSET Positions
  BY TickHas
<1>5. TypeInv'
  BY <1>1, <1>2, <1>3, <1>4, NoTickFits, TickTypes, TickHas
<1>6. Opened'
  BY <1>1, NoTickFits, TickOpenedStays
<1>7. Stored'
  BY <1>1, NoTickFits, TickStoredStays
<1>8. RecordedChangesReach'
  <2> SUFFICES ASSUME stage' = "running", ~dropped',
                      NEW p \in Positions, rows'[p] # Nothing, p \notin looked'
               PROVE  \/ pending' \intersect (Rescans \union {Changed(p), Removed(p)}) # {}
                      \/ \E w \in Workers : WillRead(w, p)'
                      \/ \E s \in PositionTicks : WillAsk(s, p)'
    BY DEF RecordedChangesReach, StoredPositions, Changed, Removed, Rescans, BootRescan, PrimeRescan,
           PriceRescan
  <2>1. CASE DigestChanged(k, p) \/ WillAsk(t, p)
    <3>1. p \in told
      BY <1>1, <2>1, TellsOfChange
    <3>2. Changed(p) \in pending'
      BY <1>1, <3>1
    <3> QED
      BY <3>2
  <2>2. CASE ~DigestChanged(k, p) /\ ~WillAsk(t, p)
    <3>1. p \in StoredPositions(rows) \ looked
      BY <1>1, <2>2 DEF StoredPositions
    <3>2. stage = "running" /\ ~dropped
      BY DEF WatchFrame
    <3>3. \/ pending \intersect (Rescans \union {Changed(p), Removed(p)}) # {}
          \/ \E w \in Workers : WillRead(w, p)
          \/ \E s \in PositionTicks : WillAsk(s, p)
      BY <3>1, <3>2 DEF RecordedChangesReach
    <3> HIDE DEF told
    <3> QED
      BY <1>1, <1>3, <2>2, <3>3, NoTickFits, OthersStillAct
  <2> QED
    BY <2>1, <2>2
<1> QED
  BY <1>5, <1>6, <1>7, <1>8

LEMMA LosesChainKeeps ==
  ASSUME KeeperInv, WatchFrame, NEW t \in PositionTicks, TickLosesChain(t), UNCHANGED history,
         faults' \in 0 .. MaxFaults
  PROVE  KeeperInv'
<1> USE DEF KeeperInv
<1>1. tick[t].at = "listed" /\ Advance(t, NoTick) /\ UNCHANGED <<rows, digests, pending>>
  BY DEF TickLosesChain
<1>2. TypeInv'
  BY <1>1, NoTickFits, TickTypes, TickHas DEF history
<1>3. Opened'
  BY <1>1, NoTickFits, TickOpenedStays
<1>4. Stored'
  BY <1>1, NoTickFits, TickStoredStays DEF history
<1>5. RecordedChangesReach'
  BY <1>1, NoTickFits, TickReachStays DEF history, WillAsk
<1> QED
  BY <1>2, <1>3, <1>4, <1>5

LEMMA LosesStoreKeeps ==
  ASSUME KeeperInv, WatchFrame, NEW t \in PositionTicks, TickLosesStore(t), dropped' = TRUE,
         looked' = looked, faults' \in 0 .. MaxFaults
  PROVE  KeeperInv'
<1> USE DEF KeeperInv
<1>1. tick[t].at \in {"compared", "stored"} /\ Advance(t, NoTick) /\ UNCHANGED <<digests, pending>>
  BY DEF TickLosesStore
<1>2. /\ rows' \in [Positions -> Row]
  BY <1>1, TickHas DEF TickLosesStore, Upsert, TickTypeOK
<1>3. TypeInv'
  BY <1>1, <1>2, NoTickFits, TickTypes, TickHas
<1>4. Opened'
  BY <1>1, NoTickFits, TickOpenedStays
<1>5. Stored' /\ RecordedChangesReach'
  BY DEF Stored, RecordedChangesReach
<1> QED
  BY <1>3, <1>4, <1>5

LEMMA PositionWatchKeeps ==
  ASSUME KeeperInv, NEW t \in PositionTicks, PositionWatch(t) \/ PositionWatchFails(t)
  PROVE  KeeperInv'
<1>1. WatchFrame
  BY DEF WatchFrame, PositionWatch, PositionWatchFails, Running, Fault
<1>2. faults' \in 0 .. MaxFaults
  BY BoundAssumption DEF PositionWatch, PositionWatchFails, Fault, KeeperInv, TypeInv, MainInv
<1>3. CASE PositionWatch(t)
  BY <1>1, <1>2, <1>3, ListsChainKeeps, ListsStoreKeeps, UpsertsKeeps, DeletesKeeps,
     FetchesDigestsKeeps, ComparesKeeps
     DEF PositionWatch, history
<1>4. CASE PositionWatchFails(t)
  BY <1>1, <1>2, <1>4, LosesChainKeeps, LosesStoreKeeps, FetchesDigestsKeeps
     DEF PositionWatchFails, history
<1> QED
  BY <1>3, <1>4

-----------------------------------------------------------------------------
(* The LTV workers.                                                        *)

WorkFrame == UNCHANGED <<drop, priceVars, watchVars, echo, moves, stage>>

SlotFits(k) ==
  /\ k \in WorkerSlot
  /\ k.at \in {"risk", "decide"} => k.on \in Positions /\ k.row \in BOOLEAN
  /\ k.at = "free" => k.todo = {}

LEMMA IdleFits == SlotFits(Idle) /\ Idle.at = "free"
BY DEF SlotFits, Idle, WorkerSlot, Row

(* A worker that starts on what is left of a job.                          *)
LEMMA AtRowFits ==
  ASSUME NEW todo \in SUBSET Positions
  PROVE  LET k == [Idle EXCEPT !.at = "row", !.todo = todo]
         IN  SlotFits(k) /\ k.at = "row" /\ k.todo = todo
<1> DEFINE k == [Idle EXCEPT !.at = "row", !.todo = todo]
<1>1. Idle \in WorkerSlot
  BY IdleFits DEF SlotFits
<1>2. k \in WorkerSlot /\ k.at = "row" /\ k.todo = todo
  BY <1>1 DEF WorkerSlot
<1> HIDE DEF k
<1>3. SlotFits(k) /\ k.at = "row" /\ k.todo = todo
  BY <1>2 DEF SlotFits
<1> QED
  BY <1>3 DEF k

(* ... or is to list the rows for a rescan.                                *)
LEMMA AtListFits == LET k == [Idle EXCEPT !.at = "list"] IN SlotFits(k) /\ k.at = "list"
<1> DEFINE k == [Idle EXCEPT !.at = "list"]
<1>1. k = [at |-> "list", todo |-> {}, on |-> Nothing, row |-> Nothing, ltv |-> 0]
  BY DEF Idle
<1> HIDE DEF k
<1>2. SlotFits(k) /\ k.at = "list"
  BY <1>1 DEF SlotFits, WorkerSlot, Row
<1> QED
  BY <1>2 DEF k

LEMMA WorkerHas ==
  ASSUME TypeInv, NEW w \in Workers
  PROVE  /\ SlotFits(worker[w])
         /\ worker \in [Workers -> WorkerSlot]
         /\ rows \in [Positions -> Row] /\ account \in [Positions -> Account] /\ drop \in Drops
         /\ pending \in SUBSET ComputeJobs /\ asked \in SUBSET Jobs
         /\ faults \in 0 .. MaxFaults /\ looked \in SUBSET Positions /\ dropped \in BOOLEAN
BY DEF TypeInv, WorkInv, SlotFits, ChainTypeOK, StoreTypeOK, JobsTypeOK, ExecuteTypeOK, MainInv

LEMMA WorkTypes ==
  ASSUME TypeInv, WorkFrame, NEW w \in Workers, NEW k, SlotFits(k), Resume(w, k),
         account' \in [Positions -> Account], UNCHANGED rows,
         pending' \in SUBSET ComputeJobs, asked' \in SUBSET Jobs,
         faults' \in 0 .. MaxFaults, looked' \in SUBSET Positions, dropped' \in BOOLEAN
  PROVE  TypeInv'
<1>1. WorkInv'
  BY DEF TypeInv, WorkInv, SlotFits, Resume
<1>2. ChainTypeOK' /\ StoreTypeOK' /\ JobsTypeOK' /\ PriceTypeOK' /\ WatchInv'
  BY DEF TypeInv, WorkFrame, priceVars, watchVars, ChainTypeOK, StoreTypeOK, JobsTypeOK,
         ExecuteTypeOK, PriceTypeOK, WatchInv
<1>3. MainInv'
  BY DEF TypeInv, MainInv, WorkFrame
<1> QED
  BY <1>1, <1>2, <1>3 DEF TypeInv

(* A worker that asks for nothing and is not to decide.                    *)
LEMMA WorkOpenedStays ==
  ASSUME TypeInv, Opened, WorkFrame, NEW w \in Workers, NEW k, Resume(w, k), k.at # "decide",
         UNCHANGED <<account, asked>>
  PROVE  Opened'
<1>1. \A v \in Workers : worker'[v].at = "decide" => worker'[v] = worker[v]
  BY DEF Resume, TypeInv, WorkInv
<1>2. UNCHANGED <<tick, echo>>
  BY DEF WorkFrame, watchVars
<1>3. StaysOpen /\ \A p \in Positions : InUse(p)' => account'[p].open
  BY DEF StaysOpen, Opened, JobOpened, InUse
<1> QED
  BY <1>1, <1>2, <1>3, OpenedStays

LEMMA WorkStoredStays ==
  ASSUME TypeInv, Stored, WorkFrame, UNCHANGED rows, asked' \subseteq asked,
         \A p \in Positions : account'[p].injected => account[p].injected,
         dropped => dropped'
  PROVE  Stored'
BY StoredStays DEF WorkFrame, watchVars

(* What the others would do they still would do.                           *)
LEMMA OthersStillRead ==
  ASSUME TypeInv, WorkFrame, NEW w \in Workers, NEW k, Resume(w, k)
  PROVE  /\ \A v \in Workers \ {w}, p \in Positions : WillRead(v, p)' <=> WillRead(v, p)
         /\ \A s \in PositionTicks, p \in Positions : WillAsk(s, p)' <=> WillAsk(s, p)
         /\ worker'[w] = k
<1>1. worker' = [worker EXCEPT ![w] = k] /\ worker \in [Workers -> WorkerSlot]
  BY DEF Resume, TypeInv, WorkInv
<1>2. tick' = tick
  BY DEF WorkFrame, watchVars
<1>3. \A v \in Workers \ {w}, p \in Positions : WillRead(v, p)' <=> WillRead(v, p)
  BY <1>1 DEF WillRead
<1>4. \A s \in PositionTicks, p \in Positions : WillAsk(s, p)' <=> WillAsk(s, p)
  BY <1>2 DEF WillAsk
<1> QED
  BY <1>1, <1>3, <1>4

(* A worker that leaves unread only what is not stored or was read.        *)
LEMMA WorkReachStays ==
  ASSUME TypeInv, RecordedChangesReach, WorkFrame, NEW w \in Workers, NEW k, Resume(w, k),
         UNCHANGED rows, pending \subseteq pending', looked \subseteq looked', dropped => dropped',
         \A p \in Positions :
           rows[p] # Nothing /\ p \notin looked' /\ WillRead(w, p)
             => k.at = "list" \/ (p \in k.todo /\ ~(k.at = "decide" /\ k.on = p))
  PROVE  RecordedChangesReach'
<1>1. \A v \in Workers, p \in Positions :
        rows'[p] # Nothing /\ p \notin looked' /\ WillRead(v, p) => WillRead(v, p)'
  BY OthersStillRead DEF WillRead
<1>2. \A s \in PositionTicks, p \in Positions : WillAsk(s, p) => WillAsk(s, p)'
  BY OthersStillRead
<1>3. stage' = stage
  BY DEF WorkFrame
<1> QED
  BY <1>1, <1>2, <1>3, ReachStays

LEMMA TakesKeeps ==
  ASSUME KeeperInv, WorkFrame, NEW w \in Workers, WorkerTakes(w), UNCHANGED <<faults, history>>
  PROVE  KeeperInv'
<1> USE DEF KeeperInv
<1>1. PICK job \in pending :
        /\ pending' = pending \ {job}
        /\ Resume(w, IF job[2] \in Positions THEN [Idle EXCEPT !.at = "row", !.todo = {job[2]}]
                                            ELSE [Idle EXCEPT !.at = "list"])
  BY DEF WorkerTakes
<1> DEFINE k == IF job[2] \in Positions THEN [Idle EXCEPT !.at = "row", !.todo = {job[2]}]
                                        ELSE [Idle EXCEPT !.at = "list"]
<1>2. worker[w].at = "free" /\ UNCHANGED <<account, rows, asked>> /\ Resume(w, k)
  BY <1>1 DEF WorkerTakes
<1>3. /\ SlotFits(k)
      /\ job[2] \in Positions => k.at = "row" /\ k.todo = {job[2]}
      /\ job[2] \notin Positions => k.at = "list"
  <2>1. CASE job[2] \in Positions
    <3>1. {job[2]} \in SUBSET Positions
      BY <2>1
    <3> QED
      BY <2>1, <3>1, AtRowFits
  <2>2. CASE job[2] \notin Positions
    BY <2>2, AtListFits
  <2> QED
    BY <2>1, <2>2
<1> HIDE DEF k
<1>4. TypeInv'
  BY <1>1, <1>2, <1>3, WorkTypes, WorkerHas DEF history
<1>5. Opened'
  BY <1>2, <1>3, WorkOpenedStays
<1>6. Stored'
  BY <1>2, WorkStoredStays DEF history
<1>7. RecordedChangesReach'
  <2> SUFFICES ASSUME stage' = "running", ~dropped',
                      NEW p \in Positions, rows'[p] # Nothing, p \notin looked'
               PROVE  \/ pending' \intersect (Rescans \union {Changed(p), Removed(p)}) # {}
                      \/ \E v \in Workers : WillRead(v, p)'
                      \/ \E s \in PositionTicks : WillAsk(s, p)'
    BY DEF RecordedChangesReach, StoredPositions, Changed, Removed, Rescans, BootRescan, PrimeRescan,
           PriceRescan
  <2>1. p \in StoredPositions(rows) \ looked /\ stage = "running" /\ ~dropped
    BY <1>2 DEF StoredPositions, WorkFrame, history
  <2>2. \/ pending \intersect (Rescans \union {Changed(p), Removed(p)}) # {}
        \/ \E v \in Workers : WillRead(v, p)
        \/ \E s \in PositionTicks : WillAsk(s, p)
    BY <2>1 DEF RecordedChangesReach
  <2>3. worker'[w] = k
    BY <1>2, OthersStillRead
  <2>4. CASE job \in Rescans \union {Changed(p), Removed(p)}
    <3>1. job[2] \notin Positions \/ job[2] = p
      BY <2>4, KeyAssumption DEF Rescans, BootRescan, PrimeRescan, PriceRescan, Changed, Removed
    <3>2. WillRead(w, p)'
      BY <1>3, <2>3, <3>1 DEF WillRead
    <3> QED
      BY <3>2
  <2>5. CASE job \notin Rescans \union {Changed(p), Removed(p)}
    <3>1. ~WillRead(w, p)
      BY <1>2, WorkerHas DEF SlotFits, WillRead
    <3> QED
      BY <1>1, <1>2, <2>2, <2>5, <3>1, OthersStillRead
  <2> QED
    BY <2>4, <2>5
<1> QED
  BY <1>4, <1>5, <1>6, <1>7

LEMMA WorkerListsKeeps ==
  ASSUME KeeperInv, WorkFrame, NEW w \in Workers, WorkerLists(w), UNCHANGED <<faults, history>>
  PROVE  KeeperInv'
<1> USE DEF KeeperInv
<1> DEFINE all == StoredPositions(rows)
           k == IF all = {} THEN Idle ELSE [Idle EXCEPT !.at = "row", !.todo = all]
<1>1. UNCHANGED <<account, rows, pending, asked>> /\ Resume(w, k)
  BY DEF WorkerLists
<1>2. all \in SUBSET Positions
  BY DEF StoredPositions
<1>3. /\ SlotFits(k) /\ k.at # "decide"
      /\ all # {} => k.todo = all
  BY <1>2, AtRowFits, IdleFits
<1> HIDE DEF k
<1>4. TypeInv'
  BY <1>1, <1>3, WorkTypes, WorkerHas DEF history
<1>5. Opened'
  BY <1>1, <1>3, WorkOpenedStays
<1>6. Stored'
  BY <1>1, WorkStoredStays DEF history
<1>7. \A p \in Positions : rows[p] # Nothing => p \in k.todo
  BY <1>3 DEF StoredPositions
<1>8. RecordedChangesReach'
  BY <1>1, <1>3, <1>7, WorkReachStays DEF history
<1> QED
  BY <1>4, <1>5, <1>6, <1>8

(* A worker done with p has everything else of its job left.               *)
LEMMA DoneLeaves ==
  ASSUME TypeInv, NEW w \in Workers, NEW p
  PROVE  \E k : /\ Done(w, p) => Resume(w, k)
                /\ SlotFits(k) /\ k.at \in {"free", "row"}
                /\ k.todo = worker[w].todo \ {p}
<1> DEFINE left == worker[w].todo \ {p}
           k == IF left = {} THEN Idle ELSE [Idle EXCEPT !.at = "row", !.todo = left]
<1>1. left \in SUBSET Positions
  BY WorkerHas DEF SlotFits, WorkerSlot
<1>2. SlotFits(k) /\ k.at \in {"free", "row"} /\ k.todo = left
  BY <1>1, AtRowFits, IdleFits DEF Idle
<1>3. Done(w, p) => Resume(w, k)
  BY DEF Done
<1> HIDE DEF k
<1> QED
  BY <1>2, <1>3

LEMMA ReadsRowKeeps ==
  ASSUME KeeperInv, WorkFrame, NEW w \in Workers, WorkerReadsRow(w), UNCHANGED <<faults, history>>
  PROVE  KeeperInv'
<1> USE DEF KeeperInv
<1>1. PICK p \in worker[w].todo :
        IF rows[p] = Nothing
          THEN Done(w, p)
          ELSE Resume(w, [worker[w] EXCEPT !.at = "risk", !.on = p, !.row = rows[p]])
  BY DEF WorkerReadsRow
<1>2. worker[w].at = "row" /\ p \in Positions /\ UNCHANGED <<account, rows, pending, asked>>
  BY WorkerHas DEF WorkerReadsRow, SlotFits, WorkerSlot
<1>3. PICK k : /\ SlotFits(k) /\ Resume(w, k) /\ k.at # "decide"
               /\ \A q \in worker[w].todo : rows[q] # Nothing => q \in k.todo
  <2>1. CASE rows[p] = Nothing
    BY <1>1, <2>1, DoneLeaves
  <2>2. CASE rows[p] # Nothing
    <3> DEFINE k == [worker[w] EXCEPT !.at = "risk", !.on = p, !.row = rows[p]]
    <3>1. rows[p] \in BOOLEAN
      BY <1>2, <2>2, WorkerHas DEF Row
    <3>2. SlotFits(k) /\ k.at = "risk" /\ k.todo = worker[w].todo
      BY <1>2, <3>1, WorkerHas DEF SlotFits, WorkerSlot
    <3>3. Resume(w, k)
      BY <1>1, <2>2
    <3> HIDE DEF k
    <3> QED
      BY <3>2, <3>3
  <2> QED
    BY <2>1, <2>2
<1>4. TypeInv'
  BY <1>2, <1>3, WorkTypes, WorkerHas DEF history
<1>5. Opened'
  BY <1>2, <1>3, WorkOpenedStays
<1>6. Stored'
  BY <1>2, WorkStoredStays DEF history
<1>7. \A q \in Positions : rows[q] # Nothing /\ WillRead(w, q) => q \in k.todo
  BY <1>2, <1>3 DEF WillRead
<1>8. RecordedChangesReach'
  BY <1>2, <1>3, <1>7, WorkReachStays DEF history
<1> QED
  BY <1>4, <1>5, <1>6, <1>8

(* Only a position with a debt has an LTV above the insuring threshold.    *)
LEMMA AboveIsUsed ==
  ASSUME NEW load \in Loads, NEW at \in Drops, NEW buffered \in BOOLEAN
  PROVE  /\ Ltv(load, at, buffered) \in Int
         /\ Ltv(load, at, buffered) > InjectAbove => load # 0
BY LevelAssumption DEF Ltv

(* What a transaction does to the accounts.                                *)
LEMMA TouchDoes ==
  ASSUME TypeInv, NEW p \in Positions, NEW a \in Account, Touch(p, a)
  PROVE  /\ account' \in [Positions -> Account]
         /\ account'[p].open = a.open /\ account'[p].injected = a.injected
         /\ account'[p].load = a.load
         /\ \A q \in Positions \ {p} : account'[q] = account[q]
<1> DEFINE b == [a EXCEPT !.valuedAt = drop]
<1>1. b \in Account /\ b.open = a.open /\ b.injected = a.injected /\ b.load = a.load
  BY DEF Account, TypeInv, ChainTypeOK
<1>2. account' = [account EXCEPT ![p] = b] /\ account \in [Positions -> Account]
  BY DEF Touch, TypeInv, ChainTypeOK
<1> HIDE DEF b
<1> QED
  BY <1>1, <1>2

LEMMA ReadsRiskKeeps ==
  ASSUME KeeperInv, WorkFrame, NEW w \in Workers, NEW lands \in {"before", "after", "never"},
         ReadsRisk(w, lands), UNCHANGED <<faults, dropped>>,
         looked' = looked \union {worker[w].on}
  PROVE  KeeperInv'
<1> USE DEF KeeperInv
<1> DEFINE p == worker[w].on
           ltv == IF lands = "before" THEN LiveLtv(p) ELSE FetchPositionRisk(p)
           k == [worker[w] EXCEPT !.at = "decide", !.ltv = ltv]
<1>1. /\ worker[w].at = "risk" /\ Resume(w, k)
      /\ IF lands = "never" THEN UNCHANGED account ELSE RefreshObligation(p)
      /\ UNCHANGED <<rows, pending, asked>>
  BY DEF ReadsRisk
<1>2. p \in Positions
  BY <1>1, WorkerHas DEF SlotFits
<1>3. account[p] \in Account /\ account \in [Positions -> Account] /\ drop \in Drops
  BY <1>2, WorkerHas
<1>4. ltv \in Int /\ (ltv > InjectAbove => account[p].load # 0)
  BY <1>3, AboveIsUsed DEF LiveLtv, FetchPositionRisk, Account
<1>5. /\ SlotFits(k) /\ k.at = "decide" /\ k.todo = worker[w].todo /\ k.on = p /\ k.ltv = ltv
  BY <1>1, <1>4, WorkerHas DEF SlotFits, WorkerSlot
<1> HIDE DEF k, ltv
<1>6. /\ account' \in [Positions -> Account]
      /\ \A q \in Positions : /\ account'[q].open = account[q].open
                              /\ account'[q].injected = account[q].injected
                              /\ account'[q].load = account[q].load
  BY <1>1, <1>2, <1>3, TouchDoes DEF RefreshObligation
<1>7. TypeInv'
  BY <1>1, <1>2, <1>5, <1>6, WorkTypes, WorkerHas
<1>8. Stored'
  BY <1>1, <1>6, WorkStoredStays
<1>9. RecordedChangesReach'
  BY <1>1, <1>5, WorkReachStays DEF WillRead
<1>10. Opened'
  <2>1. UNCHANGED <<tick, echo>>
    BY DEF WorkFrame, watchVars
  <2>2. ASSUME NEW q \in Positions
        PROVE  JobOpened(q)'
    BY <1>1, <1>6, <2>1 DEF Opened, JobOpened, InUse
  <2>3. ASSUME NEW t \in PositionTicks
        PROVE  TickOpened(t)'
    BY <1>6, <2>1 DEF Opened, TickOpened, Listed, StoredPositions
  <2>4. ASSUME NEW v \in Workers \ {w}
        PROVE  WorkerOpened(v)'
    <3>1. worker'[v] = worker[v]
      BY <1>1 DEF Resume, TypeInv, WorkInv
    <3> QED
      BY <1>6, <3>1 DEF Opened, WorkerOpened, TypeInv, WorkInv
  <2>5. WorkerOpened(w)'
    <3>1. worker'[w] = k
      BY <1>1, OthersStillRead
    <3>2. ltv > InjectAbove => account[p].open
      BY <1>2, <1>4 DEF Opened, JobOpened, InUse
    <3> QED
      BY <1>2, <1>5, <1>6, <3>1, <3>2 DEF WorkerOpened
  <2> QED
    BY <2>2, <2>3, <2>4, <2>5 DEF Opened
<1> QED
  BY <1>7, <1>8, <1>9, <1>10

LEMMA DecidesKeeps ==
  ASSUME KeeperInv, WorkFrame, NEW w \in Workers, WorkerDecides(w), UNCHANGED <<faults, history>>
  PROVE  KeeperInv'
<1> USE DEF KeeperInv
<1> DEFINE p == worker[w].on
           wanted == Wanted(worker[w].row, worker[w].ltv)
<1>1. /\ worker[w].at = "decide" /\ rows[p] # Nothing
      /\ asked' = asked \union (wanted \X {p})
      /\ Done(w, p) /\ UNCHANGED <<account, rows, pending>>
  BY DEF WorkerDecides, CanSaveRisk
<1>2. p \in Positions
  BY <1>1, WorkerHas DEF SlotFits
<1>3. PICK k : /\ Resume(w, k) /\ SlotFits(k) /\ k.at \in {"free", "row"}
               /\ k.todo = worker[w].todo \ {p}
  BY <1>1, DoneLeaves
<1>4. wanted \subseteq Kinds /\ ("inject" \in wanted => worker[w].ltv > InjectAbove)
  BY DEF Wanted, Kinds
<1> HIDE DEF wanted
<1>5. asked' \in SUBSET Jobs
  BY <1>1, <1>2, <1>4, WorkerHas DEF Jobs
<1>6. TypeInv'
  BY <1>1, <1>3, <1>5, WorkTypes, WorkerHas DEF history
<1>7. RecordedChangesReach'
  <2>1. \A q \in Positions : WillRead(w, q) => q \in k.todo
    BY <1>1, <1>3 DEF WillRead
  <2> QED
    BY <1>1, <1>3, <2>1, WorkReachStays DEF history
<1>8. UNCHANGED <<account, rows, tick, echo, dropped>>
  BY <1>1 DEF WorkFrame, watchVars, history
<1>9. \A kind, q : <<kind, q>> \in asked' => <<kind, q>> \in asked \/ (kind \in wanted /\ q = p)
  BY <1>1
<1>10. Opened'
  <2>1. ASSUME NEW q \in Positions
        PROVE  JobOpened(q)'
    <3>1. "inject" \in wanted => account[p].open
      BY <1>1, <1>4 DEF Opened, WorkerOpened
    <3> QED
      BY <1>8, <1>9, <3>1 DEF Opened, JobOpened, InUse
  <2>2. ASSUME NEW t \in PositionTicks
        PROVE  TickOpened(t)'
    BY <1>8 DEF Opened, TickOpened, Listed, StoredPositions
  <2>3. ASSUME NEW v \in Workers
        PROVE  WorkerOpened(v)'
    <3>1. worker'[v].at = "decide" => worker'[v] = worker[v]
      BY <1>3 DEF Resume, TypeInv, WorkInv
    <3> QED
      BY <1>8, <3>1 DEF Opened, WorkerOpened
  <2> QED
    BY <2>1, <2>2, <2>3 DEF Opened
<1>11. Stored'
  <2>1. ASSUME NEW q \in Positions, ~dropped
        PROVE  JobStored(q)'
    BY <1>1, <1>8, <1>9, <2>1 DEF Stored, JobStored
  <2>2. ASSUME NEW t \in PositionTicks, ~dropped
        PROVE  TickStored(t)'
    BY <1>8, <2>2 DEF Stored, TickStored, Listed, StoredPositions
  <2> QED
    BY <1>8, <2>1, <2>2 DEF Stored
<1> QED
  BY <1>6, <1>7, <1>10, <1>11

(* A job that is lost is lost to the record.                               *)
LEMMA GivesUpKeeps ==
  ASSUME KeeperInv, WorkFrame, NEW w \in Workers, Resume(w, Idle),
         UNCHANGED <<account, rows, pending, asked>>,
         dropped' = TRUE, looked' = looked, faults' \in 0 .. MaxFaults
  PROVE  KeeperInv'
<1> USE DEF KeeperInv
<1>1. TypeInv'
  BY IdleFits, WorkTypes, WorkerHas
<1>2. Opened'
  BY IdleFits, WorkOpenedStays
<1>3. Stored' /\ RecordedChangesReach'
  BY DEF Stored, RecordedChangesReach
<1> QED
  BY <1>1, <1>2, <1>3

LEMMA WorkKeeps ==
  ASSUME KeeperInv, NEW w \in Workers, Work(w) \/ WorkFails(w)
  PROVE  KeeperInv'
<1>1. WorkFrame
  BY DEF WorkFrame, Work, WorkFails, Running, Fault
<1>2. CASE Work(w)
  <2>1. faults' = faults /\ faults' \in 0 .. MaxFaults
    BY <1>2 DEF Work, KeeperInv, TypeInv, MainInv
  <2>2. CASE WorkerTakes(w) /\ UNCHANGED history
    BY <1>1, <2>1, <2>2, TakesKeeps
  <2>3. CASE WorkerLists(w) /\ UNCHANGED history
    BY <1>1, <2>1, <2>3, WorkerListsKeeps
  <2>4. CASE WorkerReadsRow(w) /\ UNCHANGED history
    BY <1>1, <2>1, <2>4, ReadsRowKeeps
  <2>5. CASE WorkerReadsRisk(w) /\ looked' = looked \union {worker[w].on} /\ UNCHANGED dropped
    BY <1>1, <2>1, <2>5, ReadsRiskKeeps DEF WorkerReadsRisk
  <2>6. CASE WorkerDecides(w) /\ UNCHANGED history
    BY <1>1, <2>1, <2>6, DecidesKeeps
  <2>7. CASE WorkerRefused(w) /\ dropped' = TRUE /\ UNCHANGED looked
    BY <1>1, <2>1, <2>7, GivesUpKeeps DEF WorkerRefused
  <2> QED
    BY <1>2, <2>2, <2>3, <2>4, <2>5, <2>6, <2>7 DEF Work
<1>3. CASE WorkFails(w)
  <2>1. faults' \in 0 .. MaxFaults
    BY <1>3, BoundAssumption DEF WorkFails, Fault, KeeperInv, TypeInv, MainInv
  <2> QED
    BY <1>1, <1>3, <2>1, GivesUpKeeps DEF WorkFails, WorkerFails
<1> QED
  BY <1>2, <1>3

-----------------------------------------------------------------------------
(* Executors and the world.                                                *)

LEMMA ExecutorActsKeeps ==
  ASSUME KeeperInv, NEW kind \in Kinds, NEW p \in Positions, ExecutorActs(kind, p)
  PROVE  KeeperInv'
<1> USE DEF KeeperInv
<1>1. /\ <<kind, p>> \in asked /\ asked' \subseteq asked /\ UNCHANGED stage
      /\ UNCHANGED <<drop, rows, pending, priceVars, watchVars, worker, faults, history>>
  BY DEF ExecutorActs, Running
<1>2. /\ account \in [Positions -> Account] /\ account[p] \in Account /\ drop \in Drops
      /\ asked \in SUBSET Jobs /\ echo \in [Positions -> Row] /\ moves \in 0 .. MaxMoves
  BY DEF TypeInv, ChainTypeOK, JobsTypeOK, ExecuteTypeOK, MainInv
<1>3. CASE UNCHANGED <<account, echo, moves>>
  <2>1. TypeInv'
    BY <1>1, <1>2, <1>3 DEF TypeInv, history, priceVars, watchVars, ChainTypeOK, StoreTypeOK,
       JobsTypeOK, ExecuteTypeOK, PriceTypeOK, WatchInv, WorkInv, MainInv
  <2>2. Opened'
    BY <1>1, <1>3, OpenedStays DEF watchVars, StaysOpen, Opened, JobOpened, InUse
  <2>3. Stored'
    BY <1>1, <1>3, StoredStays DEF watchVars, history
  <2>4. RecordedChangesReach'
    BY <1>1, ReachStays DEF watchVars, history, WillRead, WillAsk
  <2> QED
    BY <2>1, <2>2, <2>3, <2>4
<1>4. CASE Effect(kind, p) /\ echo' = [echo EXCEPT ![p] = account'[p].injected]
  <2>1. /\ account' \in [Positions -> Account]
        /\ account'[p].open = account[p].open /\ account[p].open
        /\ account[p].injected \/ kind = "inject"
        /\ \A q \in Positions \ {p} : account'[q] = account[q]
    <3>1. CASE kind = "inject" /\ CanInject(p) /\ InjectCollateral(p)
      <4> DEFINE a == [account[p] EXCEPT !.injected = TRUE]
      <4>1. a \in Account /\ a.open = account[p].open /\ Touch(p, a)
        BY <1>2, <3>1 DEF Account, InjectCollateral
      <4>2. account[p].load # 0
        BY <1>2, <3>1, AboveIsUsed DEF CanInject, LiveLtv, Account
      <4>3. account[p].open
        BY <4>2 DEF Opened, JobOpened, InUse
      <4> HIDE DEF a
      <4> QED
        BY <3>1, <4>1, <4>3, TouchDoes
    <3>2. CASE kind = "withdraw" /\ CanWithdraw(p) /\ WithdrawInjected(p)
      <4> DEFINE a == [account[p] EXCEPT !.injected = FALSE]
      <4>1. a \in Account /\ a.open = account[p].open /\ Touch(p, a)
        BY <1>2, <3>2 DEF Account, WithdrawInjected
      <4>2. account[p].injected /\ account[p].open
        BY <3>2 DEF CanWithdraw, Opened, JobOpened, InUse
      <4> HIDE DEF a
      <4> QED
        BY <4>1, <4>2, TouchDoes
    <3>3. CASE kind = "liquidate" /\ CanLiquidate(p) /\ Liquidate(p)
      <4> DEFINE a == [account[p] EXCEPT !.injected = FALSE, !.load = 0]
      <4>1. a \in Account /\ a.open = account[p].open /\ Touch(p, a)
        BY <1>2, <3>3, LevelAssumption DEF Account, Liquidate
      <4>2. account[p].injected /\ account[p].open
        BY <3>3 DEF CanLiquidate, Opened, JobOpened, InUse
      <4> HIDE DEF a
      <4> QED
        BY <4>1, <4>2, TouchDoes
    <3> QED
      BY <1>4, <3>1, <3>2, <3>3 DEF Effect
  <2>2. /\ account'[p].injected \in BOOLEAN /\ echo' \in [Positions -> Row]
        /\ \A q \in Positions \ {p} : echo'[q] = echo[q]
    BY <1>2, <1>4, <2>1 DEF Account, Row
  <2>3. moves' \in 0 .. MaxMoves
    BY <1>2, <1>4, BoundAssumption DEF Effect, Moves
  <2>4. TypeInv'
    BY <1>1, <1>2, <2>1, <2>2, <2>3 DEF TypeInv, history, priceVars, watchVars, ChainTypeOK,
       StoreTypeOK, JobsTypeOK, ExecuteTypeOK, PriceTypeOK, WatchInv, WorkInv, MainInv
  <2>5. RecordedChangesReach'
    BY <1>1, ReachStays DEF watchVars, history, WillRead, WillAsk
  <2>6. \A q \in Positions : account'[q].open = account[q].open
    BY <2>1
  <2>7. Opened'
    <3>1. ASSUME NEW q \in Positions
          PROVE  JobOpened(q)'
      <4>1. CASE q = p
        BY <2>1, <4>1 DEF JobOpened
      <4>2. CASE q # p
        BY <1>1, <2>1, <2>2, <4>2 DEF Opened, JobOpened, InUse
      <4> QED
        BY <4>1, <4>2
    <3>2. ASSUME NEW t \in PositionTicks
          PROVE  TickOpened(t)'
      BY <1>1, <2>6 DEF Opened, TickOpened, Listed, StoredPositions, watchVars
    <3>3. ASSUME NEW w \in Workers
          PROVE  WorkerOpened(w)'
      BY <1>1, <2>6 DEF Opened, WorkerOpened, TypeInv, WorkInv
    <3> QED
      BY <3>1, <3>2, <3>3 DEF Opened
  <2>8. Stored'
    <3>1. ASSUME NEW q \in Positions, ~dropped
          PROVE  JobStored(q)'
      <4>1. CASE q = p
        <5>1. rows[p] # Nothing
          BY <1>1, <2>1, <3>1 DEF Stored, JobStored
        <5> QED
          BY <1>1, <4>1, <5>1 DEF JobStored
      <4>2. CASE q # p
        BY <1>1, <2>1, <2>2, <3>1, <4>2 DEF Stored, JobStored
      <4> QED
        BY <4>1, <4>2
    <3>2. ASSUME NEW t \in PositionTicks, ~dropped
          PROVE  TickStored(t)'
      BY <1>1, <3>2 DEF Stored, TickStored, Listed, StoredPositions, watchVars
    <3> QED
      BY <1>1, <3>1, <3>2 DEF Stored, history
  <2> QED
    BY <2>4, <2>5, <2>7, <2>8
<1> QED
  BY <1>3, <1>4 DEF ExecutorActs

LEMMA WritesBackKeeps ==
  ASSUME KeeperInv, NEW p \in Positions, ExecutorWritesBack(p)
  PROVE  KeeperInv'
<1> USE DEF KeeperInv
<1>1. /\ UNCHANGED <<chainVars, jobs, priceVars, watchVars, worker, moves, faults, history, stage>>
      /\ echo[p] # Nothing
      /\ rows' = [q \in Positions |-> IF q \in {p} THEN echo[q] ELSE rows[q]]
      /\ echo' = [echo EXCEPT ![p] = Nothing]
  BY DEF ExecutorWritesBack, Upsert, Running
<1>2. rows \in [Positions -> Row] /\ echo \in [Positions -> Row]
  BY DEF TypeInv, StoreTypeOK, MainInv
<1>3. rows' \in [Positions -> Row] /\ echo' \in [Positions -> Row]
  BY <1>1, <1>2 DEF Row
<1>4. TypeInv'
  BY <1>1, <1>3 DEF TypeInv, chainVars, jobs, history, priceVars, watchVars, ChainTypeOK,
     StoreTypeOK, JobsTypeOK, ExecuteTypeOK, PriceTypeOK, WatchInv, WorkInv, MainInv
<1>5. \A q \in Positions : /\ rows[q] # Nothing => rows'[q] # Nothing
                           /\ echo'[q] # Nothing => echo[q] # Nothing
  BY <1>1, <1>2
<1>6. Opened'
  BY <1>1, <1>5, OpenedStays DEF chainVars, jobs, watchVars, StaysOpen, Opened, JobOpened, InUse
<1>7. Stored'
  BY <1>1, <1>5, StoredStays DEF chainVars, jobs, watchVars, history
<1>8. RecordedChangesReach'
  <2>1. CASE dropped
    BY <1>1, <2>1 DEF RecordedChangesReach, history
  <2>2. CASE ~dropped
    <3>1. rows[p] # Nothing
      BY <1>1, <2>2 DEF Stored, JobStored
    <3>2. \A q \in Positions : rows'[q] # Nothing => rows[q] # Nothing
      BY <1>1, <3>1
    <3> QED
      BY <1>1, <3>2, ReachStays DEF jobs, watchVars, history, WillRead, WillAsk
  <2> QED
    BY <2>1, <2>2
<1> QED
  BY <1>4, <1>6, <1>7, <1>8

LEMMA WorldMovesKeeps ==
  ASSUME KeeperInv, WorldMoves
  PROVE  KeeperInv'
<1> USE DEF KeeperInv
<1>1. UNCHANGED <<rows, pending, asked, priceVars, watchVars, worker, stage, echo, faults, history>>
  BY DEF WorldMoves, process, jobs
<1>2. account \in [Positions -> Account] /\ drop \in Drops /\ moves \in 0 .. MaxMoves
  BY DEF TypeInv, ChainTypeOK, MainInv
<1>3. moves' \in 0 .. MaxMoves
  BY <1>2, BoundAssumption DEF WorldMoves, Moves
<1>4. /\ account' \in [Positions -> Account] /\ drop' \in Drops
      /\ StaysOpen
      /\ \A q \in Positions : InUse(q)' => account'[q].open
      /\ \A q \in Positions : account'[q].injected => account[q].injected
  <2>1. CASE PriceMoves
    BY <1>2, <2>1 DEF PriceMoves, StaysOpen, Opened, JobOpened, InUse
  <2>2. ASSUME NEW p \in Positions, OpenPosition(p)
        PROVE  /\ account' \in [Positions -> Account] /\ drop' \in Drops
               /\ StaysOpen
               /\ \A q \in Positions : InUse(q)' => account'[q].open
               /\ \A q \in Positions : account'[q].injected => account[q].injected
    <3> DEFINE a == [account[p] EXCEPT !.open = TRUE]
    <3>1. a \in Account /\ a.open /\ a.injected = account[p].injected
      BY <1>2 DEF Account
    <3>2. account' = [account EXCEPT ![p] = a] /\ drop' = drop
      BY <2>2 DEF OpenPosition
    <3> HIDE DEF a
    <3> QED
      BY <1>2, <3>1, <3>2 DEF StaysOpen, Opened, JobOpened, InUse
  <2>3. ASSUME NEW p \in Positions, ChangeLoad(p)
        PROVE  /\ account' \in [Positions -> Account] /\ drop' \in Drops
               /\ StaysOpen
               /\ \A q \in Positions : InUse(q)' => account'[q].open
               /\ \A q \in Positions : account'[q].injected => account[q].injected
    <3>1. PICK load \in Loads : Touch(p, [account[p] EXCEPT !.load = load])
      BY <2>3 DEF ChangeLoad
    <3> DEFINE a == [account[p] EXCEPT !.load = load]
    <3>2. a \in Account /\ a.open = account[p].open /\ a.injected = account[p].injected /\ Touch(p, a)
      BY <1>2, <3>1 DEF Account
    <3> HIDE DEF a
    <3>3. /\ account' \in [Positions -> Account]
          /\ account'[p].open = a.open /\ account'[p].injected = a.injected
          /\ \A q \in Positions \ {p} : account'[q] = account[q]
      BY <3>2, TouchDoes
    <3>4. account[p].open /\ drop' = drop
      BY <2>3 DEF ChangeLoad
    <3> QED
      BY <1>2, <3>2, <3>3, <3>4 DEF StaysOpen, Opened, JobOpened, InUse
  <2> QED
    BY <2>1, <2>2, <2>3 DEF WorldMoves, World
<1>5. TypeInv'
  BY <1>1, <1>3, <1>4 DEF TypeInv, history, priceVars, watchVars, ChainTypeOK,
     StoreTypeOK, JobsTypeOK, ExecuteTypeOK, PriceTypeOK, WatchInv, WorkInv, MainInv
<1>6. Opened'
  BY <1>1, <1>4, OpenedStays DEF watchVars
<1>7. Stored'
  BY <1>1, <1>4, StoredStays DEF watchVars, history
<1>8. RecordedChangesReach'
  BY <1>1, ReachStays DEF watchVars, history, WillRead, WillAsk
<1> QED
  BY <1>5, <1>6, <1>7, <1>8

LEMMA StutterKeeps ==
  ASSUME KeeperInv, UNCHANGED vars
  PROVE  KeeperInv'
<1> USE DEF KeeperInv, vars
<1>1. TypeInv'
  BY DEF TypeInv, chainVars, priceVars, watchVars, ChainTypeOK, StoreTypeOK, JobsTypeOK,
         ExecuteTypeOK, PriceTypeOK, WatchInv, WorkInv, MainInv
<1>2. Opened'
  BY OpenedStays DEF chainVars, watchVars, StaysOpen, Opened, JobOpened, InUse
<1>3. Stored'
  BY StoredStays DEF chainVars, watchVars
<1>4. RecordedChangesReach'
  BY ReachStays DEF watchVars, WillRead, WillAsk
<1> QED
  BY <1>1, <1>2, <1>3, <1>4

-----------------------------------------------------------------------------
(* The keeper.                                                             *)

LEMMA KeeperStep == KeeperInv /\ [Next]_vars => KeeperInv'
<1> SUFFICES ASSUME KeeperInv, [Next]_vars
             PROVE  KeeperInv'
  OBVIOUS
<1>1. CASE Boot \/ Start \/ Crash
  BY <1>1, BootKeeps, StartKeeps, CrashKeeps
<1>2. ASSUME NEW t \in PriceTicks, PriceWatch(t) \/ PriceWatchFails(t)
      PROVE  KeeperInv'
  BY <1>2, PriceWatchKeeps, PriceWatchFailsKeeps
<1>3. ASSUME NEW t \in PositionTicks, PositionWatch(t) \/ PositionWatchFails(t)
      PROVE  KeeperInv'
  BY <1>3, PositionWatchKeeps
<1>4. ASSUME NEW w \in Workers, Work(w) \/ WorkFails(w)
      PROVE  KeeperInv'
  BY <1>4, WorkKeeps
<1>5. ASSUME NEW kind \in Kinds, NEW p \in Positions, ExecutorActs(kind, p)
      PROVE  KeeperInv'
  BY <1>5, ExecutorActsKeeps
<1>6. ASSUME NEW p \in Positions, ExecutorWritesBack(p)
      PROVE  KeeperInv'
  BY <1>6, WritesBackKeeps
<1>7. CASE WorldMoves \/ UNCHANGED vars
  BY <1>7, WorldMovesKeeps, StutterKeeps
<1> QED
  BY <1>1, <1>2, <1>3, <1>4, <1>5, <1>6, <1>7 DEF Next

(* The inductive invariant holds in every state of the keeper.             *)
THEOREM KeeperInvariant == Spec => []KeeperInv
<1> QED
  BY InitHolds, KeeperStep, PTL DEF Spec

(* Chain, tables, jobs, ticks and workers keep their types, whatever fails *)
(* and however ticks, workers and executors interleave.                    *)
THEOREM KeeperTypes == Spec => []KeeperTypeOK
<1>1. KeeperInv => KeeperTypeOK
  BY TypesOK DEF KeeperInv
<1> QED
  BY <1>1, KeeperInvariant, PTL

(* What the watchers record reaches a worker, for any number of positions, *)
(* of overlapping ticks and of workers, across crashes and failures: no    *)
(* interleaving of a tick's queries with another tick's, with executors    *)
(* that write rows back and with jobs merged by their keys loses a change, *)
(* unless a worker's job or a query was dropped.                           *)
THEOREM ChangesReach == Spec => []RecordedChangesReach
<1>1. KeeperInv => RecordedChangesReach
  BY DEF KeeperInv
<1> QED
  BY <1>1, KeeperInvariant, PTL

(* The keeper never acts on a position that is not open, and has no row to *)
(* write for one.                                                          *)
THEOREM ActsOnOpenPositions ==
  Spec => [](\A p \in Positions :
               <<"inject", p>> \in asked \/ account[p].injected \/ echo[p] # Nothing => account[p].open)
<1>1. KeeperInv => \A p \in Positions :
        <<"inject", p>> \in asked \/ account[p].injected \/ echo[p] # Nothing => account[p].open
  BY DEF KeeperInv, Opened, JobOpened, InUse
<1> QED
  BY <1>1, KeeperInvariant, PTL
=============================================================================
