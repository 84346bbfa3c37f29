------------------------ MODULE ActionExecutorProofs ------------------------
(***************************************************************************)
(* Jobs of the executor, for any number of executors, positions, retries   *)
(* and faults: they keep their types, do not multiply and are not lost.    *)
(*                                                                         *)
(* Whatever an executor does after taking a job, it goes on with it, drops *)
(* it or leaves it to one timer (Proceeds).  That is all that counting     *)
(* copies needs.  That no ask is lost needs one thing more of each action: *)
(* where it drops a job, the job is no longer owed, or it was dropped on   *)
(* the word of something that was not what the chain had (KeepsOwed).      *)
(***************************************************************************)
EXTENDS ActionExecutor, FiniteSetTheorems, TLAPS

Places == {"free", "row", "assess", "recheck", "prefund", "settle", "store"} \union Steps

Slot == [at : Places, job : Jobs \union {Nothing}, row : Row]

Insured == {p \in Positions : account[p].injected}

MarketInv ==
  /\ ChainTypeOK
  /\ idle \in Nat /\ usdc \in Nat /\ purse \in {0, 1}
  /\ Buffers <= MaxIdle

StoreInv ==
  /\ StoreTypeOK
  /\ listing = Nothing \/ listing \in [Positions -> Row]

(* Where only jobs of one kind get to.                                     *)
Suits(at, kind) ==
  /\ at = "recheck" => kind = "inject"
  /\ at \in {"swap", "liquidate"} => kind = "liquidate"

ExecInv ==
  /\ exec \in [Executors -> Slot]
  /\ \A e \in Executors :
       exec[e].at # "free" =>
         /\ exec[e].job \in Jobs
         /\ Suits(exec[e].at, exec[e].job[1])
         /\ exec[e].at = "assess" => exec[e].row \in BOOLEAN

QueueInv ==
  /\ asked \in SUBSET Jobs
  /\ timers \in [Jobs -> Nat]
  /\ accepted \in [Jobs -> 0 .. MaxAsks]
  /\ owed \in SUBSET Jobs /\ misled \in SUBSET Jobs

TypeInv == MarketInv /\ StoreInv /\ ExecInv /\ QueueInv /\ events \in 0 .. MaxEvents

-----------------------------------------------------------------------------
(* An executor holds a job and goes on with it, or lets go of it, leaving  *)
(* it to one more timer at most.                                           *)
GoesTo(e, slot) == exec' = [exec EXCEPT ![e] = slot]

Continues(e) ==
  /\ \E slot \in Slot :
       /\ slot.at # "free" /\ slot.job = Job(e) /\ Suits(slot.at, Kind(e))
       /\ slot.at = "assess" => slot.row \in BOOLEAN
       /\ GoesTo(e, slot)
  /\ UNCHANGED timers

LetsGo(e) ==
  /\ GoesTo(e, Free)
  /\ timers' \in {timers, [timers EXCEPT ![Job(e)] = @ + 1]}

Proceeds(e) ==
  /\ exec[e].at # "free"
  /\ Continues(e) \/ LetsGo(e)
  /\ UNCHANGED asked

(* The executor's job is still on its way, or was not on its account.      *)
InHand(at) == at \notin {"free", "settle", "store"}

KeepsOwed(e) ==
  /\ owed' \subseteq owed
  /\ misled \subseteq misled' /\ misled' \subseteq misled \union {Job(e)}
  /\ Job(e) \in owed' =>
       \/ InHand(exec[e].at)'
       \/ timers'[Job(e)] > 0
       \/ ~InHand(exec[e].at)
       \/ Job(e) \in misled'

LEMMA FreeIsSlot == Free \in Slot
BY DEF Free, Slot, Places, Row

LEMMA StepProceeds ==
  ASSUME ExecInv, QueueInv, NEW e \in Executors, exec[e].at # "free",
         NEW at \in Places \ {"free", "assess"}, NEW row \in Row,
         Suits(at, Kind(e)),
         exec' = [exec EXCEPT ![e].at = at] \/ exec' = [exec EXCEPT ![e].at = at, ![e].row = row],
         UNCHANGED timers
  PROVE  Continues(e) /\ exec[e].at' = at
<1> DEFINE kept == [exec[e] EXCEPT !.at = at]
           read == [exec[e] EXCEPT !.at = at, !.row = row]
<1>1. exec[e] \in Slot /\ exec \in [Executors -> Slot]
  BY DEF ExecInv
<1>2. kept \in Slot /\ kept.at = at /\ kept.job = Job(e)
  BY <1>1 DEF Slot, Job
<1>3. read \in Slot /\ read.at = at /\ read.job = Job(e)
  BY <1>1 DEF Slot, Job
<1>4. GoesTo(e, kept) \/ GoesTo(e, read)
  <2>1. CASE exec' = [exec EXCEPT ![e].at = at]
    BY <2>1, Zenon DEF GoesTo
  <2>2. CASE exec' = [exec EXCEPT ![e].at = at, ![e].row = row]
    BY <2>2, <1>1 DEF GoesTo
  <2> QED
    BY <2>1, <2>2
<1>5. at # "free" /\ at # "assess"
  OBVIOUS
<1>6. exec'[e].at = at
  BY <1>1, <1>2, <1>3, <1>4 DEF GoesTo
<1> HIDE DEF kept, read
<1> QED
  BY <1>2, <1>3, <1>4, <1>5, <1>6, Zenon DEF Continues

(* What becomes of a job, and of what is owed.                             *)

LEMMA GoesOnKeeps ==
  ASSUME ExecInv, QueueInv, NEW e \in Executors, exec[e].at # "free",
         NEW at \in Places \ {"free", "assess"}, InHand(at), Suits(at, Kind(e)),
         GoesOn(e, at)
  PROVE  Continues(e) /\ KeepsOwed(e)
<1>1. Continues(e) /\ exec[e].at' = at
  BY StepProceeds, Zenon DEF GoesOn, Goes, Row
<1> QED
  BY <1>1 DEF KeepsOwed, InHand, GoesOn, asks

LEMMA EndsKeeps ==
  ASSUME NEW e \in Executors, NEW current, Ends(e, current), ~(Due(Job(e)) /\ current)
  PROVE  LetsGo(e) /\ KeepsOwed(e)
<1>1. LetsGo(e)
  BY Zenon DEF Ends, Abandons, LetsGo, GoesTo
<1>2. CASE Due(Job(e))
  <2>1. misled' = misled \union {Job(e)} /\ owed' = owed
    BY <1>2, Zenon DEF Ends
  <2> QED
    BY <1>1, <2>1 DEF KeepsOwed
<1>3. CASE ~Due(Job(e))
  <2>1. owed' = owed \ {Job(e)} /\ misled' = misled
    BY <1>3, Zenon DEF Ends
  <2> QED
    BY <1>1, <2>1 DEF KeepsOwed
<1> QED
  BY <1>2, <1>3

LEMMA CaughtKeeps ==
  ASSUME ExecInv, QueueInv, NEW e \in Executors, exec[e].at # "free", NEW error,
         Caught(e, error),
         error \in Retriable(Kind(e)) \/ Final(Kind(e), error)
  PROVE  LetsGo(e) /\ KeepsOwed(e)
<1>1. LetsGo(e) /\ owed' \subseteq owed /\ misled' = misled
  BY Zenon DEF Caught, LetsGo, GoesTo, Retries, Abandons
<1>2. CASE error \in Retriable(Kind(e))
  <2>1. timers' = [timers EXCEPT ![Job(e)] = @ + 1]
    BY <1>2 DEF Caught, Retries
  <2>2. Job(e) \in Jobs
    BY DEF ExecInv, Job
  <2>3. timers'[Job(e)] > 0
    BY <2>1, <2>2 DEF QueueInv
  <2> QED
    BY <1>1, <2>3 DEF KeepsOwed
<1>3. CASE Final(Kind(e), error)
  <2>1. Job(e) \notin owed'
    BY <1>3 DEF Caught
  <2> QED
    BY <1>1, <2>1 DEF KeepsOwed
<1> QED
  BY <1>2, <1>3

LEMMA OtherIsFinal == \A kind : Final(kind, "other")
BY DEF Final

LEMMA CaughtLiquidationKeeps ==
  ASSUME ExecInv, QueueInv, NEW e \in Executors, exec[e].at # "free", NEW error,
         CaughtLiquidation(e, error),
         error = "no usdc" \/ error \in Retriable(Kind(e)) \/ Final(Kind(e), error)
  PROVE  (Continues(e) \/ LetsGo(e)) /\ KeepsOwed(e)
<1>1. "prefund" \in Places \ {"free", "assess"} /\ InHand("prefund") /\ Suits("prefund", Kind(e))
  BY DEF Places, InHand, Suits
<1> QED
  BY <1>1, GoesOnKeeps, CaughtKeeps DEF CaughtLiquidation

-----------------------------------------------------------------------------
(* The actions of an executor that holds a job, one by one.                *)

Keeps(e) == (Continues(e) \/ LetsGo(e)) /\ KeepsOwed(e)

(* A row that is what the chain has tells what the program would refuse.   *)
LEMMA SkipsAreRefused ==
  ASSUME ChainTypeOK, NEW job \in Jobs, NEW row, RowIsCurrent(row, job[2]), Skips(job[1], row)
  PROVE  ~Due(job)
<1> DEFINE q == job[2]
<1>1. q \in Positions /\ job[1] \in {"inject", "withdraw", "liquidate"}
  BY DEF Jobs, Kinds
<1>2. account[q].injected \in BOOLEAN
  BY <1>1 DEF ChainTypeOK, Account
<1>3. row = IF account[q].open THEN account[q].injected ELSE Nothing
  BY <1>1 DEF RowIsCurrent, ListPositions
<1>4. CASE ~account[q].open
  BY <1>4, Zenon DEF Due
<1>5. CASE account[q].open
  <2>1. row = account[q].injected /\ row # Nothing
    BY <1>2, <1>3, <1>5, NothingAssumption
  <2>2. \/ job[1] = "inject" /\ account[q].injected
        \/ job[1] = "liquidate" /\ ~account[q].injected
    BY <2>1, Zenon DEF Skips
  <2> QED
    BY <2>2 DEF Due, CanInject, CanLiquidate
<1> QED
  BY <1>4, <1>5

LEMMA ReadsRowKeeps ==
  ASSUME TypeInv, NEW e \in Executors, ReadsRow(e)
  PROVE  Keeps(e)
<1> DEFINE row == rows[Position(e)]
<1>0. ExecInv /\ exec[e].at = "row" /\ Job(e) \in Jobs /\ row \in Row
  BY DEF TypeInv, ReadsRow, ExecInv, Job, StoreInv, StoreTypeOK, Position, Jobs
<1>1. CASE Skips(Kind(e), row)
  <2>1. ~(Due(Job(e)) /\ RowIsCurrent(row, Position(e)))
    BY <1>0, <1>1, SkipsAreRefused, Zenon DEF TypeInv, MarketInv, Kind, Position
  <2>2. Ends(e, RowIsCurrent(row, Position(e)))
    BY <1>1, Zenon DEF ReadsRow
  <2> QED
    BY <2>1, <2>2, EndsKeeps, Zenon DEF Keeps
<1>2. CASE ~Skips(Kind(e), row)
  <2> DEFINE slot == [exec[e] EXCEPT !.at = "assess", !.row = row]
  <2>1. exec[e] \in Slot /\ exec \in [Executors -> Slot]
    BY <1>0 DEF ExecInv
  <2>2. exec' = [exec EXCEPT ![e].at = "assess", ![e].row = row] /\ UNCHANGED <<timers, owed, misled>>
    BY <1>2 DEF ReadsRow, asks
  <2>3. GoesTo(e, slot)
    BY <2>1, <2>2 DEF GoesTo
  <2>4. slot \in Slot /\ slot.at = "assess" /\ slot.job = Job(e) /\ slot.row = row
    BY <1>0, <2>1 DEF Slot, Job, Places
  <2>5. row \in BOOLEAN
    BY <1>0, <1>2 DEF Skips, Row
  <2>6. exec'[e].at = "assess"
    BY <2>1, <2>3, <2>4 DEF GoesTo
  <2> HIDE DEF slot, row
  <2>7. Suits("assess", Kind(e)) /\ InHand("assess") /\ "assess" # "free"
    BY DEF Suits, InHand
  <2>8. Continues(e)
    BY <2>2, <2>3, <2>4, <2>5, <2>7, Zenon DEF Continues
  <2>9. KeepsOwed(e)
    BY <2>2, <2>6, <2>7 DEF KeepsOwed
  <2> QED
    BY <2>8, <2>9 DEF Keeps
<1> QED
  BY <1>1, <1>2

(* Going on to a transaction, or on to settling it.                        *)
LEMMA GoesOnFrom ==
  ASSUME TypeInv, NEW e \in Executors, exec[e].at # "free",
         NEW at \in Places \ {"free", "assess"}, InHand(at), Suits(at, Kind(e)),
         GoesOn(e, at)
  PROVE  Keeps(e)
BY GoesOnKeeps DEF TypeInv, Keeps

LEMMA AssessesInjectionKeeps ==
  ASSUME TypeInv, NEW e \in Executors, AssessesInjection(e)
  PROVE  Keeps(e)
<1>1. /\ exec[e].at # "free" /\ GoesOn(e, "recheck")
      /\ "recheck" \in Places \ {"free", "assess"} /\ InHand("recheck")
      /\ Suits("recheck", Kind(e))
  BY DEF AssessesInjection, At, Places, InHand, Suits
<1> QED
  BY <1>1, GoesOnFrom

LEMMA LtvsAreNumbers ==
  ASSUME ChainTypeOK, NEW q \in Positions
  PROVE  LiveLtv(q) \in Int /\ FetchPositionRisk(q) \in Int /\ InjectAbove \in Int
<1>1. /\ account[q].load \in Int /\ account[q].valuedAt \in Int /\ drop \in Int
      /\ Relief \in Int /\ InjectAbove \in Int
  <2>1. account[q] \in Account /\ drop \in Drops
    BY DEF ChainTypeOK
  <2>2. account[q].load \in Loads /\ account[q].valuedAt \in Drops
    BY <2>1 DEF Account
  <2>3. Loads \subseteq Nat /\ Drops \subseteq Nat /\ Relief \in Int
    BY LevelAssumption
  <2>4. InjectAbove \in Int
    BY LevelAssumption
  <2>5. account[q].load \in Nat /\ account[q].valuedAt \in Nat /\ drop \in Nat
    BY <2>1, <2>2, <2>3, Zenon
  <2> QED
    BY <2>3, <2>4, <2>5
<1>2. ASSUME NEW load \in Int, NEW at \in Int, NEW insured
      PROVE  Ltv(load, at, insured) \in Int
  BY <1>1, <1>2 DEF Ltv
<1> QED
  BY <1>1, <1>2 DEF LiveLtv, FetchPositionRisk

(* A reading at or below the threshold means that the program would refuse *)
(* or that it is of another price.                                         *)
LEMMA RechecksInjectionKeeps ==
  ASSUME TypeInv, NEW e \in Executors, NEW lands \in BOOLEAN, RechecksInjection(e, lands)
  PROVE  Keeps(e)
<1> DEFINE q == Position(e)
           ltv == IF lands THEN LiveLtv(q) ELSE FetchPositionRisk(q)
<1>1. exec[e].at = "recheck" /\ Kind(e) = "inject" /\ Job(e) \in Jobs
  BY DEF RechecksInjection, TypeInv, ExecInv, Suits, Kind, Job
<1>2. CASE GoesOn(e, "inject")
  <2>1. "inject" \in Places \ {"free", "assess"} /\ InHand("inject") /\ Suits("inject", Kind(e))
    BY DEF Places, Steps, InHand, Suits
  <2> QED
    BY <1>1, <1>2, <2>1, GoesOnFrom
<1>3. CASE ltv <= InjectAbove /\ Ends(e, lands \/ ValuesAreCurrent(q))
  <2>1. q \in Positions
    BY <1>1 DEF Jobs, Position
  <2>2. LiveLtv(q) \in Int /\ FetchPositionRisk(q) \in Int /\ InjectAbove \in Int
    BY <2>1, LtvsAreNumbers DEF TypeInv, MarketInv
  <2>3. ValuesAreCurrent(q) => FetchPositionRisk(q) = LiveLtv(q)
    BY DEF ValuesAreCurrent, FetchPositionRisk, LiveLtv
  <2>4. lands \/ ValuesAreCurrent(q) => ~(LiveLtv(q) > InjectAbove)
    BY <1>3, <2>2, <2>3
  <2>5. ~(Due(Job(e)) /\ (lands \/ ValuesAreCurrent(q)))
    BY <1>1, <2>4, Zenon DEF Due, CanInject, Position, Kind
  <2> QED
    BY <1>3, <2>5, EndsKeeps, Zenon DEF Keeps
<1> QED
  BY <1>2, <1>3 DEF RechecksInjection

(* Errors of a transaction that the program refuses.                       *)
LEMMA RefusalsAreKnown ==
  ASSUME NEW step \in Steps, NEW q \in Positions, Outcome(step, q) # "ok",
         NEW kind \in Kinds, Suits(step, kind)
  PROVE  \/ Outcome(step, q) \in Retriable(kind)
         \/ Final(kind, Outcome(step, q))
         \/ Outcome(step, q) = "no usdc" /\ step = "liquidate"
<1>1. \/ Outcome(step, q) \in {"other", "no funds"}
      \/ step = "liquidate" /\ Outcome(step, q) \in {"calculation", "no usdc"}
  BY DEF Outcome, Steps
<1>2. PICK known : known = Outcome(step, q)
  OBVIOUS
<1>3. \/ known \in Retriable(kind)
      \/ Final(kind, known)
      \/ known = "no usdc" /\ step = "liquidate"
  BY <1>1, <1>2 DEF Retriable, Final, Kinds, Suits
<1> QED
  BY <1>2, <1>3, Zenon

LEMMA HeldJob ==
  ASSUME TypeInv, NEW e \in Executors, exec[e].at # "free"
  PROVE  /\ Job(e) \in Jobs /\ Kind(e) \in Kinds /\ Position(e) \in Positions
         /\ Suits(exec[e].at, Kind(e))
BY DEF TypeInv, ExecInv, Job, Jobs, Kind, Position

LEMMA SubmitsKeeps ==
  ASSUME TypeInv, NEW e \in Executors, exec[e].at # "free",
         NEW next \in {"settle", "liquidate"}, Suits(next, Kind(e)), Submits(e, next)
  PROVE  Keeps(e)
<1>1. next \in Places \ {"free", "assess"}
  BY DEF Places, Steps
<1>2. Continues(e) /\ exec'[e].at = next
  BY <1>1, StepProceeds, Zenon DEF Submits, Goes, TypeInv, Row
<1>3. KeepsOwed(e)
  BY <1>2 DEF Submits, KeepsOwed, InHand
<1> QED
  BY <1>2, <1>3 DEF Keeps

LEMMA SendsInjectionKeeps ==
  ASSUME TypeInv, NEW e \in Executors, SendsInjection(e)
  PROVE  Keeps(e)
<1>1. exec[e].at = "inject" /\ "inject" \in Steps
  BY DEF SendsInjection, Steps
<1>2. CASE Submits(e, "settle")
  BY <1>1, <1>2, SubmitsKeeps DEF Suits
<1>3. CASE Refused(e) /\ Caught(e, Outcome("inject", Position(e)))
  BY <1>1, <1>3, HeldJob, RefusalsAreKnown, CaughtKeeps DEF Refused, TypeInv, Keeps
<1> QED
  BY <1>2, <1>3 DEF SendsInjection

(* Once its transaction is through, a job has nothing left that is owed.   *)
LEMMA ReadsBackKeeps ==
  ASSUME TypeInv, NEW e \in Executors, NEW lands, exec[e].at = "settle", ReadsBack(e, lands)
  PROVE  Keeps(e)
<1>1. account[Position(e)].injected \in Row
  <2>1. Position(e) \in Positions
    BY HeldJob
  <2>2. account[Position(e)] \in Account
    BY <2>1 DEF TypeInv, MarketInv, ChainTypeOK
  <2> QED
    BY <2>2 DEF Account, Row
<1>2. "store" \in Places \ {"free", "assess"} /\ Suits("store", Kind(e))
  BY DEF Places, Suits
<1>3. Continues(e)
  BY <1>1, <1>2, StepProceeds DEF ReadsBack, TypeInv
<1>4. KeepsOwed(e)
  BY DEF ReadsBack, KeepsOwed, InHand, asks
<1> QED
  BY <1>3, <1>4 DEF Keeps

LEMMA SettlesInjectionKeeps ==
  ASSUME TypeInv, NEW e \in Executors, NEW lands \in BOOLEAN, SettlesInjection(e, lands)
  PROVE  Keeps(e)
BY ReadsBackKeeps DEF SettlesInjection, At

-----------------------------------------------------------------------------

(* A withdrawal is given up when the row that was read has no buffer, or   *)
(* when the obligation's stored values are above the threshold: then the   *)
(* program would refuse it, or the row is out of date, or the values are.  *)
LEMMA AssessesWithdrawalKeeps ==
  ASSUME TypeInv, NEW e \in Executors, AssessesWithdrawal(e)
  PROVE  Keeps(e)
<1>1. exec[e].at = "assess" /\ Kind(e) = "withdraw" /\ Job(e) \in Jobs /\ exec[e].row \in BOOLEAN
  BY DEF AssessesWithdrawal, At, TypeInv, ExecInv, Job
<1>2. CASE Caught(e, "other")
  BY <1>1, <1>2, CaughtKeeps, OtherIsFinal DEF TypeInv, Keeps
<1>3. CASE GoesOn(e, "withdraw")
  <2>1. "withdraw" \in Places \ {"free", "assess"} /\ InHand("withdraw") /\ Suits("withdraw", Kind(e))
    BY DEF Places, Steps, InHand, Suits
  <2> QED
    BY <1>1, <1>3, <2>1, GoesOnFrom
<1> DEFINE current == RowIsCurrent(exec[e].row, Position(e)) /\ ValuesAreCurrent(Position(e))
<1>4. CASE ~WithdrawPrecheck(e) /\ Ends(e, current)
  <2>1. ASSUME Due(Job(e)), current
        PROVE  FALSE
    <3>1. account[Position(e)].open /\ CanWithdraw(Position(e)) /\ Position(e) \in Positions
      BY <1>1, <2>1, Zenon DEF Due, Kind, Position, Jobs
    <3>2. exec[e].row = account[Position(e)].injected
      BY <2>1, <3>1 DEF RowIsCurrent, ListPositions
    <3>3. account[Position(e)].valuedAt = drop
      BY <2>1 DEF ValuesAreCurrent
    <3> QED
      BY <1>4, <3>1, <3>2, <3>3, Zenon DEF WithdrawPrecheck, CanWithdraw
  <2> QED
    BY <1>4, <2>1, EndsKeeps, Zenon DEF Keeps
<1> QED
  BY <1>2, <1>3, <1>4 DEF AssessesWithdrawal

LEMMA SendsWithdrawalKeeps ==
  ASSUME TypeInv, NEW e \in Executors, SendsWithdrawal(e)
  PROVE  Keeps(e)
<1>1. exec[e].at = "withdraw" /\ "withdraw" \in Steps
  BY DEF SendsWithdrawal, Steps
<1>2. CASE Submits(e, "settle")
  BY <1>1, <1>2, SubmitsKeeps DEF Suits
<1>3. CASE Refused(e) /\ Caught(e, Outcome("withdraw", Position(e)))
  BY <1>1, <1>3, HeldJob, RefusalsAreKnown, CaughtKeeps DEF Refused, TypeInv, Keeps
<1> QED
  BY <1>2, <1>3 DEF SendsWithdrawal

LEMMA SettlesWithdrawalKeeps ==
  ASSUME TypeInv, NEW e \in Executors, NEW lands \in BOOLEAN, SettlesWithdrawal(e, lands)
  PROVE  Keeps(e)
<1>1. exec[e].at = "settle"
  BY DEF SettlesWithdrawal, At
<1>2. CASE Caught(e, "other")
  BY <1>1, <1>2, CaughtKeeps, OtherIsFinal DEF TypeInv, Keeps
<1> QED
  BY <1>1, <1>2, ReadsBackKeeps DEF SettlesWithdrawal

-----------------------------------------------------------------------------

LEMMA AssessesLiquidationKeeps ==
  ASSUME TypeInv, NEW e \in Executors, AssessesLiquidation(e)
  PROVE  Keeps(e)
<1>1. exec[e].at = "assess" /\ Kind(e) = "liquidate"
  BY DEF AssessesLiquidation, At
<1>2. CASE GoesOn(e, "swap")
  <2>1. "swap" \in Places \ {"free", "assess"} /\ InHand("swap") /\ Suits("swap", Kind(e))
    BY <1>1 DEF Places, Steps, InHand, Suits
  <2> QED
    BY <1>1, <1>2, <2>1, GoesOnFrom
<1>3. CASE CaughtLiquidation(e, "other")
  BY <1>1, <1>3, CaughtLiquidationKeeps, OtherIsFinal DEF TypeInv, Keeps
<1> QED
  BY <1>2, <1>3 DEF AssessesLiquidation

LEMMA SendsSwapKeeps ==
  ASSUME TypeInv, NEW e \in Executors, SendsSwap(e)
  PROVE  Keeps(e)
<1>1. exec[e].at = "swap" /\ "swap" \in Steps
  BY DEF SendsSwap, Steps
<1>2. CASE Submits(e, "liquidate")
  <2>1. Kind(e) = "liquidate"
    BY <1>1, HeldJob DEF Suits
  <2> QED
    BY <1>1, <1>2, <2>1, SubmitsKeeps DEF Suits
<1>3. CASE Refused(e) /\ CaughtLiquidation(e, Outcome("swap", Position(e)))
  BY <1>1, <1>3, HeldJob, RefusalsAreKnown, CaughtLiquidationKeeps DEF Refused, TypeInv, Keeps
<1> QED
  BY <1>2, <1>3 DEF SendsSwap

LEMMA SendsLiquidationKeeps ==
  ASSUME TypeInv, NEW e \in Executors, SendsLiquidation(e)
  PROVE  Keeps(e)
<1>1. exec[e].at = "liquidate" /\ "liquidate" \in Steps
  BY DEF SendsLiquidation, Steps
<1>2. CASE Submits(e, "settle")
  BY <1>1, <1>2, SubmitsKeeps DEF Suits
<1>3. CASE Refused(e) /\ CaughtLiquidation(e, Outcome("liquidate", Position(e)))
  BY <1>1, <1>3, HeldJob, RefusalsAreKnown, CaughtLiquidationKeeps DEF Refused, TypeInv, Keeps
<1> QED
  BY <1>2, <1>3 DEF SendsLiquidation

LEMMA SettlesLiquidationKeeps ==
  ASSUME TypeInv, NEW e \in Executors, NEW lands \in BOOLEAN, SettlesLiquidation(e, lands)
  PROVE  Keeps(e)
<1>1. exec[e].at = "settle"
  BY DEF SettlesLiquidation, At
<1>2. CASE CaughtLiquidation(e, "other")
  BY <1>1, <1>2, CaughtLiquidationKeeps, OtherIsFinal DEF TypeInv, Keeps
<1> QED
  BY <1>1, <1>2, ReadsBackKeeps DEF SettlesLiquidation

LEMMA PrefundsKeeps ==
  ASSUME TypeInv, NEW e \in Executors, Prefunds(e)
  PROVE  Keeps(e)
<1>1. exec[e].at = "prefund" /\ Job(e) \in Jobs /\ timers \in [Jobs -> Nat]
  BY DEF Prefunds, TypeInv, ExecInv, QueueInv, Job
<1>2. LetsGo(e) /\ owed' \subseteq owed /\ misled' = misled
  BY Zenon DEF Prefunds, LetsGo, GoesTo, Retries, Abandons
<1>3. Job(e) \in owed' => timers'[Job(e)] > 0
  BY <1>1 DEF Prefunds, Retries
<1> QED
  BY <1>2, <1>3 DEF Keeps, KeepsOwed

LEMMA WritesBackKeeps ==
  ASSUME TypeInv, NEW e \in Executors, WritesBack(e)
  PROVE  Keeps(e)
BY DEF WritesBack, Keeps, LetsGo, GoesTo, KeepsOwed, InHand, asks

-----------------------------------------------------------------------------
(* Faults.                                                                 *)

LEMMA FaltersKeeps ==
  ASSUME TypeInv, NEW e \in Executors, Falters(e)
  PROVE  Keeps(e)
<1>1. exec[e].at # "free"
  BY DEF Falters, Steps
<1>2. CASE exec[e].at \in {"assess", "settle", "store"} \union Steps
            /\ \E error \in {"other", "no vault", "stale reserve"} :
                 /\ error = "no vault" => exec[e].at = "assess"
                 /\ error = "stale reserve" => exec[e].at \in Steps
                 /\ Caught(e, error)
  <2>1. PICK error \in {"other", "no vault", "stale reserve"} : Caught(e, error)
    BY <1>2
  <2>2. error \in Retriable(Kind(e)) \/ Final(Kind(e), error)
    <3>1. Kind(e) \in {"inject", "withdraw", "liquidate"}
      BY <1>1, HeldJob DEF Kinds
    <3> QED
      BY <3>1 DEF Retriable, Final
  <2> QED
    BY <1>1, <2>1, <2>2, CaughtKeeps DEF TypeInv, Keeps
<1>3. CASE Caught(e, "other")
  BY <1>1, <1>3, CaughtKeeps, OtherIsFinal DEF TypeInv, Keeps
<1>4. CASE exec[e].at = "recheck" /\ GoesOn(e, "inject")
  <2>1. "inject" \in Places \ {"free", "assess"} /\ InHand("inject") /\ Suits("inject", Kind(e))
    BY DEF Places, Steps, InHand, Suits
  <2> QED
    BY <1>1, <1>4, <2>1, GoesOnFrom
<1>5. CASE CaughtLiquidation(e, "other")
  BY <1>1, <1>5, CaughtLiquidationKeeps, OtherIsFinal DEF TypeInv, Keeps
<1> QED
  BY <1>2, <1>3, <1>4, <1>5 DEF Falters

-----------------------------------------------------------------------------
(* A step, as far as jobs are concerned.                                   *)

Works(e) == Proceeds(e) /\ KeepsOwed(e) /\ UNCHANGED accepted

Asks(job) ==
  /\ job \in Jobs \ asked
  /\ accepted[job] < MaxAsks
  /\ accepted' = [accepted EXCEPT ![job] = @ + 1]
  /\ asked' = asked \union {job}
  /\ owed' = owed \union {job} /\ misled' = misled \ {job}
  /\ UNCHANGED <<exec, timers>>

Quiet == UNCHANGED <<exec, timers, asked, owed, misled, accepted>>

LEMMA ExecutesWorks ==
  ASSUME TypeInv, NEW e \in Executors, Executes(e), ~Takes(e)
  PROVE  Works(e)
<1>1. Keeps(e)
  BY ReadsRowKeeps, AssessesInjectionKeeps, SendsInjectionKeeps,
     AssessesWithdrawalKeeps, SendsWithdrawalKeeps,
     AssessesLiquidationKeeps, SendsSwapKeeps, SendsLiquidationKeeps, PrefundsKeeps,
     RechecksInjectionKeeps, SettlesInjectionKeeps, SettlesWithdrawalKeeps,
     SettlesLiquidationKeeps, WritesBackKeeps, Zenon DEF Executes
<1>2. exec[e].at # "free" /\ asked' = asked /\ accepted' = accepted
  BY DEF Executes, bookkeeping, ReadsRow, AssessesInjection, SendsInjection,
         AssessesWithdrawal, SendsWithdrawal, AssessesLiquidation, SendsSwap,
         SendsLiquidation, Prefunds, RechecksInjection, SettlesInjection,
         SettlesWithdrawal, SettlesLiquidation, WritesBack, At, aside
<1> QED
  BY <1>1, <1>2 DEF Works, Proceeds, Keeps

LEMMA FaltersWorks ==
  ASSUME TypeInv, NEW e \in Executors, Falters(e)
  PROVE  Works(e)
<1>1. exec[e].at # "free" /\ asked' = asked /\ accepted' = accepted
  BY DEF Falters, Steps
<1> QED
  BY <1>1, FaltersKeeps DEF Works, Proceeds, Keeps

LEMMA WorkerAsksAsks ==
  ASSUME TypeInv, NEW q \in Positions, NEW lands \in BOOLEAN, WorkerAsks(q, lands)
  PROVE  \E job \in Jobs : Asks(job)
<1>1. PICK kind \in Kinds :
        /\ <<kind, q>> \notin asked
        /\ accepted[<<kind, q>>] < MaxAsks
        /\ accepted' = [accepted EXCEPT ![<<kind, q>>] = @ + 1]
        /\ asked' = asked \union {<<kind, q>>}
        /\ owed' = owed \union {<<kind, q>>} /\ misled' = misled \ {<<kind, q>>}
  BY DEF WorkerAsks, Wanted, Kinds
<1>2. <<kind, q>> \in Jobs /\ UNCHANGED <<exec, timers>>
  BY DEF Jobs, WorkerAsks
<1> QED
  BY <1>1, <1>2 DEF Asks

LEMMA StepsOfJobs ==
  ASSUME TypeInv, [Next]_vars
  PROVE  \/ \E e \in Executors : Works(e)
         \/ \E e \in Executors : Takes(e) /\ UNCHANGED accepted
         \/ \E job \in Jobs : TimerFires(job)
         \/ Dies
         \/ \E job \in Jobs : Asks(job)
         \/ Quiet
<1>1. ASSUME NEW e \in Executors, Executes(e)
      PROVE  Works(e) \/ (Takes(e) /\ UNCHANGED accepted)
  BY <1>1, ExecutesWorks DEF Executes, bookkeeping
<1>2. (\E q \in Positions : WatcherDeletes(q)) \/ WatcherLists \/ WatcherUpserts \/ WorldMoves => Quiet
  BY DEF WatcherDeletes, WatcherLists, WatcherUpserts, WorldMoves, Quiet, bookkeeping, asks, Event
<1>3. UNCHANGED vars => Quiet
  BY DEF vars, Quiet, bookkeeping, asks
<1> QED
  BY <1>1, <1>2, <1>3, FaltersWorks, WorkerAsksAsks, Zenon DEF Next

-----------------------------------------------------------------------------
(* The executors' own state.                                               *)

LEMMA JobsTyped ==
  ASSUME TypeInv, [Next]_vars
  PROVE  ExecInv' /\ QueueInv'
<1>0. ExecInv /\ QueueInv /\ MaxAsks \in Nat
  BY FiniteAssumption DEF TypeInv
<1>1. ASSUME NEW e \in Executors, Works(e)
      PROVE  ExecInv' /\ QueueInv'
  <2>2. Job(e) \in Jobs
    BY <1>0, <1>1 DEF Works, Proceeds, ExecInv, Job
  <2>1. /\ asked' = asked /\ accepted' = accepted /\ owed' \subseteq owed
        /\ misled' \subseteq Jobs
    BY <1>0, <1>1, <2>2 DEF Works, Proceeds, KeepsOwed, QueueInv
  <2>3. CASE Continues(e)
    <3>1. PICK slot \in Slot :
            /\ slot.at # "free" /\ slot.job = Job(e) /\ Suits(slot.at, Kind(e))
            /\ slot.at = "assess" => slot.row \in BOOLEAN
            /\ exec' = [exec EXCEPT ![e] = slot]
      BY <2>3, Zenon DEF Continues, GoesTo
    <3>2. ExecInv'
      BY <1>0, <2>2, <3>1 DEF ExecInv, Kind, Suits
    <3> QED
      BY <1>0, <2>1, <2>3, <3>2 DEF QueueInv, Continues
  <2>4. CASE LetsGo(e)
    <3>1. exec' = [exec EXCEPT ![e] = Free] /\ Free.at = "free"
      BY <2>4 DEF LetsGo, GoesTo, Free
    <3>2. ExecInv'
      BY <1>0, <3>1, FreeIsSlot DEF ExecInv, Suits
    <3>3. timers' \in [Jobs -> Nat]
      BY <1>0, <2>2, <2>4 DEF LetsGo, QueueInv
    <3> QED
      BY <1>0, <2>1, <3>2, <3>3 DEF QueueInv
  <2> QED
    BY <1>1, <2>3, <2>4 DEF Works, Proceeds
<1>2. ASSUME NEW e \in Executors, Takes(e), UNCHANGED accepted
      PROVE  ExecInv' /\ QueueInv'
  <2>1. PICK job \in asked :
          /\ asked' = asked \ {job}
          /\ exec' = [exec EXCEPT ![e] = [Free EXCEPT !.at = "row", !.job = job]]
    BY <1>2 DEF Takes
  <2> DEFINE slot == [Free EXCEPT !.at = "row", !.job = job]
  <2>2. job \in Jobs
    BY <1>0 DEF QueueInv
  <2>3. slot \in Slot /\ slot.at = "row" /\ slot.job = job
    BY <2>2 DEF Free, Slot, Places, Row
  <2>4. ExecInv'
    <3> HIDE DEF slot
    <3> QED
      BY <1>0, <2>1, <2>2, <2>3 DEF ExecInv, Suits, slot
  <2> QED
    BY <1>0, <1>2, <2>1, <2>4 DEF QueueInv, Takes, asks
<1>3. ASSUME NEW job \in Jobs, TimerFires(job)
      PROVE  ExecInv' /\ QueueInv'
  <2>1. /\ exec' = exec /\ asked' = asked \union {job} /\ accepted' = accepted
        /\ owed' = owed /\ misled' = misled
    BY <1>3 DEF TimerFires, bookkeeping, asks
  <2>2. timers' \in [Jobs -> Nat]
    BY <1>0, <1>3 DEF TimerFires, QueueInv
  <2> QED
    BY <1>0, <2>1, <2>2 DEF ExecInv, QueueInv
<1>4. CASE Dies
  <2>1. exec' \in [Executors -> Slot] /\ \A e \in Executors : exec'[e].at = "free"
    BY <1>4, FreeIsSlot DEF Dies, Free
  <2>2. ExecInv'
    BY <2>1 DEF ExecInv
  <2>3. QueueInv'
    BY <1>0, <1>4 DEF Dies, QueueInv
  <2> QED
    BY <2>2, <2>3
<1>5. ASSUME NEW job \in Jobs, Asks(job)
      PROVE  ExecInv' /\ QueueInv'
  <2>1. exec' = exec /\ timers' = timers
    BY <1>5 DEF Asks
  <2>2. accepted' \in [Jobs -> 0 .. MaxAsks]
    BY <1>0, <1>5 DEF Asks, QueueInv
  <2>3. asked' \in SUBSET Jobs /\ owed' \in SUBSET Jobs /\ misled' \in SUBSET Jobs
    BY <1>0, <1>5 DEF Asks, QueueInv
  <2> QED
    BY <1>0, <2>1, <2>2, <2>3 DEF ExecInv, QueueInv
<1>6. CASE Quiet
  BY <1>0, <1>6 DEF Quiet, ExecInv, QueueInv
<1> QED
  BY <1>1, <1>2, <1>3, <1>4, <1>5, <1>6, StepsOfJobs

-----------------------------------------------------------------------------
(* No ask is lost but to what is out of date.                              *)

LEMMA AsksStayKept ==
  ASSUME TypeInv, AsksAreKept, [Next]_vars
  PROVE  AsksAreKept'
<1>0. ExecInv /\ QueueInv /\ timers' \in [Jobs -> Nat] /\ owed \subseteq Jobs
  BY JobsTyped DEF TypeInv, QueueInv
<1>1. ASSUME NEW e \in Executors, Works(e), NEW job \in owed', job \notin misled'
      PROVE  Live(job)'
  <2>1. asked' = asked /\ job \in owed /\ Live(job) /\ job \in Jobs /\ Job(e) \in Jobs
    BY <1>0, <1>1 DEF Works, Proceeds, KeepsOwed, AsksAreKept, ExecInv, Job
  <2>2. timers'[job] >= timers[job]
    BY <1>0, <1>1, <2>1 DEF Works, Proceeds, Continues, LetsGo, QueueInv
  <2>3. CASE job \in asked \/ timers[job] > 0
    BY <1>0, <2>1, <2>2, <2>3 DEF Live, QueueInv
  <2>4. ASSUME NEW x \in Executors, InHand(exec[x].at), Job(x) = job, x # e
        PROVE  Live(job)'
    <3>1. exec'[x] = exec[x]
      BY <1>0, <1>1, <2>4 DEF Works, Proceeds, Continues, LetsGo, GoesTo, ExecInv
    <3> QED
      BY <2>4, <3>1 DEF Live, InHand, Job
  <2>5. CASE InHand(exec[e].at) /\ Job(e) = job
    <3>1. InHand(exec[e].at)' \/ timers'[job] > 0
      BY <1>1, <2>5 DEF Works, KeepsOwed
    <3>2. InHand(exec[e].at)' => Job(e)' = job
      <4>1. CASE Continues(e)
        <5>1. PICK slot \in Slot : slot.job = Job(e) /\ exec' = [exec EXCEPT ![e] = slot]
          BY <4>1, Zenon DEF Continues, GoesTo
        <5> QED
          BY <1>0, <2>5, <5>1 DEF Job, ExecInv
      <4>2. CASE LetsGo(e)
        BY <1>0, <4>2 DEF LetsGo, GoesTo, Free, InHand, ExecInv
      <4> QED
        BY <1>1, <4>1, <4>2 DEF Works, Proceeds
    <3> QED
      BY <2>5, <3>1, <3>2 DEF Live, InHand
  <2>6. \/ job \in asked \/ timers[job] > 0
        \/ \E x \in Executors : InHand(exec[x].at) /\ Job(x) = job
    BY <2>1 DEF Live, InHand
  <2> QED
    BY <2>3, <2>4, <2>5, <2>6
<1>2. ASSUME NEW e \in Executors, Takes(e), NEW job \in owed', job \notin misled'
      PROVE  Live(job)'
  <2>1. PICK taken \in asked :
          /\ asked' = asked \ {taken}
          /\ exec' = [exec EXCEPT ![e] = [Free EXCEPT !.at = "row", !.job = taken]]
    BY <1>2 DEF Takes
  <2>2. Live(job) /\ timers' = timers /\ exec[e].at = "free"
    BY <1>2 DEF Takes, AsksAreKept, asks
  <2>3. exec'[e].at = "row" /\ exec'[e].job = taken
    BY <1>0, <2>1 DEF ExecInv, Free
  <2>4. \A x \in Executors : x # e => exec'[x] = exec[x]
    BY <1>0, <2>1 DEF ExecInv
  <2>5. CASE job = taken
    BY <2>3, <2>5 DEF Live, Job
  <2>6. CASE job # taken
    BY <2>1, <2>2, <2>4, <2>6 DEF Live, Job
  <2> QED
    BY <2>5, <2>6
<1>3. ASSUME NEW fired \in Jobs, TimerFires(fired), NEW job \in owed', job \notin misled'
      PROVE  Live(job)'
  <2>1. Live(job) /\ exec' = exec /\ asked' = asked \union {fired} /\ job \in Jobs
    BY <1>0, <1>3 DEF TimerFires, AsksAreKept, asks
  <2>2. job # fired => timers'[job] = timers[job]
    BY <1>0, <1>3, <2>1 DEF TimerFires, QueueInv
  <2> QED
    BY <2>1, <2>2 DEF Live, Job
<1>4. CASE Dies
  BY <1>4 DEF Dies, AsksAreKept
<1>5. ASSUME NEW new \in Jobs, Asks(new), NEW job \in owed', job \notin misled'
      PROVE  Live(job)'
  BY <1>5 DEF Asks, AsksAreKept, Live, Job
<1>6. CASE Quiet
  BY <1>6 DEF Quiet, AsksAreKept, Live, Job
<1> QED
  <2>1. (\A job \in owed' : Live(job)' \/ job \in misled') => AsksAreKept'
    BY DEF AsksAreKept
  <2> QED
    BY <1>1, <1>2, <1>3, <1>4, <1>5, <1>6, <2>1, StepsOfJobs

-----------------------------------------------------------------------------
(* Copies of a job.                                                        *)

Holders(job) == {e \in Executors : exec[e].at # "free" /\ Job(e) = job}

LEMMA HoldersCount ==
  ASSUME NEW job
  PROVE  IsFiniteSet(Holders(job)) /\ Held(job) = Cardinality(Holders(job)) /\ Held(job) \in Nat
<1>1. IsFiniteSet(Holders(job))
  BY FS_Subset, FiniteAssumption DEF Holders
<1> QED
  BY <1>1, FS_CardinalityType DEF Holders, Held

LEMMA CopiesOf ==
  ASSUME QueueInv, NEW job \in Jobs
  PROVE  /\ Copies(job) \in Nat /\ accepted[job] \in Nat
         /\ Held(job) \in Nat /\ timers[job] \in Nat
<1>1. Held(job) \in Nat /\ timers[job] \in Nat /\ accepted[job] \in 0 .. MaxAsks /\ MaxAsks \in Nat
  BY HoldersCount, FiniteAssumption DEF QueueInv
<1> QED
  BY <1>1 DEF Copies

LEMMA HeldNext ==
  ASSUME NEW job
  PROVE  Held(job)' = Cardinality(Holders(job)')
BY DEF Held, Holders

(* An executor that goes on holds the same job; one that lets go of it     *)
(* holds none.                                                             *)
LEMMA WorkingKeepsHolders ==
  ASSUME ExecInv, NEW e \in Executors, Continues(e), exec[e].at # "free", NEW job
  PROVE  Holders(job)' = Holders(job)
<1>1. PICK slot \in Slot :
        slot.at # "free" /\ slot.job = Job(e) /\ exec' = [exec EXCEPT ![e] = slot]
  BY Zenon DEF Continues, GoesTo
<1>2. \A x \in Executors : (exec'[x].at # "free" <=> exec[x].at # "free") /\ exec'[x].job = exec[x].job
  BY <1>1 DEF ExecInv, Job
<1> QED
  BY <1>2 DEF Holders, Job

LEMMA LettingGoDropsHolder ==
  ASSUME ExecInv, NEW e \in Executors, LetsGo(e), NEW job
  PROVE  Holders(job)' = Holders(job) \ {e}
<1>1. exec'[e].at = "free" /\ \A x \in Executors \ {e} : exec'[x] = exec[x]
  BY DEF LetsGo, GoesTo, Free, ExecInv
<1> QED
  BY <1>1 DEF Holders, Job

LEMMA CopiesDoNotGrow ==
  ASSUME TypeInv, RetriesDoNotMultiply, [Next]_vars
  PROVE  RetriesDoNotMultiply'
<1>0. ExecInv /\ QueueInv /\ ExecInv' /\ QueueInv'
  BY JobsTyped DEF TypeInv
<1> DEFINE Here(job) == IF job \in asked THEN 1 ELSE 0
<1>1. ASSUME NEW job \in Jobs
      PROVE  /\ Copies(job) = Held(job) + timers[job] + Here(job)
             /\ Copies(job)' = Held(job)' + timers'[job] + Here(job)'
             /\ Copies(job) <= accepted[job]
             /\ Held(job) \in Nat /\ timers[job] \in Nat /\ timers'[job] \in Nat
             /\ accepted[job] \in Nat
             /\ Here(job) \in {0, 1} /\ Here(job)' \in {0, 1}
  BY <1>0, <1>1, CopiesOf DEF Copies, RetriesDoNotMultiply, QueueInv
<1>2. ASSUME NEW e \in Executors, Works(e), NEW job \in Jobs
      PROVE  Copies(job)' <= accepted'[job]
  <2>1. Here(job)' = Here(job) /\ accepted' = accepted /\ exec[e].at # "free"
    BY <1>2 DEF Works, Proceeds
  <2>2. CASE Continues(e)
    <3>1. Held(job)' = Held(job) /\ timers' = timers
      BY <1>0, <2>1, <2>2, WorkingKeepsHolders, HeldNext, HoldersCount DEF Continues
    <3> QED
      BY <1>1, <2>1, <3>1
  <2>3. CASE LetsGo(e)
    <3>1. Held(job)' = Cardinality(Holders(job) \ {e})
      BY <1>0, <2>3, LettingGoDropsHolder, HeldNext
    <3>2. CASE job = Job(e)
      <4>1. e \in Holders(job)
        BY <2>1, <3>2 DEF Holders
      <4>2. Held(job)' = Held(job) - 1
        BY <3>1, <4>1, HoldersCount, FS_RemoveElement
      <4>3. timers'[job] <= timers[job] + 1
        BY <1>0, <1>2, <2>3, <3>2 DEF LetsGo, QueueInv
      <4> QED
        BY <1>1, <2>1, <4>2, <4>3
    <3>3. CASE job # Job(e)
      <4>1. Holders(job) \ {e} = Holders(job)
        BY <3>3 DEF Holders
      <4>2. Held(job)' = Held(job)
        BY <3>1, <4>1, HoldersCount
      <4>3. timers'[job] = timers[job]
        BY <1>0, <2>3, <3>3 DEF LetsGo, QueueInv
      <4> QED
        BY <1>1, <2>1, <4>2, <4>3
    <3> QED
      BY <3>2, <3>3
  <2> QED
    BY <1>2, <2>2, <2>3 DEF Works, Proceeds
<1>3. ASSUME NEW e \in Executors, Takes(e), UNCHANGED accepted, NEW job \in Jobs
      PROVE  Copies(job)' <= accepted'[job]
  <2>1. PICK taken \in asked :
          /\ asked' = asked \ {taken}
          /\ exec' = [exec EXCEPT ![e] = [Free EXCEPT !.at = "row", !.job = taken]]
    BY <1>3 DEF Takes
  <2>2. timers' = timers /\ exec[e].at = "free"
    BY <1>3 DEF Takes
  <2>3. exec'[e].at = "row" /\ exec'[e].job = taken /\ \A x \in Executors \ {e} : exec'[x] = exec[x]
    BY <1>0, <2>1 DEF ExecInv, Free
  <2>4. e \notin Holders(job)
    BY <2>2 DEF Holders
  <2>5. CASE job = taken
    <3>1. Holders(job)' = Holders(job) \union {e}
      BY <2>3, <2>5 DEF Holders, Job
    <3>2. Held(job)' = Held(job) + 1
      BY <2>4, <3>1, HeldNext, HoldersCount, FS_AddElement
    <3>3. Here(job) = 1 /\ Here(job)' = 0
      BY <2>1, <2>5
    <3> QED
      BY <1>1, <1>3, <2>2, <3>2, <3>3
  <2>6. CASE job # taken
    <3>1. Holders(job)' = Holders(job)
      BY <2>3, <2>4, <2>6 DEF Holders, Job
    <3>2. Held(job)' = Held(job)
      BY <3>1, HeldNext, HoldersCount
    <3>3. Here(job)' = Here(job)
      BY <2>1, <2>6
    <3> QED
      BY <1>1, <1>3, <2>2, <3>2, <3>3
  <2> QED
    BY <2>5, <2>6
<1>4. ASSUME NEW fired \in Jobs, TimerFires(fired), NEW job \in Jobs
      PROVE  Copies(job)' <= accepted'[job]
  <2>1. Held(job)' = Held(job) /\ accepted' = accepted /\ asked' = asked \union {fired}
    BY <1>4 DEF TimerFires, bookkeeping, Held, Job
  <2>2. CASE job = fired
    <3>1. timers'[job] = timers[job] - 1 /\ Here(job)' = 1
      BY <1>0, <1>4, <2>1, <2>2 DEF TimerFires, QueueInv
    <3> QED
      BY <1>1, <2>1, <3>1
  <2>3. CASE job # fired
    <3>1. timers'[job] = timers[job] /\ Here(job)' = Here(job)
      BY <1>0, <1>4, <2>1, <2>3 DEF TimerFires, QueueInv
    <3> QED
      BY <1>1, <2>1, <3>1
  <2> QED
    BY <2>2, <2>3
<1>5. ASSUME Dies, NEW job \in Jobs
      PROVE  Copies(job)' <= accepted'[job]
  <2>1. Holders(job)' = {}
    BY <1>5 DEF Dies, Holders, Free
  <2>2. Held(job)' = 0
    BY <2>1, HeldNext, FS_EmptySet
  <2>3. timers'[job] = 0 /\ Here(job)' = 0 /\ accepted'[job] = 0
    BY <1>5 DEF Dies
  <2> QED
    BY <1>1, <2>2, <2>3
<1>6. ASSUME NEW new \in Jobs, Asks(new), NEW job \in Jobs
      PROVE  Copies(job)' <= accepted'[job]
  <2>1. Held(job)' = Held(job) /\ timers' = timers
    BY <1>6 DEF Asks, Held, Job
  <2>2. CASE job = new
    <3>1. Here(job) = 0 /\ Here(job)' = 1 /\ accepted'[job] = accepted[job] + 1
      BY <1>0, <1>6, <2>2 DEF Asks, QueueInv
    <3> QED
      BY <1>1, <2>1, <3>1
  <2>3. CASE job # new
    <3>1. Here(job)' = Here(job) /\ accepted'[job] = accepted[job]
      BY <1>0, <1>6, <2>3 DEF Asks, QueueInv
    <3> QED
      BY <1>1, <2>1, <3>1
  <2> QED
    BY <2>2, <2>3
<1>7. ASSUME Quiet, NEW job \in Jobs
      PROVE  Copies(job)' <= accepted'[job]
  <2>1. Copies(job)' = Copies(job) /\ accepted' = accepted
    BY <1>7 DEF Quiet, Copies, Held, Job
  <2> QED
    BY <1>1, <2>1
<1> QED
  <2>1. (\A job \in Jobs : Copies(job)' <= accepted'[job]) => RetriesDoNotMultiply'
    BY DEF RetriesDoNotMultiply
  <2> HIDE DEF Here
  <2> QED
    BY <1>2, <1>3, <1>4, <1>5, <1>6, <1>7, <2>1, StepsOfJobs

-----------------------------------------------------------------------------
(* The chain and the vault.                                                *)

LEMMA BuffersCount ==
  ASSUME ChainTypeOK
  PROVE  /\ IsFiniteSet(Insured) /\ Cardinality(Insured) \in Nat
         /\ Buffers = idle + Cardinality(Insured)
<1>1. IsFiniteSet(Insured)
  BY FS_Subset, FiniteAssumption DEF Insured
<1> QED
  BY <1>1, FS_CardinalityType DEF Insured, Buffers

LEMMA BuffersNext ==
  Buffers' = idle' + Cardinality(Insured')
BY DEF Buffers, Insured

LEMMA TouchKeeps ==
  ASSUME ChainTypeOK, NEW q \in Positions, NEW changed \in Account, Touch(q, changed)
  PROVE  /\ account' \in [Positions -> Account]
         /\ Insured' = IF changed.injected THEN Insured \union {q} ELSE Insured \ {q}
<1> DEFINE touched == [changed EXCEPT !.valuedAt = drop]
<1>1. touched \in Account /\ touched.injected = changed.injected
  BY DEF Account, ChainTypeOK
<1>2. account' = [account EXCEPT ![q] = touched] /\ account \in [Positions -> Account]
  BY DEF Touch, ChainTypeOK
<1> HIDE DEF touched
<1> QED
  BY <1>1, <1>2 DEF Insured, Account

LEMMA RefreshKeeps ==
  ASSUME ChainTypeOK, NEW q \in Positions, RefreshObligation(q)
  PROVE  account' \in [Positions -> Account] /\ Insured' = Insured
<1>1. account[q] \in Account
  BY DEF ChainTypeOK
<1>2. /\ account' \in [Positions -> Account]
      /\ Insured' = IF account[q].injected THEN Insured \union {q} ELSE Insured \ {q}
  BY <1>1, TouchKeeps DEF RefreshObligation
<1> QED
  BY <1>2 DEF Insured

(* A transaction that succeeds moves a buffer between vault and position,  *)
(* or spends one on a swap.                                                *)
LEMMA EffectKeepsMarket ==
  ASSUME MarketInv, NEW step \in Steps, NEW q \in Positions,
         Outcome(step, q) = "ok", Effect(step, q), drop' = drop, purse' \in {0, 1}
  PROVE  MarketInv'
<1>0. /\ ChainTypeOK /\ idle \in Nat /\ usdc \in Nat /\ Buffers <= MaxIdle /\ MaxIdle \in Nat
      /\ account[q] \in Account /\ drop' \in Drops
  BY FiniteAssumption DEF MarketInv, ChainTypeOK
<1>1. /\ IsFiniteSet(Insured) /\ Cardinality(Insured) \in Nat
      /\ Buffers = idle + Cardinality(Insured)
      /\ Buffers' = idle' + Cardinality(Insured')
  BY <1>0, BuffersCount, BuffersNext
<1>2. (q \in Insured <=> account[q].injected) /\ account[q].injected \in BOOLEAN
  BY <1>0 DEF Insured, Account
<1>3. CASE step = "inject"
  <2> DEFINE changed == [account[q] EXCEPT !.injected = TRUE]
  <2>1. changed \in Account /\ changed.injected = TRUE
    BY <1>0 DEF Account
  <2>2. CanInject(q) /\ idle # 0
    BY <1>3 DEF Outcome
  <2>3. Touch(q, changed) /\ idle' = idle - 1 /\ usdc' = usdc
    BY <1>3 DEF Effect, InjectCollateral
  <2> HIDE DEF changed
  <2>4. account' \in [Positions -> Account] /\ Insured' = Insured \union {q}
    BY <1>0, <2>1, <2>3, TouchKeeps
  <2>5. q \notin Insured
    BY <1>2, <2>2 DEF CanInject
  <2>6. Cardinality(Insured') = Cardinality(Insured) + 1
    BY <1>1, <2>4, <2>5, FS_AddElement
  <2> QED
    BY <1>0, <1>1, <2>2, <2>3, <2>4, <2>6 DEF MarketInv, ChainTypeOK
<1>4. CASE step \in {"withdraw", "liquidate"}
  <2>1. PICK changed \in Account : Touch(q, changed) /\ changed.injected = FALSE
    <3>1. CASE step = "withdraw"
      <4>1. [account[q] EXCEPT !.injected = FALSE] \in Account
        BY <1>0 DEF Account
      <4>2. [account[q] EXCEPT !.injected = FALSE].injected = FALSE
        BY <1>0 DEF Account
      <4> QED
        BY <3>1, <4>1, <4>2 DEF Effect, WithdrawInjected
    <3>2. CASE step = "liquidate"
      <4>1. [account[q] EXCEPT !.injected = FALSE, !.load = 0] \in Account
        BY <1>0, LevelAssumption DEF Account
      <4>2. [account[q] EXCEPT !.injected = FALSE, !.load = 0].injected = FALSE
        BY <1>0 DEF Account
      <4> QED
        BY <3>2, <4>1, <4>2 DEF Effect, Liquidate
    <3> QED
      BY <1>4, <3>1, <3>2
  <2>2. idle' = idle + 1 /\ usdc' \in Nat
    BY <1>0, <1>4 DEF Effect
  <2>3. q \in Insured
    <3>1. account[q].injected
      BY <1>4 DEF Outcome, CanWithdraw
    <3> QED
      BY <1>2, <3>1
  <2>4. account' \in [Positions -> Account] /\ Insured' = Insured \ {q}
    BY <1>0, <2>1, TouchKeeps
  <2>5. Cardinality(Insured') = Cardinality(Insured) - 1
    BY <1>1, <2>3, <2>4, FS_RemoveElement
  <2> QED
    BY <1>0, <1>1, <2>2, <2>4, <2>5 DEF MarketInv, ChainTypeOK
<1>5. CASE step = "swap"
  <2>1. idle # 0
    BY <1>5 DEF Outcome
  <2>2. idle' = idle - 1 /\ usdc' = usdc + 1 /\ RefreshObligation(q)
    BY <1>5 DEF Effect, LiquidateSwap
  <2>3. account' \in [Positions -> Account] /\ Insured' = Insured
    BY <1>0, <2>2, RefreshKeeps
  <2> QED
    BY <1>0, <1>1, <2>1, <2>2, <2>3 DEF MarketInv, ChainTypeOK
<1> QED
  BY <1>3, <1>4, <1>5 DEF Steps

(* The rest of the world, and readings, move no buffers.                   *)
LEMMA CalmKeepsMarket ==
  ASSUME MarketInv, account' \in [Positions -> Account], Insured' = Insured,
         drop' \in Drops, idle' = idle, usdc' \in Nat, purse' \in {0, 1}
  PROVE  MarketInv'
<1>1. Buffers' = Buffers
  BY BuffersNext, BuffersCount DEF MarketInv
<1> QED
  BY <1>1 DEF MarketInv, ChainTypeOK

LEMMA StillKeepsMarket ==
  ASSUME MarketInv, account' = account, drop' = drop, idle' = idle,
         usdc' \in Nat, purse' \in {0, 1}
  PROVE  MarketInv'
<1>1. account' \in [Positions -> Account] /\ drop' \in Drops /\ Insured' = Insured
  BY DEF MarketInv, ChainTypeOK, Insured
<1> QED
  BY <1>1, CalmKeepsMarket

LEMMA RefreshKeepsMarket ==
  ASSUME MarketInv, NEW q \in Positions, RefreshObligation(q) \/ UNCHANGED account,
         UNCHANGED <<drop, idle, usdc, purse>>
  PROVE  MarketInv'
<1>1. account' \in [Positions -> Account] /\ Insured' = Insured
  BY RefreshKeeps DEF MarketInv, ChainTypeOK, Insured
<1> QED
  BY <1>1, CalmKeepsMarket DEF MarketInv, ChainTypeOK

LEMMA WorldKeepsMarket ==
  ASSUME MarketInv, World, UNCHANGED vaultVars
  PROVE  MarketInv'
<1>1. ChainTypeOK
  BY DEF MarketInv
<1>2. account' \in [Positions -> Account] /\ Insured' = Insured /\ drop' \in Drops
  <2>1. CASE PriceMoves
    BY <1>1, <2>1 DEF PriceMoves, ChainTypeOK, Insured
  <2>2. ASSUME NEW q \in Positions, OpenPosition(q)
        PROVE  account' \in [Positions -> Account] /\ Insured' = Insured /\ drop' \in Drops
    BY <1>1, <2>2 DEF OpenPosition, ChainTypeOK, Insured, Account
  <2>3. ASSUME NEW q \in Positions, ChangeLoad(q)
        PROVE  account' \in [Positions -> Account] /\ Insured' = Insured /\ drop' \in Drops
    <3>1. PICK load \in Loads : Touch(q, [account[q] EXCEPT !.load = load])
      BY <2>3 DEF ChangeLoad
    <3>2. /\ [account[q] EXCEPT !.load = load] \in Account
          /\ [account[q] EXCEPT !.load = load].injected = account[q].injected
      BY <1>1 DEF ChainTypeOK, Account
    <3>3. /\ account' \in [Positions -> Account]
          /\ Insured' = IF account[q].injected THEN Insured \union {q} ELSE Insured \ {q}
      BY <1>1, <3>1, <3>2, TouchKeeps
    <3> QED
      BY <1>1, <2>3, <3>3 DEF ChangeLoad, ChainTypeOK, Insured
  <2> QED
    BY <2>1, <2>2, <2>3 DEF World
<1> QED
  BY <1>2, CalmKeepsMarket DEF MarketInv, vaultVars

(* Executors and the faults they meet.                                     *)
LEMMA ExecutesKeepsMarket ==
  ASSUME TypeInv, NEW e \in Executors, Executes(e)
  PROVE  MarketInv'
<1>0. MarketInv
  BY DEF TypeInv
<1>1. CASE Takes(e) \/ ReadsRow(e) \/ AssessesInjection(e) \/ AssessesWithdrawal(e)
             \/ AssessesLiquidation(e) \/ WritesBack(e)
  <2>1. UNCHANGED market
    BY <1>1 DEF Takes, ReadsRow, AssessesInjection, AssessesWithdrawal,
                AssessesLiquidation, WritesBack
  <2> QED
    BY <1>0, <2>1, StillKeepsMarket DEF market, chainVars, vaultVars, MarketInv
<1>2. CASE SendsInjection(e) \/ SendsWithdrawal(e) \/ SendsSwap(e) \/ SendsLiquidation(e)
  <2>1. exec[e].at \in Steps /\ Position(e) \in Positions
    <3>1. exec[e].at \in Steps /\ exec[e].at # "free"
      BY <1>2 DEF SendsInjection, SendsWithdrawal, SendsSwap, SendsLiquidation, Steps
    <3> QED
      BY <3>1, HeldJob
  <2>2. UNCHANGED <<drop, purse>>
    BY <1>2 DEF SendsInjection, SendsWithdrawal, SendsSwap, SendsLiquidation, aside
  <2>3. \/ Outcome(exec[e].at, Position(e)) = "ok" /\ Effect(exec[e].at, Position(e))
        \/ UNCHANGED <<account, idle, usdc>>
    BY <1>2 DEF SendsInjection, SendsWithdrawal, SendsSwap, SendsLiquidation, Submits, Refused
  <2> QED
    BY <1>0, <2>1, <2>2, <2>3, EffectKeepsMarket, StillKeepsMarket DEF MarketInv
<1>3. CASE Prefunds(e)
  BY <1>0, <1>3, StillKeepsMarket DEF Prefunds, PrefundVaultDebt, chainVars, MarketInv
<1>4. ASSUME NEW lands \in BOOLEAN, RechecksInjection(e, lands)
      PROVE  MarketInv'
  <2>1. /\ RefreshObligation(Position(e)) \/ UNCHANGED account
        /\ UNCHANGED <<drop, idle, usdc, purse>> /\ exec[e].at # "free"
    BY <1>4 DEF RechecksInjection, vaultVars
  <2> QED
    BY <1>0, <2>1, HeldJob, RefreshKeepsMarket
<1>5. ASSUME NEW lands \in BOOLEAN,
             SettlesInjection(e, lands) \/ SettlesWithdrawal(e, lands) \/ SettlesLiquidation(e, lands)
      PROVE  MarketInv'
  <2>1. /\ RefreshObligation(Position(e)) \/ UNCHANGED account
        /\ UNCHANGED <<drop, idle, usdc, purse>> /\ exec[e].at # "free"
    BY <1>5 DEF SettlesInjection, SettlesWithdrawal, SettlesLiquidation, ReadsBack, At, aside
  <2> QED
    BY <1>0, <2>1, HeldJob, RefreshKeepsMarket
<1> QED
  BY <1>1, <1>2, <1>3, <1>4, <1>5 DEF Executes

LEMMA FaltersKeepsMarket ==
  ASSUME TypeInv, NEW e \in Executors, Falters(e)
  PROVE  MarketInv'
<1>1. /\ MarketInv /\ drop' = drop
      /\ purse' \in {0, 1}
  BY DEF Falters, TypeInv, MarketInv, PrefundVaultDebt
<1>2. CASE account' = account /\ idle' = idle /\ usdc' \in {usdc, usdc + purse}
  <2>1. usdc' \in Nat
    BY <1>2 DEF TypeInv, MarketInv
  <2> QED
    BY <1>1, <1>2, <2>1, StillKeepsMarket
<1>3. CASE exec[e].at \in Steps /\ Outcome(exec[e].at, Position(e)) = "ok"
             /\ Effect(exec[e].at, Position(e))
  <2>1. exec[e].at # "free"
    BY <1>3 DEF Steps
  <2> QED
    BY <1>1, <1>3, <2>1, HeldJob, EffectKeepsMarket
<1>4. \/ account' = account /\ idle' = idle /\ usdc' \in {usdc, usdc + purse}
      \/ exec[e].at \in Steps /\ Outcome(exec[e].at, Position(e)) = "ok"
           /\ Effect(exec[e].at, Position(e))
  BY DEF Falters, PrefundVaultDebt
<1> QED
  BY <1>2, <1>3, <1>4

LEMMA MarketTyped ==
  ASSUME TypeInv, [Next]_vars
  PROVE  MarketInv'
<1>0. MarketInv
  BY DEF TypeInv
<1>1. CASE UNCHANGED market
  BY <1>0, <1>1, StillKeepsMarket DEF market, chainVars, vaultVars, MarketInv
<1>2. ASSUME NEW q \in Positions, NEW lands \in BOOLEAN, WorkerAsks(q, lands)
      PROVE  MarketInv'
  BY <1>0, <1>2, RefreshKeepsMarket DEF WorkerAsks, vaultVars
<1>3. CASE WorldMoves
  <2>1. CASE World /\ UNCHANGED vaultVars
    BY <1>0, <2>1, WorldKeepsMarket
  <2>2. ASSUME NEW step \in Steps, NEW q \in Positions,
               Outcome(step, q) = "ok", Effect(step, q), UNCHANGED <<drop, purse>>
        PROVE  MarketInv'
    BY <1>0, <2>2, EffectKeepsMarket DEF MarketInv
  <2>3. CASE Buffers < MaxIdle /\ idle' = idle + 1 /\ UNCHANGED <<chainVars, usdc, purse>>
    <3>1. Insured' = Insured /\ chainVars' = chainVars
      BY <2>3 DEF chainVars, Insured
    <3>2. Buffers' = Buffers + 1 /\ Buffers \in Nat /\ idle' \in Nat /\ MaxIdle \in Nat
      BY <1>0, <2>3, <3>1, BuffersCount, BuffersNext, FiniteAssumption DEF MarketInv
    <3> QED
      BY <1>0, <2>3, <3>2 DEF MarketInv, ChainTypeOK, chainVars
  <2>4. CASE usdc' = 0 /\ UNCHANGED <<chainVars, idle, purse>>
    BY <1>0, <2>4, StillKeepsMarket DEF chainVars, MarketInv
  <2> QED
    BY <1>3, <2>1, <2>2, <2>3, <2>4 DEF WorldMoves
<1>4. (\E job \in Jobs : TimerFires(job)) \/ Dies \/ (\E q \in Positions : WatcherDeletes(q))
        \/ WatcherLists \/ WatcherUpserts \/ UNCHANGED vars => UNCHANGED market
  BY DEF TimerFires, Dies, WatcherDeletes, WatcherLists, WatcherUpserts, vars
<1> QED
  BY <1>1, <1>2, <1>3, <1>4, ExecutesKeepsMarket, FaltersKeepsMarket, Zenon DEF Next

-----------------------------------------------------------------------------
(* The store.                                                              *)

LEMMA UpsertKeeps ==
  ASSUME StoreTypeOK, NEW listed, NEW written \in SUBSET Positions,
         \A q \in written : listed[q] \in Row, Upsert(listed, written)
  PROVE  StoreTypeOK'
BY DEF StoreTypeOK, Upsert

LEMMA StoreTyped ==
  ASSUME TypeInv, [Next]_vars
  PROVE  StoreInv'
<1>0. StoreInv /\ ExecInv
  BY DEF TypeInv
<1>1. CASE UNCHANGED <<rows, listing>>
  BY <1>0, <1>1 DEF StoreInv, StoreTypeOK
<1>2. ASSUME NEW e \in Executors, WritesBack(e)
      PROVE  StoreInv'
  <2>1. exec[e].row \in Row /\ Position(e) \in Positions /\ listing' = listing
    BY <1>0, <1>2, HeldJob DEF WritesBack, ExecInv, Slot
  <2>2. StoreTypeOK'
    BY <1>0, <1>2, <2>1, UpsertKeeps DEF WritesBack, StoreInv
  <2> QED
    BY <1>0, <2>1, <2>2 DEF StoreInv
<1>3. CASE WatcherUpserts
  <2>1. listing \in [Positions -> Row] /\ StoredPositions(listing) \in SUBSET Positions /\ listing' = Nothing
    BY <1>0, <1>3 DEF WatcherUpserts, StoreInv, StoredPositions
  <2>2. StoreTypeOK'
    BY <1>0, <1>3, <2>1, UpsertKeeps DEF WatcherUpserts, StoreInv
  <2> QED
    BY <2>1, <2>2 DEF StoreInv
<1>4. CASE WatcherLists
  <2>1. ListPositions \in [Positions -> Row]
    BY DEF ListPositions, Row, TypeInv, MarketInv, ChainTypeOK, Account
  <2> QED
    BY <1>0, <1>4, <2>1 DEF WatcherLists, StoreInv, StoreTypeOK
<1>5. ASSUME NEW q \in Positions, WatcherDeletes(q)
      PROVE  StoreInv'
  BY <1>0, <1>5 DEF WatcherDeletes, Delete, StoreInv, StoreTypeOK, Row
<1>6. CASE Dies
  BY <1>0, <1>6 DEF Dies, StoreInv, StoreTypeOK
<1>7. ASSUME NEW e \in Executors, Executes(e), ~WritesBack(e)
      PROVE  UNCHANGED <<rows, listing>>
  BY <1>7 DEF Executes, Takes, ReadsRow, AssessesInjection, SendsInjection,
         AssessesWithdrawal, SendsWithdrawal, AssessesLiquidation, SendsSwap,
         SendsLiquidation, Prefunds, RechecksInjection, SettlesInjection,
         SettlesWithdrawal, SettlesLiquidation, aside
<1>8. (\E e \in Executors : Falters(e)) \/ (\E job \in Jobs : TimerFires(job))
        \/ (\E q \in Positions, lands \in BOOLEAN : WorkerAsks(q, lands))
        \/ WorldMoves \/ UNCHANGED vars => UNCHANGED <<rows, listing>>
  BY DEF Falters, TimerFires, WorkerAsks, WorldMoves, vars
<1> QED
  BY <1>1, <1>2, <1>3, <1>4, <1>5, <1>6, <1>7, <1>8, Zenon DEF Next

LEMMA EventsTyped ==
  ASSUME TypeInv, [Next]_vars
  PROVE  events' \in 0 .. MaxEvents
<1>1. events' = events \/ (events < MaxEvents /\ events' = events + 1)
  BY DEF Next, vars, bookkeeping, Event, Executes, Falters, TimerFires, Dies, WorkerAsks,
         WatcherDeletes, WatcherLists, WatcherUpserts, WorldMoves
<1> QED
  BY <1>1, FiniteAssumption DEF TypeInv

-----------------------------------------------------------------------------
(* The invariant of the executors: types, and what is claimed of jobs.     *)

ExecutorInv == TypeInv /\ RetriesDoNotMultiply /\ AsksAreKept

LEMMA Starts == Init => ExecutorInv
<1> SUFFICES ASSUME Init PROVE ExecutorInv
  OBVIOUS
<1>1. MarketInv
  BY FiniteAssumption DEF Init, ChainInit, MarketInv, ChainTypeOK
<1>2. StoreInv
  BY DEF Init, StoreInit, StoreInv, StoreTypeOK
<1>3. ExecInv
  BY FreeIsSlot DEF Init, ExecInv, Free
<1>4. QueueInv /\ events \in 0 .. MaxEvents
  BY FiniteAssumption DEF Init, QueueInv
<1>5. RetriesDoNotMultiply
  <2>1. ASSUME NEW job \in Jobs
        PROVE  Copies(job) <= accepted[job]
    <3>1. Holders(job) = {}
      BY DEF Init, Holders, Free
    <3>2. Held(job) = 0
      BY <3>1, HoldersCount, FS_EmptySet
    <3> QED
      BY <3>2 DEF Copies, Init
  <2> QED
    BY <2>1 DEF RetriesDoNotMultiply
<1>6. AsksAreKept
  BY DEF Init, AsksAreKept
<1> QED
  BY <1>1, <1>2, <1>3, <1>4, <1>5, <1>6 DEF ExecutorInv, TypeInv

LEMMA Preserved == ExecutorInv /\ [Next]_vars => ExecutorInv'
BY MarketTyped, StoreTyped, JobsTyped, EventsTyped, CopiesDoNotGrow, AsksStayKept
   DEF ExecutorInv, TypeInv

LEMMA ExecutorInvariant == Spec => []ExecutorInv
BY Starts, Preserved, PTL DEF Spec

(* Type correctness of executors, vault, store and jobs: among others, an  *)
(* executor past getPosition holds a job, and idle buffers never exceed    *)
(* those there are, though any of them may be paid out and returned.       *)
THEOREM ExecutorTypes == Spec => []ExecutorTypeOK
<1>1. ASSUME ExecutorInv
      PROVE  ExecutorTypeOK
  <2>1. idle \in 0 .. MaxIdle
    <3>1. Buffers = idle + Cardinality(Insured) /\ Cardinality(Insured) \in Nat
      BY <1>1, BuffersCount DEF ExecutorInv, TypeInv, MarketInv
    <3> QED
      BY <1>1, <3>1, FiniteAssumption DEF ExecutorInv, TypeInv, MarketInv
  <2>2. \A e \in Executors : exec[e] \in Slot /\ (exec[e].at # "free" => exec[e].job \in Jobs)
    BY <1>1 DEF ExecutorInv, TypeInv, ExecInv
  <2> QED
    BY <1>1, <2>1, <2>2 DEF ExecutorInv, TypeInv, MarketInv, StoreInv, QueueInv,
       ExecutorTypeOK, ExecuteTypeOK, Slot, Places
<1> QED
  BY <1>1, ExecutorInvariant, PTL

(* However a job fails and is retried, by however many executors: there    *)
(* are never more copies of it than a worker has asked for.                *)
THEOREM RetriesStayFew == Spec => []RetriesDoNotMultiply
<1>1. ExecutorInv => RetriesDoNotMultiply
  BY DEF ExecutorInv
<1> QED
  BY <1>1, ExecutorInvariant, PTL

(* No ask is lost but to what is out of date: wherever an executor lets go *)
(* of a job for good, the job is done, the program would refuse it, the    *)
(* error is in no list of retriable ones, or the row or the stored values  *)
(* it went by were not what the chain had.                                 *)
THEOREM AsksKept == Spec => []AsksAreKept
<1>1. ExecutorInv => AsksAreKept
  BY DEF ExecutorInv
<1> QED
  BY <1>1, ExecutorInvariant, PTL
=============================================================================
