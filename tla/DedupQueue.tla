----------------------------- MODULE DedupQueue -----------------------------
(***************************************************************************)
(* keeper/src/queue/dedup_queue.ts with its consumers, the run() loops of  *)
(* LtvWorker and ActionExecutor (main.ts starts several of each on one     *)
(* queue).  JavaScript runs one callback at a time, so enqueue and the     *)
(* synchronous part of dequeue are one step each; consumers interleave at  *)
(* their awaits.  A job is its dedupe key: every payload is a function of  *)
(* the key as far as the queue can tell.                                   *)
(***************************************************************************)
EXTENDS Sequences, SequencesExt

CONSTANTS
  Keys,       \* dedupe keys of the jobs producers ask for
  Consumers,  \* the workers or executors that share the queue
  None        \* a consumer without a job

ASSUME NoneAssumption == None \notin Keys

VARIABLES
  items,       \* queued keys, oldest first
  dedupeKeys,  \* keys for which another request is refused
  waiters,     \* consumers asleep in dequeue, oldest first
  holding,     \* the job each consumer is processing
  running      \* FALSE once shutdown has told every consumer to stop

vars == <<items, dedupeKeys, waiters, holding, running>>

Init ==
  /\ items = <<>>
  /\ dedupeKeys = {}
  /\ waiters = <<>>
  /\ holding = [c \in Consumers |-> None]
  /\ running = TRUE

-----------------------------------------------------------------------------
(* enqueue: a key that is pending already is refused, which changes        *)
(* nothing.  The oldest waiter takes a new job at once: its callback       *)
(* deletes the key that enqueue has just added.                            *)
HandOverToSleeper(k) ==  \* mutant: the waiter is looked at, not shifted
  /\ waiters # <<>>
  /\ holding' = [holding EXCEPT ![Head(waiters)] = k]
  /\ UNCHANGED <<items, dedupeKeys, waiters, running>>

HandOver(k) ==
  /\ waiters # <<>>
  /\ waiters' = Tail(waiters)
  /\ holding' = [holding EXCEPT ![Head(waiters)] = k]
  /\ UNCHANGED <<items, dedupeKeys, running>>

Push(k) ==
  /\ waiters = <<>>
  /\ items' = Append(items, k)
  /\ dedupeKeys' = dedupeKeys \union {k}
  /\ UNCHANGED <<waiters, holding, running>>

EnqueueWithoutWaking(k) ==  \* mutant: waiters are forgotten
  /\ k \notin dedupeKeys
  /\ items' = Append(items, k)
  /\ dedupeKeys' = dedupeKeys \union {k}
  /\ UNCHANGED <<waiters, holding, running>>

EnqueueTwice(k) == HandOver(k) \/ Push(k)  \* mutant: no dedupe check

EnqueueInFront(k) ==  \* mutant: newest job first
  /\ k \notin dedupeKeys
  /\ \/ HandOver(k)
     \/ /\ waiters = <<>>
        /\ items' = <<k>> \o items
        /\ dedupeKeys' = dedupeKeys \union {k}
        /\ UNCHANGED <<waiters, holding, running>>

Enqueue(k) ==
  /\ k \notin dedupeKeys
  /\ HandOver(k) \/ Push(k)

-----------------------------------------------------------------------------
(* One turn of a consumer's loop: while (running) await dequeue().         *)
AtLoopHead(c) == holding[c] = None /\ c \notin Range(waiters)

DequeueKeepingKey(c) ==  \* mutant: the key of a dequeued job is not freed
  /\ running /\ AtLoopHead(c) /\ items # <<>>
  /\ items' = Tail(items)
  /\ holding' = [holding EXCEPT ![c] = Head(items)]
  /\ UNCHANGED <<dedupeKeys, waiters, running>>

DequeueUnguarded(c) ==  \* mutant: an empty queue yields undefined
  /\ running /\ AtLoopHead(c)
  /\ items' = SubSeq(items, 2, Len(items))
  /\ dedupeKeys' = Range(items')
  /\ holding' = [holding EXCEPT ![c] = IF items = <<>> THEN "undefined" ELSE Head(items)]
  /\ UNCHANGED <<waiters, running>>

DequeueImmediate(c) ==
  /\ running /\ AtLoopHead(c) /\ items # <<>>
  /\ items' = Tail(items)
  /\ dedupeKeys' = dedupeKeys \ {Head(items)}
  /\ holding' = [holding EXCEPT ![c] = Head(items)]
  /\ UNCHANGED <<waiters, running>>

DequeueWaiting(c) ==
  /\ running /\ AtLoopHead(c) /\ items = <<>>
  /\ waiters' = Append(waiters, c)
  /\ UNCHANGED <<items, dedupeKeys, holding, running>>

Dequeue(c) == DequeueImmediate(c) \/ DequeueWaiting(c)

(* The job is done, or it failed and was logged.                           *)
Finish(c) ==
  /\ holding[c] # None
  /\ holding' = [holding EXCEPT ![c] = None]
  /\ UNCHANGED <<items, dedupeKeys, waiters, running>>

(* shutdown(): a consumer sees it when it next comes to its loop head; one *)
(* that sleeps in dequeue still takes the next job.                        *)
Stop ==
  /\ running
  /\ running' = FALSE
  /\ UNCHANGED <<items, dedupeKeys, waiters, holding>>

Next ==
  \/ \E k \in Keys : Enqueue(k)
  \/ \E c \in Consumers : Dequeue(c) \/ Finish(c)
  \/ Stop

(* The event loop resumes every consumer whose await has settled, and the  *)
(* awaits inside a job settle: requests succeed or fail.                   *)
Fairness == \A c \in Consumers : WF_vars(Dequeue(c)) /\ WF_vars(Finish(c))

Spec == Init /\ [][Next]_vars

FairSpec == Spec /\ Fairness

-----------------------------------------------------------------------------
(* The types of the variables of DedupQueue and of its consumers.          *)
TypeOK ==
  /\ items \in Seq(Keys)
  /\ dedupeKeys \in SUBSET Keys
  /\ waiters \in Seq(Consumers)
  /\ holding \in [Consumers -> Keys \union {None}]
  /\ running \in BOOLEAN

(* dedupeKeys and items, which enqueue, dequeue and the waiters' callbacks *)
(* update apart, agree: a key that is refused is queued exactly once, so   *)
(* no key is refused for ever and none is queued twice.                    *)
KeysAreQueued ==
  /\ dedupeKeys = Range(items)
  /\ IsInjective(items)

(* No consumer sleeps in dequeue while a job is queued.                    *)
NoSleeperWhileQueued == waiters # <<>> => items = <<>>

(* A sleeping consumer sleeps once and has no job: a job handed to it      *)
(* overwrites nothing.                                                     *)
SleepersAreIdle ==
  /\ IsInjective(waiters)
  /\ \A c \in Range(waiters) : holding[c] = None

(* The queue is a set of pending keys to its users: no accepted job is     *)
(* lost, none is taken twice, and none overtakes a pending one by being    *)
(* handed over.                                                            *)
Abstract == INSTANCE WorkSet WITH pending <- dedupeKeys, work <- holding

ImplementsWorkSet == Abstract!Spec

(* Every queued job reaches a consumer, however busily producers go on     *)
(* asking for others, unless the keeper shuts down.                        *)
EveryJobTaken ==
  \A k \in Keys :
    k \in dedupeKeys ~> (~running \/ \E c \in Consumers : holding[c] = k)
=============================================================================
