-------------------------- MODULE DedupQueueProofs --------------------------
(***************************************************************************)
(* DedupQueue keeps its keys, its jobs and its sleeping consumers          *)
(* consistent, and implements WorkSet, for any jobs and any consumers.     *)
(***************************************************************************)
EXTENDS DedupQueue, TLAPS

(* Appending a new element to an injective sequence.                       *)
LEMMA AppendFresh ==
  ASSUME NEW S, NEW s \in Seq(S), NEW x \in S, IsInjective(s), x \notin Range(s)
  PROVE  /\ Append(s, x) \in Seq(S)
         /\ Range(Append(s, x)) = Range(s) \union {x}
         /\ IsInjective(Append(s, x))
<1> DEFINE t == Append(s, x)
<1>1. /\ t \in Seq(S)
      /\ Len(t) = Len(s) + 1
      /\ t[Len(s) + 1] = x
      /\ \A i \in 1..Len(s) : t[i] = s[i]
      /\ Len(s) \in Nat
      /\ DOMAIN s = 1..Len(s)
      /\ DOMAIN t = 1..(Len(s) + 1)
  OBVIOUS
<1>2. Range(t) = Range(s) \union {x}
  <2> HIDE DEF t
  <2>1. DOMAIN t = DOMAIN s \union {Len(s) + 1}
    BY <1>1
  <2>2. \A i \in DOMAIN s : t[i] = s[i]
    BY <1>1
  <2> QED
    BY <2>1, <2>2, <1>1 DEF Range
<1>3. IsInjective(t)
  <2> SUFFICES ASSUME NEW a \in DOMAIN t, NEW b \in DOMAIN t, t[a] = t[b]
               PROVE  a = b
    BY DEF IsInjective
  <2> HIDE DEF t
  <2>1. \A i \in 1..Len(s) : s[i] # x
    BY <1>1 DEF Range
  <2>2. \A i, j \in 1..Len(s) : s[i] = s[j] => i = j
    BY <1>1 DEF IsInjective
  <2> QED
    BY <1>1, <2>1, <2>2
<1> QED
  BY <1>1, <1>2, <1>3

(* Removing the head of an injective sequence removes exactly one element. *)
LEMMA TailOfInjective ==
  ASSUME NEW S, NEW s \in Seq(S), IsInjective(s), s # <<>>
  PROVE  /\ Head(s) \in S
         /\ Head(s) \in Range(s)
         /\ Tail(s) \in Seq(S)
         /\ Range(Tail(s)) = Range(s) \ {Head(s)}
         /\ IsInjective(Tail(s))
<1> DEFINE t == Tail(s)
<1>1. /\ t \in Seq(S)
      /\ Len(s) \in Nat \ {0}
      /\ DOMAIN s = 1..Len(s)
      /\ DOMAIN t = 1..(Len(s) - 1)
      /\ \A i \in 1..(Len(s) - 1) : t[i] = s[i + 1]
      /\ Head(s) = s[1]
      /\ s[1] \in S
  OBVIOUS
<1>2. \A i, j \in 1..Len(s) : s[i] = s[j] => i = j
  BY <1>1 DEF IsInjective
<1>3. Range(t) = Range(s) \ {s[1]}
  <2> HIDE DEF t
  <2>1. ASSUME NEW y \in Range(t)
        PROVE  y \in Range(s) /\ y # s[1]
    <3>1. PICK i \in 1..(Len(s) - 1) : y = t[i]
      BY <1>1 DEF Range
    <3>2. i + 1 \in 1..Len(s) /\ 1 \in 1..Len(s) /\ y = s[i + 1] /\ i + 1 # 1
      BY <3>1, <1>1
    <3> QED
      BY <3>2, <1>2, <1>1 DEF Range
  <2>2. ASSUME NEW y \in Range(s), y # s[1]
        PROVE  y \in Range(t)
    <3>1. PICK j \in 1..Len(s) : y = s[j]
      BY <1>1 DEF Range
    <3>2. j - 1 \in 1..(Len(s) - 1) /\ t[j - 1] = s[(j - 1) + 1]
      BY <3>1, <2>2, <1>1
    <3>3. (j - 1) + 1 = j
      BY <3>1, <1>1
    <3> QED
      BY <3>1, <3>2, <3>3, <1>1 DEF Range
  <2> QED
    BY <2>1, <2>2
<1>4. IsInjective(t)
  <2> SUFFICES ASSUME NEW a \in DOMAIN t, NEW b \in DOMAIN t, t[a] = t[b]
               PROVE  a = b
    BY DEF IsInjective
  <2> HIDE DEF t
  <2>1. /\ a + 1 \in 1..Len(s) /\ b + 1 \in 1..Len(s)
        /\ s[a + 1] = s[b + 1]
    BY <1>1
  <2>2. a + 1 = b + 1
    BY <2>1, <1>2
  <2> QED
    BY <2>2, <1>1
<1>5. Head(s) \in Range(s)
  BY <1>1 DEF Range
<1> QED
  BY <1>1, <1>3, <1>4, <1>5

-----------------------------------------------------------------------------
(* The invariant: the four parts are inductive only together.  Types give  *)
(* Head and Tail their meaning, sleepers must be idle for a hand-over to   *)
(* be a hand-over, and none may sleep while a job is queued.               *)
IInv == TypeOK /\ KeysAreQueued /\ NoSleeperWhileQueued /\ SleepersAreIdle

LEMMA InitIInv == Init => IInv
BY DEF Init, IInv, TypeOK, KeysAreQueued, NoSleeperWhileQueued, SleepersAreIdle,
       IsInjective, Range

(* What waking the oldest sleeper with job k does to the sleepers.         *)
LEMMA HandOverKeeps ==
  ASSUME IInv, NEW k \in Keys, HandOver(k)
  PROVE  IInv'
<1> USE DEF IInv, TypeOK, HandOver
<1>1. /\ Head(waiters) \in Consumers
      /\ Head(waiters) \in Range(waiters)
      /\ Tail(waiters) \in Seq(Consumers)
      /\ Range(Tail(waiters)) = Range(waiters) \ {Head(waiters)}
      /\ IsInjective(Tail(waiters))
  BY TailOfInjective DEF SleepersAreIdle
<1>2. TypeOK'
  BY <1>1
<1>3. KeysAreQueued'
  BY DEF KeysAreQueued, Range, IsInjective
<1>4. NoSleeperWhileQueued'
  BY DEF NoSleeperWhileQueued
<1>5. SleepersAreIdle'
  <2>1. ASSUME NEW c \in Range(waiters')
        PROVE  holding'[c] = None
    <3>1. c \in Range(waiters) /\ c # Head(waiters)
      BY <1>1
    <3>2. holding[c] = None
      BY <3>1 DEF SleepersAreIdle
    <3> QED
      BY <3>1, <3>2
  <2> QED
    BY <1>1, <2>1 DEF SleepersAreIdle
<1> QED
  BY <1>2, <1>3, <1>4, <1>5

LEMMA PushKeeps ==
  ASSUME IInv, NEW k \in Keys, k \notin dedupeKeys, Push(k)
  PROVE  IInv'
<1> USE DEF IInv, TypeOK, Push
<1>1. /\ Append(items, k) \in Seq(Keys)
      /\ Range(Append(items, k)) = Range(items) \union {k}
      /\ IsInjective(Append(items, k))
  BY AppendFresh DEF KeysAreQueued
<1>2. TypeOK'
  BY <1>1
<1>3. KeysAreQueued'
  BY <1>1 DEF KeysAreQueued
<1>4. NoSleeperWhileQueued'
  BY DEF NoSleeperWhileQueued
<1>5. SleepersAreIdle'
  BY DEF SleepersAreIdle, Range, IsInjective
<1> QED
  BY <1>2, <1>3, <1>4, <1>5

LEMMA DequeueImmediateKeeps ==
  ASSUME IInv, NEW c \in Consumers, DequeueImmediate(c)
  PROVE  IInv'
<1> USE DEF IInv, TypeOK, DequeueImmediate
<1>1. /\ Head(items) \in Keys
      /\ Tail(items) \in Seq(Keys)
      /\ Range(Tail(items)) = Range(items) \ {Head(items)}
      /\ IsInjective(Tail(items))
  BY TailOfInjective DEF KeysAreQueued
<1>2. TypeOK'
  BY <1>1
<1>3. KeysAreQueued'
  BY <1>1 DEF KeysAreQueued
<1>4. waiters = <<>>
  BY DEF NoSleeperWhileQueued
<1>5. NoSleeperWhileQueued' /\ SleepersAreIdle'
  BY <1>4 DEF NoSleeperWhileQueued, SleepersAreIdle, Range, IsInjective
<1> QED
  BY <1>2, <1>3, <1>5

LEMMA DequeueWaitingKeeps ==
  ASSUME IInv, NEW c \in Consumers, DequeueWaiting(c)
  PROVE  IInv'
<1> USE DEF IInv, TypeOK, DequeueWaiting
<1>1. /\ Append(waiters, c) \in Seq(Consumers)
      /\ Range(Append(waiters, c)) = Range(waiters) \union {c}
      /\ IsInjective(Append(waiters, c))
  BY AppendFresh DEF SleepersAreIdle, AtLoopHead
<1>2. TypeOK'
  BY <1>1
<1>3. KeysAreQueued'
  BY DEF KeysAreQueued, Range, IsInjective
<1>4. NoSleeperWhileQueued'
  BY DEF NoSleeperWhileQueued
<1>5. SleepersAreIdle'
  BY <1>1 DEF SleepersAreIdle, AtLoopHead
<1> QED
  BY <1>2, <1>3, <1>4, <1>5

(* A consumer that finishes is no sleeper, or was idle already.            *)
LEMMA FinishKeeps ==
  ASSUME IInv, NEW c \in Consumers, Finish(c)
  PROVE  IInv'
<1> USE DEF IInv, TypeOK, Finish
<1>1. TypeOK'
  OBVIOUS
<1>2. KeysAreQueued' /\ NoSleeperWhileQueued'
  BY DEF KeysAreQueued, NoSleeperWhileQueued, Range, IsInjective
<1>3. SleepersAreIdle'
  <2>1. ASSUME NEW d \in Range(waiters)
        PROVE  d \in Consumers /\ holding[d] = None
    BY <2>1 DEF SleepersAreIdle, Range
  <2>2. IsInjective(waiters') /\ Range(waiters') = Range(waiters)
    BY DEF SleepersAreIdle, IsInjective, Range
  <2>3. \A d \in Range(waiters') : holding'[d] = None
    BY <2>1, <2>2
  <2> QED
    BY <2>2, <2>3 DEF SleepersAreIdle
<1> QED
  BY <1>1, <1>2, <1>3

LEMMA StutterKeeps ==
  ASSUME IInv, UNCHANGED <<items, dedupeKeys, waiters, holding>>, running' \in BOOLEAN
  PROVE  IInv'
BY DEF IInv, TypeOK, KeysAreQueued, NoSleeperWhileQueued, SleepersAreIdle,
       IsInjective, Range

LEMMA NextKeepsIInv == IInv /\ [Next]_vars => IInv'
<1> SUFFICES ASSUME IInv, [Next]_vars
             PROVE  IInv'
  OBVIOUS
<1>1. ASSUME NEW k \in Keys, Enqueue(k)
      PROVE  IInv'
  BY <1>1, HandOverKeeps, PushKeeps DEF Enqueue
<1>2. ASSUME NEW c \in Consumers, Dequeue(c)
      PROVE  IInv'
  BY <1>2, DequeueImmediateKeeps, DequeueWaitingKeeps DEF Dequeue
<1>3. ASSUME NEW c \in Consumers, Finish(c)
      PROVE  IInv'
  BY <1>3, FinishKeeps
<1>4. CASE Stop
  BY <1>4, StutterKeeps DEF Stop
<1>5. CASE UNCHANGED vars
  BY <1>5, StutterKeeps DEF vars, IInv, TypeOK
<1> QED
  BY <1>1, <1>2, <1>3, <1>4, <1>5 DEF Next

LEMMA QueueConsistent == Spec => []IInv
<1> QED
  BY InitIInv, NextKeepsIInv, PTL DEF Spec

(* dedupeKeys and items agree and no key is queued twice, whatever         *)
(* enqueue, dequeue and the waiters' callbacks do and in which order.      *)
THEOREM DedupSound == Spec => []KeysAreQueued
<1>1. IInv => KeysAreQueued
  BY DEF IInv
<1> QED
  BY <1>1, QueueConsistent, PTL

(* Every state the queue reaches is of its type.                           *)
THEOREM QueueTypes == Spec => []TypeOK
<1>1. IInv => TypeOK
  BY DEF IInv
<1> QED
  BY <1>1, QueueConsistent, PTL

(* No consumer sleeps in dequeue while a job is queued.                    *)
THEOREM NoLostWakeup == Spec => []NoSleeperWhileQueued
<1>1. IInv => NoSleeperWhileQueued
  BY DEF IInv
<1> QED
  BY <1>1, QueueConsistent, PTL

(* Every callback of dequeue belongs to one consumer that has no job: a    *)
(* hand-over cannot give a second job to a busy worker, and lose one.      *)
THEOREM SleepersAreFree == Spec => []SleepersAreIdle
<1>1. IInv => SleepersAreIdle
  BY DEF IInv
<1> QED
  BY <1>1, QueueConsistent, PTL

-----------------------------------------------------------------------------
LEMMA InitRefines == Init => Abstract!Init
BY DEF Init, Abstract!Init

(* Every step of the queue is a step of the set of pending keys, or leaves *)
(* it alone.  A hand-over needs an empty queue and an idle sleeper.        *)
LEMMA NextRefines ==
  IInv /\ [Next]_vars => [Abstract!Next]_<<dedupeKeys, holding>>
<1> SUFFICES ASSUME IInv, [Next]_vars
             PROVE  [Abstract!Next]_<<dedupeKeys, holding>>
  OBVIOUS
<1>1. ASSUME NEW k \in Keys, HandOver(k)
      PROVE  Abstract!Next
  <2>1. Head(waiters) \in Consumers /\ Head(waiters) \in Range(waiters)
    BY <1>1, TailOfInjective DEF HandOver, IInv, TypeOK, SleepersAreIdle
  <2>2. holding[Head(waiters)] = None
    BY <2>1 DEF IInv, SleepersAreIdle
  <2>3. dedupeKeys = {}
    BY <1>1 DEF HandOver, IInv, NoSleeperWhileQueued, KeysAreQueued, Range
  <2>4. Abstract!TakeAtOnce(k, Head(waiters))
    BY <1>1, <2>2, <2>3 DEF HandOver, Abstract!TakeAtOnce, Abstract!Idle
  <2> QED
    BY <2>1, <2>4 DEF Abstract!Next
<1>2. ASSUME NEW k \in Keys, Push(k)
      PROVE  Abstract!Next
  BY <1>2 DEF Push, Abstract!Next, Abstract!Request
<1>3. ASSUME NEW c \in Consumers, DequeueImmediate(c)
      PROVE  Abstract!Next
  <2>1. Head(items) \in Keys /\ Head(items) \in dedupeKeys
    BY <1>3, TailOfInjective DEF DequeueImmediate, IInv, TypeOK, KeysAreQueued
  <2>2. Abstract!Take(Head(items), c)
    BY <1>3, <2>1 DEF DequeueImmediate, AtLoopHead, Abstract!Take, Abstract!Idle
  <2> QED
    BY <2>1, <2>2 DEF Abstract!Next
<1>4. ASSUME NEW c \in Consumers, Finish(c)
      PROVE  Abstract!Next
  BY <1>4 DEF Finish, Abstract!Next, Abstract!Complete, Abstract!Idle
<1>5. ASSUME NEW c \in Consumers, DequeueWaiting(c)
      PROVE  UNCHANGED <<dedupeKeys, holding>>
  BY <1>5 DEF DequeueWaiting
<1>6. Stop \/ UNCHANGED vars => UNCHANGED <<dedupeKeys, holding>>
  BY DEF Stop, vars
<1> QED
  BY <1>1, <1>2, <1>3, <1>4, <1>5, <1>6 DEF Next, Enqueue, Dequeue

(* The queue with its waiters implements a set of pending keys: no job is  *)
(* lost or taken twice, and none is handed over past a pending one.        *)
THEOREM QueueIsWorkSet == Spec => ImplementsWorkSet
<1> QED
  BY InitRefines, NextRefines, QueueConsistent, PTL
     DEF Spec, ImplementsWorkSet, Abstract!Spec
=============================================================================
