------------------------------ MODULE WorkSet -------------------------------
(***************************************************************************)
(* What the keeper's queue promises, without queues or waiters: a set of   *)
(* pending keys, and consumers that take them.  A key is pending or it is  *)
(* not; a consumer has one key or none; a pending key leaves the set only  *)
(* into the hands of one idle consumer; and a new key reaches a consumer   *)
(* at once only when nothing else is pending.                              *)
(***************************************************************************)
CONSTANTS Keys, Consumers, None

VARIABLES pending, work

Idle(c) == work[c] = None

Init ==
  /\ pending = {}
  /\ work = [c \in Consumers |-> None]

Request(k) ==
  /\ pending' = pending \union {k}
  /\ UNCHANGED work

TakeAtOnce(k, c) ==
  /\ Idle(c)
  /\ pending = {}
  /\ work' = [work EXCEPT ![c] = k]
  /\ UNCHANGED pending

Take(k, c) ==
  /\ Idle(c)
  /\ k \in pending
  /\ pending' = pending \ {k}
  /\ work' = [work EXCEPT ![c] = k]

Complete(c) ==
  /\ ~Idle(c)
  /\ work' = [work EXCEPT ![c] = None]
  /\ UNCHANGED pending

Next ==
  \/ \E k \in Keys : Request(k)
  \/ \E k \in Keys, c \in Consumers : TakeAtOnce(k, c) \/ Take(k, c)
  \/ \E c \in Consumers : Complete(c)

Spec == Init /\ [][Next]_<<pending, work>>
=============================================================================
