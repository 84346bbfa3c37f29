-------------------------- MODULE PositionWatcher ---------------------------
(***************************************************************************)
(* keeper/src/watchers/position_watcher.ts.  A tick is cut at its awaits:  *)
(* it lists the accounts, lists the rows, upserts, deletes, fetches the    *)
(* digests, and then compares in one go.  Other ticks, workers and         *)
(* executors run in between.                                               *)
(***************************************************************************)
EXTENDS KeeperJobs

CONSTANT PositionTicks  \* ticks that may be under way at once; bounds the model

VARIABLES
  digests,  \* obligationDigestByPosition
  tick      \* per tick: where it is and what it has read

watchVars == <<digests, tick>>

Digest == (Loads \X BOOLEAN) \union {Nothing}

NoTick == [at |-> "off", listed |-> Nothing, previous |-> Nothing, next |-> Nothing]

(* Which fields of a tick hold something is a matter of where it is.       *)
TickTypeOK(k) ==
  /\ k.at \in {"off", "listed", "compared", "stored", "digested"}
  /\ k.at # "off" => k.listed \in [Positions -> Row]
  /\ k.at \in {"compared", "stored", "digested"} => k.previous \in [Positions -> Row]
  /\ k.at = "digested" => k.next \in [Positions -> Digest]

WatchTypeOK ==
  /\ digests \in [Positions -> Digest]
  /\ \A t \in PositionTicks : TickTypeOK(tick[t])

WatchIdle ==
  /\ digests = [p \in Positions |-> Nothing]
  /\ tick = [t \in PositionTicks |-> NoTick]

Listed(t) == StoredPositions(tick[t].listed)

(* Rows of accounts that the listing did not return.                       *)
Gone(t) == StoredPositions(tick[t].previous) \ Listed(t)

Advance(t, k) == tick' = [tick EXCEPT ![t] = k]

-----------------------------------------------------------------------------

TickListsChain(t) ==
  /\ tick[t].at = "off"
  /\ Advance(t, [NoTick EXCEPT !.at = "listed", !.listed = ListPositions])
  /\ UNCHANGED <<rows, digests, pending>>

TickListsStore(t) ==
  /\ tick[t].at = "listed"
  /\ Advance(t, [tick[t] EXCEPT !.at = "compared", !.previous = rows])
  /\ UNCHANGED <<rows, digests, pending>>

TickUpserts(t) ==
  /\ tick[t].at = "compared"
  /\ Upsert(tick[t].listed, Listed(t))
  /\ Advance(t, [tick[t] EXCEPT !.at = "stored"])
  /\ UNCHANGED <<digests, pending>>

(* Only when something is gone.  The position is recomputed, if it is      *)
(* stored again by then.                                                   *)
TickDeletes(t) ==
  /\ tick[t].at = "stored"
  /\ Gone(t) # {}
  /\ Delete(Gone(t))
  /\ digests' = [p \in Positions |-> IF p \in Gone(t) THEN Nothing ELSE digests[p]]
  /\ pending' = pending \union {Removed(p) : p \in Gone(t)}
  /\ Advance(t, [tick[t] EXCEPT !.previous = [p \in Positions |-> IF p \in Gone(t) THEN Nothing ELSE @[p]]])

(* The digests of some obligations may be missing: their fetch failed.     *)
TickFetchesDigests(t, missing) ==
  /\ tick[t].at = "stored"
  /\ Gone(t) = {}
  /\ Advance(t, [tick[t] EXCEPT
       !.at = "digested",
       !.next = [p \in Positions |->
                   IF p \in Listed(t) \ missing THEN FetchUserStateDigest(p) ELSE Nothing]])
  /\ UNCHANGED <<rows, digests, pending>>

(* The three ways to look at a listed position, in the order of the loop.  *)
Discovered(k, p) == k.previous[p] = Nothing

MetadataChanged(k, p) == ~Discovered(k, p) /\ k.previous[p] # k.listed[p]

DigestChanged(k, p) ==
  /\ ~Discovered(k, p) /\ ~MetadataChanged(k, p)
  /\ Nothing \notin {k.next[p], digests[p]}
  /\ k.next[p] # digests[p]

KeepsDigest(k, p) == MetadataChanged(k, p) \/ k.next[p] = Nothing

TickCompares(t) ==
  LET k == tick[t]
      told == {p \in Listed(t) : Discovered(k, p) \/ MetadataChanged(k, p) \/ DigestChanged(k, p)}
  IN  /\ k.at = "digested"
      /\ digests' = [p \in Positions |->
                       IF p \in Listed(t) /\ ~KeepsDigest(k, p) THEN k.next[p] ELSE digests[p]]
      /\ pending' = pending \union {Changed(p) : p \in told}
      /\ Advance(t, NoTick)
      /\ UNCHANGED rows

(* A request to the chain fails, or a query: the tick is logged and over.  *)
(* An upsert that fails has written some of the rows.                      *)
TickLosesChain(t) ==
  /\ tick[t].at = "listed"
  /\ Advance(t, NoTick)
  /\ UNCHANGED <<rows, digests, pending>>

TickLosesStore(t) ==
  /\ tick[t].at \in {"compared", "stored"}
  /\ \/ /\ tick[t].at = "compared"
        /\ \E written \in SUBSET Listed(t) : Upsert(tick[t].listed, written)
     \/ tick[t].at = "stored" /\ Gone(t) # {} /\ UNCHANGED rows
  /\ Advance(t, NoTick)
  /\ UNCHANGED <<digests, pending>>
=============================================================================
