---------------------------- MODULE PriceWatcher ----------------------------
(***************************************************************************)
(* keeper/src/watchers/price_watcher.ts in dynamic mode.  Ticks are cut at *)
(* the await of the price; setInterval starts the next one whether or not  *)
(* the last has ended, so several may be under way.                        *)
(***************************************************************************)
EXTENDS KeeperJobs

CONSTANT PriceTicks  \* ticks that may be under way at once; bounds the model

VARIABLES
  lastPrice,  \* lastPriceByReserve
  priceTick   \* the price each tick has read, Nothing for a tick not begun

priceVars == <<lastPrice, priceTick>>

PriceTypeOK ==
  /\ lastPrice \in Drops \union {Nothing}
  /\ priceTick \in [PriceTicks -> Drops \union {Nothing}]

PriceIdle == lastPrice = Nothing /\ priceTick = [t \in PriceTicks |-> Nothing]

(* primePrices, before anything else runs.                                 *)
PrimePrices ==
  /\ lastPrice' = FetchReservePrice
  /\ UNCHANGED priceTick

PriceTickBegins(t) ==
  /\ priceTick[t] = Nothing
  /\ priceTick' = [priceTick EXCEPT ![t] = FetchReservePrice]
  /\ UNCHANGED <<lastPrice, pending>>

PriceTickRecords(t) ==  \* mutant: the new price is kept, and nobody told
  /\ priceTick[t] # Nothing
  /\ lastPrice' = priceTick[t]
  /\ priceTick' = [priceTick EXCEPT ![t] = Nothing]
  /\ UNCHANGED pending

PriceTickEnds(t) ==
  /\ priceTick[t] # Nothing
  /\ lastPrice' = priceTick[t]
  /\ pending' = IF lastPrice # priceTick[t] THEN pending \union {PriceRescan} ELSE pending
  /\ priceTick' = [priceTick EXCEPT ![t] = Nothing]

(* A request fails: the tick is logged and over.                           *)
PriceTickFails(t) ==
  /\ priceTick[t] # Nothing
  /\ priceTick' = [priceTick EXCEPT ![t] = Nothing]
  /\ UNCHANGED <<lastPrice, pending>>
=============================================================================
