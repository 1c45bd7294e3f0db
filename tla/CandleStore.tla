----------------------------- MODULE CandleStore -----------------------------
(***************************************************************************)
(* The candle table of SqlMarketDataRepository                             *)
(* (infrastructure/repositories/market_data.py) for one instrument, and    *)
(* the two ways to write it.  A row is what was observed (for each minute  *)
(* the bar covers, the version of that minute it was built from) and where *)
(* it came from.  Time is counted in minutes.                              *)
(***************************************************************************)
EXTENDS Integers, FiniteSets

CONSTANT None       (* no row under this start                             *)

Row(observed, source) == [observed |-> observed, source |-> source]

Slot(start, width) == start .. start + width - 1

(* aggregate_minutes: the bars of this width whose every minute is there.  *)
(* A minute is its own bar of width 1.                                     *)
WholeSlots(minutes, width) ==
  {s \in DOMAIN minutes : s % width = 0 /\ Slot(s, width) \subseteq DOMAIN minutes}

BUG_IncompleteSlots(minutes, width) == {}
IncompleteSlots(minutes, width) ==
  {m - (m % width) : m \in DOMAIN minutes} \ WholeSlots(minutes, width)

Aggregate(minutes, width, source) ==
  [s \in WholeSlots(minutes, width) |-> Row([m \in Slot(s, width) |-> minutes[m]], source)]

(* save_historical_candles, given the rows its transaction read.           *)
NewKeys(known, batch) == {s \in DOMAIN batch : known[s] = None}
SameKeys(known, batch) == {s \in DOMAIN batch : known[s] = batch[s]}
ConflictKeys(known, batch) == DOMAIN batch \ (NewKeys(known, batch) \cup SameKeys(known, batch))

BUG_WithInserted(rows, batch, keys) ==
  [s \in DOMAIN rows |-> IF s \in DOMAIN batch THEN batch[s] ELSE rows[s]]
WithInserted(rows, batch, keys) ==
  [s \in DOMAIN rows |-> IF s \in keys THEN batch[s] ELSE rows[s]]

(* The unique constraint on (instrument_token, interval, start_at).        *)
Unique(rows, keys) == \A s \in keys : rows[s] = None

(* save_candles on a row it found: high, low, close and volume become the  *)
(* bar's, the source stays.                                                *)
BUG_Revised(row, bar) == bar
Revised(row, bar) == Row(bar.observed, row.source)

(* candles_page: a keyset page of the rows in a range, and whether more    *)
(* follow.                                                                 *)
Following(rows, from, to, after) == {s \in from .. to - 1 : rows[s] # None /\ s > after}
PageOf(keys, size) == {s \in keys : Cardinality({k \in keys : k < s}) < size}
=============================================================================
