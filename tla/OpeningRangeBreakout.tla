------------------------ MODULE OpeningRangeBreakout ------------------------
(***************************************************************************)
(* OrbStrategy.evaluate (domain/strategy/orb.py) with opening_range        *)
(* (domain/indicators.py): a pure function of the bars of the session so   *)
(* far.  The reason of a rejection is left out; that it rejects is not.    *)
(***************************************************************************)
EXTENDS CashLedger, RiskSizing, MarketSession

CONSTANTS
  Instrument,           (* the instrument_token                             *)
  OpeningRangeMinutes,
  MinRangeTicks,
  MaxRangeAtr,          (* max_range_atr_multiple, over Whole               *)
  MaxFriction,          (* max_friction_r, over Whole                       *)
  NoNewEntryAfter,      (* the cutoff, minutes after midnight               *)
  TargetR,
  None

ASSUME StrategyAssumption ==
  /\ OpeningRangeMinutes \in Nat \ {0} /\ OpeningRangeMinutes % Interval = 0
  /\ MinRangeTicks \in Nat \ {0} /\ MaxRangeAtr \in Nat /\ MaxFriction \in Nat
  /\ NoNewEntryAfter \in Nat /\ NoNewEntryAfter < HardExitTime
  /\ TargetR \in Nat \ {0}

VARIABLE version        (* hypothesis_version of the parameters of the run   *)

WindowEnd(bar) == Opens(bar) + OpeningRangeMinutes

(* The bars of the window, and whether none of them is missing.            *)
OpeningBars(bars) == {b \in bars : Opens(b) <= b.start /\ b.start < WindowEnd(b)}
RangeIsComplete(bars, bar) ==
  {b.start : b \in OpeningBars(bars)} =
    {t \in Opens(bar) .. WindowEnd(bar) - 1 : (t - Opens(bar)) % Interval = 0}

Highest(bars) == CHOOSE p \in {b.high : b \in bars} : \A b \in bars : b.high <= p
Lowest(bars)  == CHOOSE p \in {b.low : b \in bars} : \A b \in bars : p <= b.low

RangeHigh(bars)  == Highest(OpeningBars(bars))
RangeLow(bars)   == Lowest(OpeningBars(bars))
RangeWidth(bars) == RangeHigh(bars) - RangeLow(bars)

(* The close decides, strictly beyond the range.                           *)
BreaksOut(bars, bar, direction) ==
  /\ bar.start >= WindowEnd(bar)
  /\ IF IsLong(direction) THEN bar.close > RangeHigh(bars) ELSE bar.close < RangeLow(bars)

(* estimate_round_trip_friction, times the quantity it is spread over.     *)
Charges(price) ==
  LegCharges("BUY", price * FixedQuantity(price)) + LegCharges("SELL", price * FixedQuantity(price))
TooCostly(bars, direction) ==
  LET boundary == IF IsLong(direction) THEN RangeHigh(bars) ELSE RangeLow(bars)
      quantity == FixedQuantity(boundary)
  IN  \/ quantity = 0
      \/ Whole * (Charges(boundary) + 2 * Slippage * quantity)
           > MaxFriction * RangeWidth(bars) * quantity

TooWide(bars, atr) ==
  IF version = "3" THEN RangeWidth(bars) * (1 + TargetR) * atr.den > atr.num
                   ELSE Whole * RangeWidth(bars) * atr.den > MaxRangeAtr * atr.num

TooLate(bar) == TimeOfDay(BarEnd(bar)) > NoNewEntryAfter

Rejects(bars, bar, direction, atr) ==
  \/ RangeWidth(bars) < MinRangeTicks * TickSize
  \/ atr = None
  \/ atr # None /\ TooWide(bars, atr)
  \/ version = "3" /\ TooCostly(bars, direction)
  \/ TooLate(bar)

(* A direction signals once a session; that it did is read off the bars.   *)
BUG_AlreadySignalledNever(bars, bar, direction, atr) == FALSE
AlreadySignalled(bars, bar, direction, atr) ==
  \E earlier \in bars :
    /\ earlier.start < bar.start
    /\ BreaksOut(bars, earlier, direction)
    /\ ~Rejects(bars, earlier, direction, atr)

StopOf(bars, direction) == IF IsLong(direction) THEN RangeLow(bars) ELSE RangeHigh(bars)

SignalOf(bars, bar, direction) ==
  [instrument_token  |-> Instrument,
   direction         |-> direction,
   signal_bar_start  |-> bar.start,
   stop_price        |-> StopOf(bars, direction),
   target_r_multiple |-> TargetR]

(* The last of `bars' is decided on; opening_range raises when the window  *)
(* is over and a bar of it is missing.                                     *)
EvaluateRaises(bars, bar) == bar.start >= WindowEnd(bar) /\ ~RangeIsComplete(bars, bar)

Fires(bars, bar, direction, atr) ==
  /\ bar.start >= WindowEnd(bar)
  /\ BreaksOut(bars, bar, direction)
  /\ ~AlreadySignalled(bars, bar, direction, atr)
  /\ ~Rejects(bars, bar, direction, atr)

Decision(bars, bar, atr) ==
  IF Fires(bars, bar, "LONG", atr) THEN SignalOf(bars, bar, "LONG")
  ELSE IF Fires(bars, bar, "SHORT", atr) THEN SignalOf(bars, bar, "SHORT")
  ELSE None
=============================================================================
