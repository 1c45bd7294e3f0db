----------------------------- MODULE RiskSizing -----------------------------
(***************************************************************************)
(* How many units an entry may trade: size_position of                     *)
(* domain/risk/sizing.py, which the paper session asks, and                *)
(* fixed_notional_quantity of domain/backtest/sizing.py, which the         *)
(* backtest engine asks.  Prices are integers; a fraction is a numerator   *)
(* over Whole.                                                             *)
(***************************************************************************)
EXTENDS Integers, FiniteSets

CONSTANTS
  Whole,            (* the denominator of the two fractions below           *)
  RiskPerTrade,     (* risk_per_trade_fraction                              *)
  MaxNotional,      (* max_notional_fraction                                *)
  MinQuantity,      (* min_quantity                                         *)
  LotSize,          (* Instrument.lot_size                                  *)
  FixedNotional     (* fixed_notional_inr                                   *)

ASSUME SizingAssumption ==
  /\ Whole \in Nat \ {0}
  /\ RiskPerTrade \in 1 .. Whole /\ MaxNotional \in 1 .. Whole
  /\ MinQuantity \in Nat \ {0} /\ LotSize \in Nat \ {0}
  /\ FixedNotional \in Nat \ {0}

InLots(units) == (units \div LotSize) * LotSize

StopDistance(isLong, entry, stop) == IF isLong THEN entry - stop ELSE stop - entry

(* What is refused before any arithmetic.                                  *)
Valid(equity, cash, isLong, entry, stop) ==
  /\ equity > 0 /\ cash >= 0 /\ entry > 0 /\ stop > 0
  /\ StopDistance(isLong, entry, stop) > 0

(* The three limits, each rounded down to whole lots.                      *)
ByRisk(equity, distance) == InLots((equity * RiskPerTrade) \div (Whole * distance))
ByNotional(equity, entry) == InLots((equity * MaxNotional) \div (Whole * entry))
ByCash(cash, entry) == InLots(cash \div entry)

Limits(equity, cash, entry, distance) ==
  {ByRisk(equity, distance), ByNotional(equity, entry), ByCash(cash, entry)}

(* 0 stands for a rejection: an approved decision has a positive quantity. *)
Least(limits) == CHOOSE q \in limits : \A l \in limits : q <= l

LargeEnough(quantity) == quantity >= MinQuantity /\ quantity # 0

SizePosition(equity, cash, isLong, entry, stop) ==
  IF ~Valid(equity, cash, isLong, entry, stop) THEN 0
  ELSE LET quantity == Least(Limits(equity, cash, entry, StopDistance(isLong, entry, stop)))
       IN  IF LargeEnough(quantity) THEN quantity ELSE 0

(* Whole lots that the fixed notional buys; 0 stands for PositionSizeError.*)
FixedQuantity(price) == InLots(FixedNotional \div price)
=============================================================================
