----------------------------- MODULE Indicators -----------------------------
(***************************************************************************)
(* The average true range of domain/indicators.py and the bars that        *)
(* BacktestInput.prior_atr takes it over.  A quotient is kept as the       *)
(* fraction [num, den] it is, where the code rounds it to 28 digits.       *)
(***************************************************************************)
EXTENDS OpeningRangeBreakout, SequencesExt, FiniteSetsExt

CONSTANTS
  AtrPeriod,        (* DEFAULT_ATR_PERIOD                                   *)
  AtrInterval       (* atr_bars of hypothesis 2, in minutes                 *)

ASSUME IndicatorAssumption ==
  /\ AtrPeriod \in Nat \ {0}
  /\ AtrInterval \in Nat \ {0} /\ AtrInterval % Interval = 0

Distance(p, q) == IF p < q THEN q - p ELSE p - q

(* How far the price travelled, the gap from the close before included.    *)
TrueRange(bar, close) == Max({bar.high - bar.low, Distance(bar.high, close), Distance(bar.low, close)})
TrueRanges(bars) == [i \in 1 .. Len(bars) - 1 |-> TrueRange(bars[i + 1], bars[i].close)]

(* The mean of the first AtrPeriod ranges, then one recurrence for each    *)
(* later range: atr = (atr * (AtrPeriod - 1) + range) / AtrPeriod.         *)
Seed(ranges) == [num |-> FoldLeft(+, 0, SubSeq(ranges, 1, AtrPeriod)), den |-> AtrPeriod]
Smoothed(atr, range) ==
  [num |-> atr.num * (AtrPeriod - 1) + range * atr.den, den |-> atr.den * AtrPeriod]
Wilder(ranges) ==
  FoldLeft(Smoothed, Seed(ranges), SubSeq(ranges, AtrPeriod + 1, Len(ranges)))

(* None while the bars are too few: one more than the ranges of the seed.  *)
PriorAtr(bars) == IF Len(bars) < AtrPeriod + 1 THEN None ELSE Wilder(TrueRanges(bars))

-----------------------------------------------------------------------------
(* The bars of one session the range is taken over: its signal bars under  *)
(* hypothesis 1, bars of AtrInterval under 2, one bar from the open to the *)
(* hard exit under 3.  One that misses any of its minutes is no bar.       *)
Span ==
  CASE version = "1" -> Interval
    [] version = "2" -> AtrInterval
    [] version = "3" -> HardExitTime - SessionOpen

SpanStart(bar) == IF version = "3" THEN Opens(bar) ELSE bar.start - (bar.start % Span)
Spanned(bars, start) == {b \in bars : start <= b.start /\ b.start < start + Span}
WholeSpans(bars) ==
  {s \in {SpanStart(b) : b \in bars} : Cardinality(Spanned(bars, s)) * Interval = Span}

Combined(bars) ==
  [high  |-> Max({b.high : b \in bars}),
   low   |-> Min({b.low : b \in bars}),
   close |-> (CHOOSE b \in bars : \A c \in bars : c.start <= b.start).close]

AtrBars(bars) ==
  LET starts == SetToSortSeq(WholeSpans(bars), <)
  IN  [i \in DOMAIN starts |-> Combined(Spanned(bars, starts[i]))]

PastOf(sessions) == FlattenSeq([i \in DOMAIN sessions |-> AtrBars(sessions[i])])
=============================================================================
