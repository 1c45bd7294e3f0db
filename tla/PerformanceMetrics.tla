------------------------- MODULE PerformanceMetrics -------------------------
(***************************************************************************)
(* What a run is measured by: build_equity_curve (domain/backtest/cash.py) *)
(* and evaluate_performance (domain/backtest/metrics.py).  A quotient is   *)
(* the fraction [num, den] it is, where the code rounds to 28 digits, and  *)
(* None where the code says it has no value.  R multiples, standard        *)
(* deviations and what is divided by them are left out.                    *)
(***************************************************************************)
EXTENDS CashLedger, Sequences, FiniteSetsExt

CONSTANT None       (* an undefined metric: "undefined is not zero"         *)

Net(trade) == trade.gross_pnl - trade.costs
HoldingTime(trade) == trade.exit.occurred_at - trade.entry.occurred_at

Nets(trades) == [i \in DOMAIN trades |-> Net(trades[i])]
HoldingTimes(trades) == [i \in DOMAIN trades |-> HoldingTime(trades[i])]

(* The sum of all amounts, and of those in some places.                    *)
Total(amounts) ==
  LET upto[n \in 0 .. Len(amounts)] == IF n = 0 THEN 0 ELSE upto[n - 1] + amounts[n]
  IN  upto[Len(amounts)]
TotalOver(places, amounts) ==
  Total([i \in DOMAIN amounts |-> IF i \in places THEN amounts[i] ELSE 0])

Divide(numerator, denominator) ==
  IF denominator = 0 THEN None ELSE [num |-> numerator, den |-> denominator]
Mean(amounts) == Divide(Total(amounts), Len(amounts))
MeanOver(places, amounts) == Divide(TotalOver(places, amounts), Cardinality(places))

-----------------------------------------------------------------------------
(* The opening balance, then one point per trade: sampled while flat only, *)
(* so the equity is the cash.                                              *)
Settled(ledger, trade) == AfterExit(AfterEntry(ledger, trade.entry), trade)
Point(at, ledger) == [at |-> at, equity |-> ledger.cash]

Ledgers(capital, trades) ==
  LET after[n \in 0 .. Len(trades)] ==
        IF n = 0 THEN Funded(capital) ELSE Settled(after[n - 1], trades[n])
  IN  after

EquityCurve(capital, started_at, trades) ==
  LET ledgers == Ledgers(capital, trades)
  IN  [i \in 1 .. Len(trades) + 1 |->
         Point(IF i = 1 THEN started_at ELSE trades[i - 1].exit.occurred_at, ledgers[i - 1])]

(* Trades that closed out of order make no curve.                          *)
InOrder(started_at, trades) ==
  \A i \in DOMAIN trades :
    trades[i].exit.occurred_at >= IF i = 1 THEN started_at ELSE trades[i - 1].exit.occurred_at

(* The largest fall from a running peak, the peak it fell from and the     *)
(* point it fell to; the first of equal falls counts.                      *)
BUG_StaysAtFirstPeak(peak, point) == peak
PeakWith(peak, point) == IF point.equity > peak.equity THEN point ELSE peak

Fallen(state, curve, n) ==
  LET peak == PeakWith(state.peak, curve[n])
      fall == peak.equity - curve[n].equity
  IN  IF fall > state.worst
      THEN [peak |-> peak, worst |-> fall, from |-> peak, trough |-> n]
      ELSE [state EXCEPT !.peak = peak]

WorstFall(curve) ==
  LET upto[n \in 0 .. Len(curve)] ==
        IF n = 0 THEN [peak |-> curve[1], worst |-> 0, from |-> curve[1], trough |-> 1]
                 ELSE Fallen(upto[n - 1], curve, n)
  IN  upto[Len(curve)]

(* It lasts from its peak until equity is back there, or to the end.       *)
Drawdown(curve) ==
  LET fall == WorstFall(curve)
      back == {i \in fall.trough .. Len(curve) : curve[i].equity >= fall.from.equity}
      over == IF back = {} THEN Len(curve) ELSE Min(back)
      none == fall.worst = 0
  IN  [amount    |-> fall.worst,
       fraction  |-> IF none THEN None ELSE Divide(fall.worst, fall.from.equity),
       duration  |-> IF none THEN None ELSE curve[over].at - fall.from.at,
       recovered |-> none \/ back # {}]

-----------------------------------------------------------------------------
(* The places of the trades that win, that lose and that have a direction. *)
Wins(trades)   == {i \in DOMAIN trades : Net(trades[i]) > 0}
Losses(trades) == {i \in DOMAIN trades : Net(trades[i]) < 0}
Of(direction, trades) == {i \in DOMAIN trades : trades[i].direction = direction}

TradeMetrics(trades) ==
  LET count  == Len(trades)
      nets   == Nets(trades)
      wins   == Wins(trades)
      losses == Losses(trades)
  IN  [trade_count   |-> count,
       win_count     |-> Cardinality(wins),
       loss_count    |-> Cardinality(losses),
       scratch_count |-> count - Cardinality(wins) - Cardinality(losses),
       win_rate      |-> Divide(Cardinality(wins), count),
       average_win   |-> MeanOver(wins, nets),
       average_loss  |-> MeanOver(losses, nets),
       expectancy    |-> Mean(nets),
       profit_factor |-> Divide(TotalOver(wins, nets), - TotalOver(losses, nets)),
       largest_win   |-> IF wins = {} THEN None ELSE Max({nets[i] : i \in wins}),
       largest_loss  |-> IF losses = {} THEN None ELSE Min({nets[i] : i \in losses}),
       average_holding_time |-> Mean(HoldingTimes(trades)),
       long_count    |-> Cardinality(Of("LONG", trades)),
       short_count   |-> Cardinality(Of("SHORT", trades)),
       long_net_pnl  |-> TotalOver(Of("LONG", trades), nets),
       short_net_pnl |-> TotalOver(Of("SHORT", trades), nets)]

ActiveDays(trades) == {SessionDay(trades[i].exit.occurred_at) : i \in DOMAIN trades}

PortfolioMetrics(trades, curve) ==
  LET start == curve[1]
      end   == curve[Len(curve)]
      held  == Total(HoldingTimes(trades))
  IN  [gross_pnl        |-> Total([i \in DOMAIN trades |-> trades[i].gross_pnl]),
       total_costs      |-> Total([i \in DOMAIN trades |-> trades[i].costs]),
       net_pnl          |-> Total(Nets(trades)),
       starting_capital |-> start.equity,
       ending_equity    |-> end.equity,
       total_return     |-> Divide(end.equity - start.equity, start.equity),
       max_drawdown     |-> Drawdown(curve),
       time_in_market   |-> held,
       exposure         |-> Divide(held, end.at - start.at),
       active_days      |-> Cardinality(ActiveDays(trades)),
       trades_per_active_day |-> Divide(Len(trades), Cardinality(ActiveDays(trades))),
       equity_curve     |-> curve]

(* One return per trade, over the equity before it.                        *)
Returns(curve) ==
  SelectSeq([i \in 1 .. Len(curve) - 1 |->
               Divide(curve[i + 1].equity - curve[i].equity, curve[i].equity)],
            LAMBDA step : step # None)

RiskMetrics(curve, net_pnl, worst) ==
  [returns |-> Returns(curve), return_over_max_drawdown |-> Divide(net_pnl, worst)]

Performance(trades, curve) ==
  LET portfolio == PortfolioMetrics(trades, curve)
  IN  [trades    |-> TradeMetrics(trades),
       portfolio |-> portfolio,
       risk      |-> RiskMetrics(curve, portfolio.net_pnl, portfolio.max_drawdown.amount),
       ambiguous_exit_count |->
         Cardinality({i \in DOMAIN trades : trades[i].ambiguity # "unambiguous"}),
       pessimistic_fallback_count |->
         Cardinality({i \in DOMAIN trades : trades[i].ambiguity = "pessimistic_fallback"})]
=============================================================================
