------------------------------- MODULE Costs -------------------------------
(***************************************************************************)
(* Statutory charges of one executed leg: leg_charges of                   *)
(* domain/backtest/costs.py.  Money is an integer number of paisa; a rate  *)
(* is a numerator over Schedule.scale, so each product is exact before it  *)
(* is rounded half up to the paisa, as the code's Decimals are.            *)
(***************************************************************************)
EXTENDS Integers

CONSTANT Schedule  (* the CostSchedule; brokerage_cap is NoCap when None    *)

NoCap == -1

RateFields == {"brokerage_rate", "stt_sell_rate", "exchange_transaction_rate",
               "sebi_turnover_rate", "stamp_duty_buy_rate", "gst_rate"}

ASSUME ScheduleAssumption ==
  /\ DOMAIN Schedule = RateFields \cup {"scale", "brokerage_cap"}
  /\ \A f \in RateFields : Schedule[f] \in Nat
  /\ Schedule.scale \in Nat \ {0}
  /\ Schedule.brokerage_cap \in Nat \cup {NoCap}

(* amount / scale rounded half up; amounts are not negative.               *)
ToPaisa(amount) == (2 * amount + Schedule.scale) \div (2 * Schedule.scale)

Brokerage(turnover) ==
  LET uncapped == turnover * Schedule.brokerage_rate
      cap      == Schedule.brokerage_cap * Schedule.scale
  IN  ToPaisa(IF Schedule.brokerage_cap # NoCap /\ cap < uncapped
              THEN cap ELSE uncapped)

Exchange(turnover) == ToPaisa(turnover * Schedule.exchange_transaction_rate)
Sebi(turnover)     == ToPaisa(turnover * Schedule.sebi_turnover_rate)

(* STT falls on the sell leg and stamp duty on the buy leg only; GST on    *)
(* the service charges only.                                               *)
SideTax(side, turnover) ==
  ToPaisa(turnover * (IF side = "BUY" THEN Schedule.stamp_duty_buy_rate
                                      ELSE Schedule.stt_sell_rate))

LegCharges(side, turnover) ==
  LET taxable == Brokerage(turnover) + Sebi(turnover) + Exchange(turnover)
  IN  taxable + SideTax(side, turnover) + ToPaisa(taxable * Schedule.gst_rate)
=============================================================================
