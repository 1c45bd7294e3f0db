-------------------------- MODULE MCPaperExecution --------------------------
(***************************************************************************)
(* A small instance of PaperExecution: two days of 2-minute bars with the  *)
(* cutoff at the end of the third bar of a day, and a bar after it.  The   *)
(* shapes are those the resolvers tell apart, around a long with its stop  *)
(* at 2 and a short with its stop at 7.                                    *)
(***************************************************************************)
EXTENDS PaperExecution

MCSchedule ==
  [brokerage_rate |-> 1, stt_sell_rate |-> 2, exchange_transaction_rate |-> 1,
   sebi_turnover_rate |-> 0, stamp_duty_buy_rate |-> 1, gst_rate |-> 2,
   scale |-> 10, brokerage_cap |-> 1]

Signal(token, direction, start, stop) ==
  [instrument_token |-> token, direction |-> direction, signal_bar_start |-> start,
   stop_price |-> stop, target_r_multiple |-> 1]

MCSignals == {Signal("nifty", "LONG", 0, 2), Signal("nifty", "SHORT", 2, 7),
              Signal("nifty", "LONG", 2, 2), Signal("other", "LONG", 2, 2)}

Bar(start, open, high, low, close, volume) ==
  [start |-> start, open |-> open, high |-> high, low |-> low, close |-> close,
   volume |-> volume]

(* Quiet; stop gapped; both levels.  Except at the cutoff, bars that raise *)
(* too: no trades, and opening so low that a short cannot be entered and a *)
(* long cannot be stopped (where a long can be entered, at its own stop).  *)
Shapes(t) == {Bar(t, 4, 5, 4, 5, 9), Bar(t, 2, 5, 1, 4, 9), Bar(t, 4, 9, 1, 4, 9)}
             \cup (IF t = 4 THEN {} ELSE {Bar(t, 4, 4, 4, 4, 0), Bar(t, 1, 3, 1, 3, 9)})

MCBars == UNION {Shapes(t) : t \in {0, 2, 4, 6, 10}}

(* Minutes of the bar that reaches both levels: missing, or complete with  *)
(* either level first.                                                     *)
Up(t) == [start |-> t, open |-> 4, high |-> 9, low |-> 4, close |-> 4, volume |-> 5]
Down(t) == [start |-> t, open |-> 4, high |-> 4, low |-> 1, close |-> 4, volume |-> 4]

MCMinuteFeeds(bar) ==
  IF bar.high = 9
  THEN {{}, {Up(bar.start), Down(bar.start + 1)}, {Down(bar.start), Up(bar.start + 1)}}
  ELSE {{}}
=============================================================================
