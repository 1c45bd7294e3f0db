--------------------------- MODULE MCReplayParity ---------------------------
(***************************************************************************)
(* Four days of 2-minute bars.  Days 0 and 3 have a session: one bar of    *)
(* opening range, four (then three) bars after it, the last signal at the  *)
(* second of them and the hard exit at the end of the third.  Any bar may  *)
(* be missing; one session has a bar from before its open, and one, which  *)
(* cannot be loaded, a bar off the grid.                                   *)
(***************************************************************************)
EXTENDS ReplayParity

MCSchedule ==
  [brokerage_rate |-> 0, stt_sell_rate |-> 1, exchange_transaction_rate |-> 0,
   sebi_turnover_rate |-> 0, stamp_duty_buy_rate |-> 0, gst_rate |-> 0,
   scale |-> 10, brokerage_cap |-> -1]

Bar(start, open, high, low, close, volume) ==
  [start |-> start, open |-> open, high |-> high, low |-> low, close |-> close,
   volume |-> volume]

(* A long breakout that also reaches a long's target, a short one that     *)
(* also reaches a short's, a bar that reaches everything, one without      *)
(* trades, one at which nothing can be sold for a positive price.  A long  *)
(* entered on a falling bar is entered at its own stop.                    *)
BarOf(shape, t) ==
  CASE shape = "range"   -> Bar(t, 7, 8, 6, 7, 9)
    [] shape = "quiet"   -> Bar(t, 7, 7, 7, 7, 9)
    [] shape = "up"      -> Bar(t, 8, 17, 8, 10, 9)
    [] shape = "down"    -> Bar(t, 5, 5, 1, 4, 9)
    [] shape = "both"    -> Bar(t, 7, 14, 1, 7, 9)
    [] shape = "silence" -> Bar(t, 7, 7, 7, 7, 0)
    [] shape = "crash"   -> Bar(t, 1, 2, 1, 1, 9)

(* Every set with at most one bar at each of the starts.                   *)
Sets(starts, shapes) ==
  {{BarOf(f[t], t) : t \in {u \in starts : f[u] # "missing"}} :
     f \in [starts -> shapes \cup {"missing"}]}

MCBarStarts == {2, 4, 6, 8, 10, 12, 20, 52, 54, 55, 56, 58}

MCStoredSessions(d) ==
  IF d = 0
  THEN {opening \cup early \cup late :
          opening \in Sets({4}, {"range"}),
          early \in Sets({6, 8}, {"quiet", "up", "down"}),
          late \in Sets({10}, {"quiet", "both", "silence", "crash"})
                     \cup {{BarOf("quiet", 12)}, {BarOf("quiet", 10), BarOf("quiet", 12)}}}
       \cup {{BarOf("up", 2), BarOf("range", 4), BarOf("up", 6), BarOf("down", 8)}}
  ELSE IF d = 3
  THEN {opening \cup rest :
          opening \in Sets({52}, {"range"}), rest \in Sets({54, 56, 58}, {"quiet", "up", "down"})}
       \cup {{BarOf("range", 52), BarOf("up", 55)}}
  ELSE IF d = 1 THEN {{}, {BarOf("range", 20)}} ELSE {{}}

(* Day 1 is a day of the weekend and so is day 3, which trades all the     *)
(* same; nothing is stored of day 2 though it trades.                      *)
MCCalendar == [holidays |-> {}, special_sessions |-> {3}, weekend_days |-> {1, 3}]
MCStartedAt == -12

(* Sessions to take the first ATR over, of one range each.  Which of them  *)
(* can be loaded depends on the hypothesis: too few, too many, as many as  *)
(* it needs, with one that lacks its last bar.                             *)
Calm(high, low, starts) == {Bar(t, 7, high, low, 7, 9) : t \in starts}
Narrow == Calm(8, 5, {4, 6, 8, 10})
Wide   == Calm(12, 3, {4, 6, 8, 10})
Short  == Calm(12, 3, {4, 6, 8})

MCWarmups ==
  {<<Short>>, <<Narrow>>, <<Wide, Short>>, <<Narrow, Narrow>>,
   <<Wide, Short, Wide, Wide>>, <<Narrow, Narrow, Narrow>>}

(* The minutes of a bar that reaches both levels, either one first.        *)
High(t) == Bar(t, 7, 14, 7, 7, 5)
Low(t)  == Bar(t, 7, 7, 1, 7, 4)

MCMinutesOf(bar) ==
  IF bar.high = 14
  THEN {{High(bar.start), Low(bar.start + 1)}, {Low(bar.start), High(bar.start + 1)}}
  ELSE {{}}
=============================================================================
