---------------------------- MODULE ReplayParity ----------------------------
(***************************************************************************)
(* The paper replay and the backtest over the same stored sessions.  They  *)
(* are two programs that never meet; here each bar is given to both before *)
(* the next one, so that what they have made of it can be compared.  The   *)
(* stored sessions have passed load_backtest_input: bars aligned, in       *)
(* order, one per start, each with all of its minutes; and they come from  *)
(* historical rows, whose prices are all positive.                         *)
(***************************************************************************)
EXTENDS PaperReplay, BacktestEngine, Indicators

CONSTANTS
  Days,             (* bound: sessions 0 .. Days - 1                        *)
  StoredSessions(_),(* the sets of bars a session may have stored           *)
  MinutesOf(_),     (* the minute series that may lie under a bar           *)
  Warmups,          (* sequences of sessions that may be stored before them *)
  Answers           (* what asking the analyst may come to                  *)

ASSUME ParityAssumption ==
  /\ Days \in Nat
  /\ \A d \in 0 .. Days - 1 : \A bars \in StoredSessions(d) :
       /\ IsFiniteSet(bars)
       /\ \A b \in bars :
            /\ b \in AnyBar /\ SessionDay(b.start) = d
            /\ b.open > 0 /\ b.high > 0 /\ b.low > 0 /\ b.close > 0
  /\ Answers \subseteq {"no analyst", "take", "skip", "unavailable", "malformed", "other model"}

(* Days and bars lie on one grid: the intervals of a signal bar are 1, 5   *)
(* and 15 minutes, and the market opens at a quarter past nine.            *)
ASSUME AlignmentAssumption == SessionOpen % Interval = 0 /\ DayLength % Interval = 0

(* Anything a position may be.                                             *)
AnyIntent == [signal : OrbSignals, quantity : Int, entry_bar_start : Int]
AnyFill == [side : {"BUY", "SELL"}, reason : {"entry", "stop", "target", "time_exit"},
            quantity : Int, price : Int, costs : Int, occurred_at : Int, bar_start : Int]
AnyPosition == [intent : AnyIntent, entry : AnyFill]

ASSUME NoneAssumption == None \notin BarStarts /\ None \notin AnyPosition

VARIABLES
  day,              (* the session at hand or the next one                  *)
  today,            (* its stored bars, {} between sessions                 *)
  cursor,           (* the start of the bar both were given last            *)
  past,             (* the bars of the sessions before, for the prior ATR   *)
  turn,             (* "session", "bar" or "decide"                         *)
  trading_sessions, (* the sessions so far that have bars                   *)
  declined          (* history: the risk layer has refused an entry         *)

data_vars == <<version, day, today, cursor, past, turn, trading_sessions, declined>>
vars == <<replay_vars, engine_vars, data_vars>>

(* load_backtest_input: the first session has an ATR, no session before    *)
(* it, which both programs would then trade, has one.                      *)
Loadable(warmup) ==
  /\ PriorAtr(PastOf(warmup)) # None
  /\ \A n \in 0 .. Len(warmup) - 1 : PriorAtr(PastOf(SubSeq(warmup, 1, n))) = None

prior_atr == PriorAtr(past)

Init ==
  /\ version \in {"1", "2", "3"}
  /\ ReplayInit
  /\ EngineInit
  /\ day = 0 /\ today = {} /\ cursor = -1
  /\ \E warmup \in Warmups : Loadable(warmup) /\ past = PastOf(warmup)
  /\ turn = "session" /\ trading_sessions = {} /\ declined = FALSE

(* What a program that has raised does with further input.                 *)
ReplayOver == ~Running /\ UNCHANGED replay_vars
EngineOver == engine # "running" /\ UNCHANGED engine_vars
BothOver == ~Running /\ engine # "running"

(* load_backtest_input leaves out the days that have no bars, and refuses  *)
(* a window in which no day has any.                                       *)
SkipDay ==
  /\ turn = "session" /\ day < Days /\ ~BothOver
  /\ {} \in StoredSessions(day)
  /\ day = Days - 1 => trading_sessions # {}
  /\ day' = day + 1
  /\ UNCHANGED <<replay_vars, engine_vars, version, today, cursor, past, turn,
                 trading_sessions, declined>>

(* BacktestInput: bars that start on the grid, each start once.            *)
ValidSession(bars) ==
  \A b \in bars : b.start % Interval = 0 /\ \A c \in bars : c.start = b.start => c = b

StartSession ==
  /\ turn = "session" /\ day < Days /\ ~BothOver
  /\ \E bars \in StoredSessions(day) \ {{}} :
       /\ ValidSession(bars)
       /\ today' = bars
       /\ ReplayStartSession(day, bars) \/ ReplayOver
       /\ EngineStartSession(day, bars) \/ EngineOver
  /\ trading_sessions' = trading_sessions \cup {day}
  /\ turn' = "bar"
  /\ UNCHANGED <<version, day, cursor, past, declined>>

Unread == {b \in today : b.start > cursor}

GiveBar ==
  /\ turn = "bar" /\ Unread # {} /\ ~BothOver
  /\ LET bar == CHOOSE b \in Unread : \A c \in Unread : b.start <= c.start
     IN  /\ \E minutes \in MinutesOf(bar) :
              /\ ReplayBar(bar, minutes) \/ ReplayOver
              /\ EngineFills(bar, minutes) \/ EngineOver
         /\ cursor' = bar.start
  /\ turn' = "decide"
  /\ UNCHANGED <<version, day, today, past, trading_sessions, declined>>

(* An exception, an answer that does not parse and one in the name of      *)
(* another model are no verdict, and only a verdict can take a trade; with *)
(* no analyst the strategy decides.                                        *)
Verdict(answer) == IF answer \in {"take", "skip"} THEN answer ELSE None
Takes(answer) == answer = "no analyst" \/ Verdict(answer) = "take"

(* Both gates ask the same analyst about the same signal.                  *)
AskStrategy ==
  /\ turn = "decide"
  /\ LET bar == CHOOSE b \in today : b.start = cursor
     IN  /\ \E takes \in {Takes(answer) : answer \in Answers} :
              /\ Decide(bar, prior_atr, takes) \/ ReplayOver
              /\ EngineDecides(today, bar, prior_atr, takes) \/ EngineOver
         /\ declined' = \/ declined
                        \/ /\ Running /\ ~EvaluateRaises(session_bars, bar)
                           /\ Wants(bar, prior_atr)
                           /\ SizeOf(Decision(session_bars, bar, prior_atr), bar) = 0
  /\ turn' = "bar"
  /\ UNCHANGED <<version, day, today, cursor, past, trading_sessions>>

EndSession ==
  /\ turn = "bar" /\ (Unread = {} \/ BothOver)
  /\ today # {}
  /\ ReplayEndSession \/ ReplayOver
  /\ EngineEndSession(day) \/ EngineOver
  /\ day' = day + 1
  /\ past' = past \o AtrBars(today)
  /\ today' = {}
  /\ turn' = "session"
  /\ UNCHANGED <<version, cursor, trading_sessions, declined>>

(* The backtest returns its result; the replay returns what it has.        *)
MeasureRun ==
  /\ turn = "session" /\ day = Days
  /\ EngineFinish(trading_sessions)
  /\ UNCHANGED <<replay_vars, data_vars>>

Finished ==
  /\ turn = "session"
  /\ BothOver \/ (day = Days /\ (engine # "running" \/ result # None))
  /\ UNCHANGED vars

Next == SkipDay \/ StartSession \/ GiveBar \/ AskStrategy \/ EndSession \/ MeasureRun \/ Finished

Spec == Init /\ [][Next]_vars

-----------------------------------------------------------------------------
(* The same trade but for its size, which the two take from different      *)
(* rules, and for the charges and the profit that follow from the size.    *)
SameLeg(f, g) == [f EXCEPT !.quantity = 0, !.costs = 0] = [g EXCEPT !.quantity = 0, !.costs = 0]
SameTrade(t, u) ==
  /\ t.direction = u.direction /\ t.ambiguity = u.ambiguity
  /\ SameLeg(t.entry, u.entry) /\ SameLeg(t.exit, u.exit)

BothRun == Running /\ engine = "running"

(* "A paper trade and a backtest trade over the same bars are the same     *)
(* trade": as long as risk has refused nothing and both run, they have     *)
(* made the same trades, hold the same position and wait for the same      *)
(* entry; and what stops one of them on the other's data stops both, but   *)
(* for a session without its opening range (the backtest skips it), a bar  *)
(* from before the open (the backtest leaves it aside) and a price the     *)
(* fixed notional cannot buy (paper does not use it).                      *)
SameTradesAsBacktest ==
  ~declined =>
    /\ BothRun =>
         /\ Len(trades) = Len(closed)
         /\ \A i \in DOMAIN trades : SameTrade(trades[i], closed[i])
         /\ (position = None) <=> (held = None)
         /\ position # None => SameLeg(position.entry, held.entry)
         /\ (working = None) <=> (pending = 0)
         /\ working # None => orders[working].signal = Awaited
    /\ replay = "raised" => engine # "running"
    /\ engine = "raised" => replay # "running"

(* The order ids a session of the replay may use.                          *)
OrdersOf(d, direction) ==
  {id \in BarStarts : /\ SessionDay(id) = d
                      /\ orders[id] # None
                      /\ orders[id].signal.direction = direction}

(* The session's own checks leave the adapter nothing to refuse, and a     *)
(* direction is entered at most once in a session, however its first       *)
(* order ended: the strategy keeps no flag of it, and derives it again     *)
(* from the bars of the session at every bar.                              *)
OneOrderPerDirection ==
  /\ \A id \in BarStarts : orders[id] # None => orders[id].status # "rejected"
  /\ \A d \in 0 .. Days - 1, direction \in {"LONG", "SHORT"} :
       Cardinality(OrdersOf(d, direction)) <= 1

(* Between sessions a replay that goes on has no order working and no      *)
(* position, and neither has the backtest.  Every trade was entered and    *)
(* left in one session, after its opening range, not past the cutoff for   *)
(* entries, and left no later than the first stored bar that reaches the   *)
(* hard exit.                                                              *)
FlatBetweenSessions ==
  /\ turn = "session" /\ Running => working = None /\ position = None
  /\ turn = "session" /\ engine = "running" => pending = 0 /\ held = None
  /\ \A i \in DOMAIN trades :
       LET entry == trades[i].entry.bar_start
           exit  == trades[i].exit.bar_start
       IN  /\ SessionDay(entry) = SessionDay(exit)
           /\ TimeOfDay(entry) > SessionOpen + OpeningRangeMinutes
           /\ TimeOfDay(entry) <= NoNewEntryAfter
           /\ \A b \in today : entry <= b.start /\ b.start < exit =>
                                TimeOfDay(BarEnd(b)) < HardExitTime

(* No gap goes unreported.  The grid of a session, from its open to the    *)
(* bar last read, is the bars read and the ones the replay reports         *)
(* missing.  Of the days, up to the last that has bars, the backtest logs  *)
(* each trading day once, with NO_DATA if and only if it is one of the     *)
(* sessions_without_data the loader reports.                               *)
sessions_without_data == {d \in 0 .. Days - 1 : IsTradingDay(d) /\ d \notin trading_sessions}

GapsAreReported ==
  /\ turn # "session" /\ Running /\ cursor >= day * DayLength =>
       {t \in day * DayLength + SessionOpen .. cursor :
            (t - SessionOpen - day * DayLength) % Interval = 0}
         = {b.start : b \in {c \in today : c.start <= cursor}}
           \cup {t \in missing : SessionDay(t) = day}
  /\ result # None =>
       \A d \in 0 .. Days - 1 :
         LET logged == {r \in session_log : r.session = d}
         IN  IF IsTradingDay(d) /\ \E last \in trading_sessions : d <= last
             THEN \E r \in logged : /\ logged = {r}
                                    /\ r.status = "NO_DATA" <=> d \in sessions_without_data
             ELSE logged = {}

(* The result measures the run it is of: the curve begins at the capital,  *)
(* never runs backwards and ends at what the portfolio, which was never    *)
(* told of the curve, holds; the drawdown is the largest fall from any     *)
(* point to any later one, recovered if and only if equity came back to    *)
(* where that fall began; and wins, losses, sides, profit and charges each *)
(* add up to the change in equity.                                         *)
ResultMeasuresTheRun ==
  result # None =>
    LET curve == result.equity_curve
        last  == Len(curve)
        p     == result.performance.portfolio
        t     == result.performance.trades
        Fall(i, j) == curve[i].equity - curve[j].equity
        Falls == {f \in (1 .. last) \X (1 .. last) : f[1] <= f[2]}
    IN  /\ curve[last].equity = portfolio.cash /\ curve[1].equity = EngineCapital
        /\ \A i \in 1 .. last - 1 : curve[i].at <= curve[i + 1].at
        /\ \A f \in Falls : Fall(f[1], f[2]) <= p.max_drawdown.amount
        /\ \E f \in Falls :
             /\ Fall(f[1], f[2]) = p.max_drawdown.amount
             /\ p.max_drawdown.recovered <=>
                  \E k \in f[2] .. last : curve[k].equity >= curve[f[1]].equity
        /\ p.net_pnl = Fall(last, 1) /\ p.net_pnl = p.gross_pnl - p.total_costs
        /\ t.long_net_pnl + t.short_net_pnl = p.net_pnl
        /\ t.win_count + t.loss_count + t.scratch_count = t.long_count + t.short_count
        /\ p.time_in_market <= curve[last].at - StartedAt
=============================================================================
