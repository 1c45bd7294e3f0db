--------------------------- MODULE BacktestEngine ---------------------------
(***************************************************************************)
(* run_backtest (domain/backtest/engine.py) over one instrument, with the  *)
(* Portfolio it trades (domain/backtest/portfolio.py).  A session is a set *)
(* of bars; one turn of the loop over them is EngineFills, what the bar    *)
(* executes, then EngineDecides, what the strategy makes of it.            *)
(***************************************************************************)
EXTENDS OpeningRangeBreakout, Sequences

CONSTANTS
  EngineCapital,    (* starting_capital                                     *)
  StartedAt         (* the first bar of the run, of a session before day 0  *)

ASSUME EngineAssumption == EngineCapital \in Nat /\ StartedAt \in Int /\ StartedAt < 0

VARIABLES
  engine,           (* "running", or the exception that ended the run       *)
  tradable,         (* the session at hand has its opening range            *)
  signal_log,       (* SignalRecords: signal, accepted, execution_status    *)
  pending,          (* index into signal_log, 0 if none                     *)
  held,             (* (intent, entry), or None                             *)
  portfolio,        (* the ledger of the portfolio                          *)
  closed,           (* its trades                                           *)
  session_log,      (* SessionRecords: session, status                      *)
  result            (* the BacktestResult, None until there is one          *)

engine_vars == <<engine, tradable, signal_log, pending, held, portfolio, closed, session_log,
                 result>>

Metrics == INSTANCE PerformanceMetrics

EngineInit ==
  /\ engine = "running"
  /\ tradable = FALSE
  /\ signal_log = <<>>
  /\ pending = 0
  /\ held = None
  /\ portfolio = Funded(EngineCapital)
  /\ closed = <<>>
  /\ session_log = {}
  /\ result = None

(* A session whose opening window is not covered is logged and skipped.    *)
HasOpeningRange(bars) == \E b \in bars : RangeIsComplete(bars, b)

EngineStartSession(day, bars) ==
  /\ engine = "running"
  /\ \/ /\ ~IsTradingDay(day)
        /\ engine' = "raised"
        /\ UNCHANGED <<tradable, session_log>>
     \/ /\ IsTradingDay(day)
        /\ tradable' = HasOpeningRange(bars)
        /\ session_log' =
             IF HasOpeningRange(bars) THEN session_log
             ELSE session_log \cup {[session |-> day, status |-> "UNTRADABLE_NO_OPENING_RANGE"]}
        /\ UNCHANGED engine
  /\ UNCHANGED <<signal_log, pending, held, portfolio, closed, result>>

-----------------------------------------------------------------------------
Awaited == signal_log[pending].signal

(* The entry executes on the very next bar, at whatever the fixed notional *)
(* buys at the price it fills at.                                          *)
BUG_EntersOnAnyBar(bar) == pending # 0
Enters(bar) == pending # 0 /\ bar.start = EntryBarStart(Awaited)

ProbePrice(bar) == EntrySlipped(Awaited.direction, bar.open)

EngineIntent(bar) ==
  [signal |-> Awaited, quantity |-> FixedQuantity(ProbePrice(bar)),
   entry_bar_start |-> EntryBarStart(Awaited)]

HeldOn(bar) ==
  IF Enters(bar)
  THEN [intent |-> EngineIntent(bar), entry |-> EntryFill(EngineIntent(bar), bar)]
  ELSE held

PortfolioOn(bar) ==
  IF Enters(bar) THEN AfterEntry(portfolio, HeldOn(bar).entry) ELSE portfolio

(* The entry is first probed for its price: a bar without trades, or      *)
(* without a positive price for it, raises before anything is sized.       *)
EntryRaises(bar) == Enters(bar) /\ ~Enterable(Awaited.direction, bar)

Unsizeable(bar) ==
  Enters(bar) /\ ~EntryRaises(bar) /\ FixedQuantity(ProbePrice(bar)) = 0

(* What is held then has to be walked over the bar for its exit.           *)
FillsRaise(bar, minutes) ==
  IF EntryRaises(bar) THEN TRUE
  ELSE /\ HeldOn(bar) # None
       /\ ExitWalkRaises(HeldOn(bar).intent, HeldOn(bar).entry, bar, minutes)

(* The protective exit, or else the hard one.                              *)
Leaves(bar, minutes) ==
  LET exit == ResolveExit(HeldOn(bar).intent, HeldOn(bar).entry, bar, minutes)
  IN  IF exit.reason = "none" /\ HardExitDue(bar) THEN Resolved("time_exit", exit.ambiguity)
                                                  ELSE exit

(* The record of the awaited signal learns how its entry ended.            *)
Logged(status) == [signal_log EXCEPT ![pending].status = status]

SignalLogOn(bar) ==
  IF pending = 0 THEN signal_log
  ELSE Logged(IF Enters(bar) THEN "FILLED" ELSE "NO_EXECUTION_BAR")

(* The position is closed, paid for and logged as a trade, in one step.    *)
EngineCloses(bar, minutes) ==
  LET on    == HeldOn(bar)
      exit  == Leaves(bar, minutes)
      fill  == ExitFill(on.intent, exit.reason,
                        ExitReference(on.intent, on.entry, exit.reason, bar), bar)
      trade == CloseTrade(on.intent.signal.direction, on.entry, fill, exit.ambiguity)
  IN  /\ portfolio' = AfterExit(PortfolioOn(bar), trade)
      /\ closed' = Append(closed, trade)
      /\ held' = None

EngineFills(bar, minutes) ==
  /\ engine = "running"
  /\ \/ /\ ~tradable
        /\ UNCHANGED engine_vars
     \/ /\ tradable
        /\ Unsizeable(bar) \/ FillsRaise(bar, minutes)
        /\ engine' = IF Unsizeable(bar) THEN "unsizeable" ELSE "raised"
        /\ UNCHANGED <<tradable, signal_log, pending, held, portfolio, closed, session_log, result>>
     \/ /\ tradable
        /\ ~Unsizeable(bar) /\ ~FillsRaise(bar, minutes)
        /\ signal_log' = SignalLogOn(bar)
        /\ pending' = 0
        /\ \/ /\ HeldOn(bar) # None => Leaves(bar, minutes).reason = "none"
              /\ held' = HeldOn(bar)
              /\ portfolio' = PortfolioOn(bar)
              /\ UNCHANGED closed
           \/ /\ HeldOn(bar) # None
              /\ Leaves(bar, minutes).reason # "none"
              /\ EngineCloses(bar, minutes)
        /\ UNCHANGED <<engine, tradable, session_log, result>>

-----------------------------------------------------------------------------
(* The strategy sees the session up to this bar; `accepts' is what the     *)
(* gate says of the signal, TRUE when there is none.  A signal that comes  *)
(* while a position is held is logged and not entered.                     *)
EngineDecides(bars, bar, atr, accepts) ==
  /\ engine = "running"
  /\ LET seen   == {b \in bars : b.start <= bar.start}
         signal == Decision(seen, bar, atr)
     IN  IF ~tradable \/ signal = None
         THEN UNCHANGED <<signal_log, pending>>
         ELSE /\ signal_log' = Append(signal_log, [signal |-> signal, accepted |-> accepts,
                                                   status |-> "NONE"])
              /\ pending' = IF held = None /\ accepts THEN Len(signal_log) + 1 ELSE pending
  /\ UNCHANGED <<engine, tradable, held, portfolio, closed, session_log, result>>

(* What the session amounted to.                                           *)
StatusOf(day) ==
  IF \E i \in DOMAIN closed : SessionDay(closed[i].entry.bar_start) = day THEN "TRADED"
  ELSE IF \E i \in DOMAIN signal_log : SessionDay(signal_log[i].signal.signal_bar_start) = day
       THEN "SIGNALLED"
       ELSE "NO_SIGNAL"

EngineEndSession(day) ==
  /\ engine = "running"
  /\ signal_log' = IF pending = 0 THEN signal_log ELSE Logged("NO_EXECUTION_BAR")
  /\ pending' = 0
  /\ engine' = IF held = None THEN "running" ELSE "raised"
  /\ session_log' = IF tradable /\ held = None
                    THEN session_log \cup {[session |-> day, status |-> StatusOf(day)]}
                    ELSE session_log
  /\ UNCHANGED <<tradable, held, portfolio, closed, result>>

-----------------------------------------------------------------------------
(* The trading days up to the last session with bars that had none; the    *)
(* sessions of the warmup, before day 0, are logged like the others.       *)
LastOf(days) == CHOOSE last \in days : \A d \in days : d <= last
BUG_UpToOnEveryDay(days) == 0 .. LastOf(days)
UpTo(days) == {d \in 0 .. LastOf(days) : IsTradingDay(d)}

NoData(days) == {[session |-> d, status |-> "NO_DATA"] : d \in UpTo(days) \ days}

(* After the last session the run is measured; a curve out of order is     *)
(* refused.                                                                *)
Measured ==
  LET curve == Metrics!EquityCurve(EngineCapital, StartedAt, closed)
  IN  [trades |-> closed, equity_curve |-> curve,
       performance |-> Metrics!Performance(closed, curve)]

EngineFinish(days) ==
  /\ engine = "running" /\ result = None
  /\ session_log' = session_log \cup NoData(days)
  /\ IF Metrics!InOrder(StartedAt, closed)
     THEN result' = Measured /\ UNCHANGED engine
     ELSE engine' = "raised" /\ UNCHANGED result
  /\ UNCHANGED <<tradable, signal_log, pending, held, portfolio, closed>>
=============================================================================
