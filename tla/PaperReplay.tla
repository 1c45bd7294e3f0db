---------------------------- MODULE PaperReplay ----------------------------
(***************************************************************************)
(* PaperSession.on_bar (services/paper_session.py), which puts strategy,   *)
(* risk layer and analyst in front of the paper adapter, and               *)
(* replay_paper_session (services/paper_replay.py), which feeds it the     *)
(* stored bars of one session after another.  One on_bar is two steps:     *)
(* the adapter consumes the bar (ReplayBar), then the session decides on   *)
(* it (Decide).  An exception anywhere ends the replay.                    *)
(***************************************************************************)
EXTENDS OpeningRangeBreakout, Sequences

CONSTANTS
  BarStarts,        (* the starts of the bars that may be stored            *)
  StartingCapital

ASSUME ReplayAssumption == BarStarts \subseteq Nat /\ StartingCapital \in Nat

VARIABLES
  orders, working, position, flatten_pending, last_bar_start,
  ledger, trades, returned,   (* the paper adapter, see PaperExecution      *)
  replay,           (* "running", or how it ended                           *)
  session_bars,     (* _session_bars                                        *)
  expected,         (* the start of the bar that is due                     *)
  missing,          (* missing_bars                                         *)
  cancelled         (* cancelled_at_session_end                             *)

paper_vars == <<orders, working, position, flatten_pending, last_bar_start,
                ledger, trades, returned>>
replay_vars == <<paper_vars, replay, session_bars, expected, missing, cancelled>>

(* Every signal the strategy can make of stored bars.                      *)
OrbSignals == [instrument_token : {Instrument}, direction : {"LONG", "SHORT"},
               signal_bar_start : BarStarts, stop_price : Int,
               target_r_multiple : {TargetR}]

AnyBar == [start : BarStarts, open : Int, high : Int, low : Int, close : Int, volume : Nat]
AnyMinute == [start : Nat, open : Int, high : Int, low : Int, close : Int, volume : Nat]

AnyMinutes(bar) == SUBSET AnyMinute

(* An order is named after its signal bar.                                 *)
Paper == INSTANCE PaperExecution
           WITH ClientIds <- BarStarts, Signals <- OrbSignals, Quantities <- Nat,
                Bars <- AnyBar, MinuteFeeds <- AnyMinutes

ReplayInit ==
  /\ Paper!Init
  /\ replay = "running"
  /\ session_bars = {}
  /\ expected = 0
  /\ missing = {}
  /\ cancelled = {}

Running == replay = "running"

-----------------------------------------------------------------------------
(* `expected' restarts at the open of every session that has bars; one on  *)
(* a day that does not trade ends the replay, and so does a bar from       *)
(* before the open.                                                        *)
ReplayStartSession(day, bars) ==
  /\ Running
  /\ IF IsTradingDay(day)
     THEN expected' = Opens(CHOOSE b \in bars : TRUE) /\ UNCHANGED replay
     ELSE replay' = "raised" /\ UNCHANGED expected
  /\ UNCHANGED <<paper_vars, session_bars, missing, cancelled>>

OffGrid(bar) == bar.start < expected

(* The starts that were due before this bar.                               *)
BUG_NothingSkipped(bar) == {}
Skipped(bar) == {t \in expected .. bar.start - 1 : (t - expected) % Interval = 0}

SessionBarsWith(bar) ==
  {b \in session_bars : SessionDay(b.start) = SessionDay(bar.start)} \cup {bar}

ReplayBar(bar, minutes) ==
  /\ Running
  /\ \/ /\ OffGrid(bar)
        /\ replay' = "off_grid"
        /\ UNCHANGED <<paper_vars, session_bars, expected, missing>>
     \/ /\ ~OffGrid(bar)
        /\ missing' = missing \cup Skipped(bar)
        /\ expected' = BarEnd(bar)
        /\ \/ /\ Paper!OnBarEntryRaises(bar) \/ Paper!OnBarExitRaises(bar, minutes)
              /\ replay' = "raised"
              /\ UNCHANGED session_bars
           \/ /\ Paper!OnBarHolds(bar, minutes) \/ Paper!OnBarCloses(bar, minutes)
              /\ session_bars' = SessionBarsWith(bar)
              /\ UNCHANGED replay
  /\ UNCHANGED cancelled

-----------------------------------------------------------------------------
Busy == position # None \/ working # None

(* Sized on current cash, with the close of the signal bar for the entry.  *)
SizeOf(signal, bar) ==
  SizePosition(ledger.cash, ledger.cash, IsLong(signal.direction), bar.close, signal.stop_price)

Wants(bar, atr) == Decision(session_bars, bar, atr) # None /\ ~Busy

(* The strategy, then the risk layer, then the analyst, who is not asked   *)
(* about an entry risk refused; `takes' is what he would answer.  A reused *)
(* id makes submit raise.                                                  *)
Decide(bar, atr, takes) ==
  /\ Running
  /\ LET signal   == Decision(session_bars, bar, atr)
         quantity == SizeOf(signal, bar)
     IN  \/ /\ EvaluateRaises(session_bars, bar)
            /\ replay' = "no_range"
            /\ UNCHANGED paper_vars
         \/ /\ ~EvaluateRaises(session_bars, bar)
            /\ Wants(bar, atr) => quantity = 0 \/ ~takes
            /\ UNCHANGED <<paper_vars, replay>>
         \/ /\ ~EvaluateRaises(session_bars, bar)
            /\ Wants(bar, atr) /\ quantity # 0 /\ takes
            /\ IF orders[bar.start] = None
               THEN Paper!Submit(bar.start, signal, quantity) /\ UNCHANGED replay
               ELSE replay' = "raised" /\ UNCHANGED paper_vars
  /\ UNCHANGED <<session_bars, expected, missing, cancelled>>

-----------------------------------------------------------------------------
(* A working order has no bar left; a position has no price to close at.   *)
BUG_EndSessionKeepsTheOrder ==
  /\ Running
  /\ replay' = IF position = None THEN "running" ELSE "raised"
  /\ UNCHANGED <<paper_vars, session_bars, expected, missing, cancelled>>
ReplayEndSession ==
  /\ Running
  /\ \/ /\ working # None
        /\ Paper!Cancel(working)
        /\ cancelled' = cancelled \cup {working}
     \/ /\ working = None
        /\ UNCHANGED <<paper_vars, cancelled>>
  /\ replay' = IF position = None THEN "running" ELSE "raised"
  /\ UNCHANGED <<session_bars, expected, missing>>
=============================================================================
