--------------------------- MODULE MarketSession ---------------------------
(***************************************************************************)
(* MarketSessionCalendar (domain/market/session.py): which days trade, and *)
(* when their session opens.  A day is its number, a moment its minutes.   *)
(***************************************************************************)
EXTENDS Execution

CONSTANTS
  Calendar,         (* its holidays, special_sessions and weekend_days      *)
  SessionOpen       (* window.open_time, minutes after midnight             *)

(* "A date may not be both a holiday and a special session."               *)
ASSUME CalendarAssumption ==
  /\ DOMAIN Calendar = {"holidays", "special_sessions", "weekend_days"}
  /\ Calendar.weekend_days \subseteq 0 .. 6
  /\ Calendar.holidays \cap Calendar.special_sessions = {}
  /\ SessionOpen \in Nat

Weekday(day) == day % 7

IsTradingDay(day) ==
  /\ day \notin Calendar.holidays
  /\ Weekday(day) \notin Calendar.weekend_days \/ day \in Calendar.special_sessions

(* session_bounds, which are None on any other day.                        *)
Opens(bar) == SessionDay(bar.start) * DayLength + SessionOpen
=============================================================================
