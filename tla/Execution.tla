----------------------------- MODULE Execution -----------------------------
(***************************************************************************)
(* The fill resolvers of domain/backtest/execution.py: pure functions from *)
(* a bar to the fill it produced, shared by the backtest engine and the    *)
(* paper adapter.                                                          *)
(*                                                                         *)
(* Prices are integers in paisa, times are integers in minutes.  A bar is  *)
(* a record [start, open, high, low, close, volume]; all bars are          *)
(* COMPLETED, since every caller checks that first.  An intent is          *)
(* [signal, quantity, entry_bar_start].                                    *)
(***************************************************************************)
EXTENDS Costs, FiniteSets

CONSTANTS
  TickSize,          (* Instrument.tick_size                                *)
  AdverseTicks,      (* SlippageConfig.adverse_ticks                        *)
  ThroughTicks,      (* ExecutionConfig.target_requires_through_ticks       *)
  Interval,          (* minutes in a signal bar                             *)
  DayLength,         (* minutes in a calendar day (1440 in the program)     *)
  HardExitTime       (* the cutoff, minutes after the midnight of the day   *)

ASSUME ExecutionAssumption ==
  /\ TickSize \in Nat \ {0}
  /\ AdverseTicks \in Nat
  /\ ThroughTicks \in Nat
  /\ Interval \in Nat \ {0}
  /\ DayLength \in Nat \ {0}
  /\ HardExitTime \in Nat

IsLong(direction) == direction = "LONG"

(* The side that opens a position, and the one that closes it.             *)
EntrySide(direction) == IF IsLong(direction) THEN "BUY" ELSE "SELL"
ExitSide(direction)  == IF IsLong(direction) THEN "SELL" ELSE "BUY"

EntryBarStart(signal) == signal.signal_bar_start + Interval

BarEnd(bar) == bar.start + Interval

SessionDay(t) == t \div DayLength
TimeOfDay(t)  == t % DayLength

(* `price' is at or beyond `level' on the losing side of the direction.    *)
AtOrAgainst(direction, price, level) ==
  IF IsLong(direction) THEN price <= level ELSE price >= level

(* The extremes of a bar that hurt and that help a position.               *)
WorstPrice(direction, bar) == IF IsLong(direction) THEN bar.low ELSE bar.high
BestPrice(direction, bar)  == IF IsLong(direction) THEN bar.high ELSE bar.low

(* A price moved by the slippage against a position that is being closed,  *)
(* or against one being opened.                                            *)
Slippage == AdverseTicks * TickSize
ExitSlipped(direction, price)  ==
  IF IsLong(direction) THEN price - Slippage ELSE price + Slippage
EntrySlipped(direction, price) ==
  IF IsLong(direction) THEN price + Slippage ELSE price - Slippage

(* A bar with no trades cannot establish any execution: using it raises    *)
(* UnexecutableBarError (NO_RANGE or NO_VOLUME).                           *)
Executable(bar) == bar.volume > 0

(* A fill is refused (leg_charges and Fill raise) unless both its price and *)
(* the price it is measured from are positive: near zero, slippage takes a *)
(* sale below that.  What entering at the open or leaving at a reference   *)
(* would need.                                                             *)
Priced(reference, price) == reference > 0 /\ price > 0

EntryPriced(direction, bar) == Priced(bar.open, EntrySlipped(direction, bar.open))
ExitPriced(direction, reference) == Priced(reference, ExitSlipped(direction, reference))

(* A bar on which an entry of this direction raises nothing.               *)
Enterable(direction, bar) == Executable(bar) /\ EntryPriced(direction, bar)

(* Only of an entry or an exit that is Priced.                             *)
MakeFill(side, reason, quantity, price, bar, occurred_at) ==
  [side |-> side, reason |-> reason, quantity |-> quantity, price |-> price,
   costs |-> LegCharges(side, price * quantity), occurred_at |-> occurred_at,
   bar_start |-> bar.start]

EntryFill(intent, bar) ==
  MakeFill(EntrySide(intent.signal.direction), "entry", intent.quantity,
           EntrySlipped(intent.signal.direction, bar.open), bar, bar.start)

(* A gap beyond the stop and a flatten fill at the opening print; of any   *)
(* other exit only that it had happened by the close is known.             *)
Gapped(intent, bar) ==
  AtOrAgainst(intent.signal.direction, bar.open, intent.signal.stop_price)

ExitMoment(intent, reason, bar) ==
  IF reason = "flatten" \/ (reason = "stop" /\ Gapped(intent, bar))
  THEN bar.start ELSE BarEnd(bar)

ExitFill(intent, reason, reference, bar) ==
  MakeFill(ExitSide(intent.signal.direction), reason, intent.quantity,
           ExitSlipped(intent.signal.direction, reference), bar,
           ExitMoment(intent, reason, bar))

-----------------------------------------------------------------------------
(* The protective stop rests in the book: a touch fills it, and a bar that *)
(* opens beyond it fills at its open.                                      *)
StopTouched(intent, bar) ==
  AtOrAgainst(intent.signal.direction,
              WorstPrice(intent.signal.direction, bar),
              intent.signal.stop_price)

StopReference(intent, bar) ==
  IF Gapped(intent, bar) THEN bar.open ELSE intent.signal.stop_price

(* The target is fired once the price trades through it by ThroughTicks   *)
(* and it fills at the target however far the bar went.                    *)
Risk(intent, entry) ==
  IF entry.price >= intent.signal.stop_price
  THEN entry.price - intent.signal.stop_price
  ELSE intent.signal.stop_price - entry.price

TargetPrice(intent, entry) ==
  LET reach == intent.signal.target_r_multiple * Risk(intent, entry)
  IN  IF IsLong(intent.signal.direction) THEN entry.price + reach
                                         ELSE entry.price - reach

TargetReached(intent, entry, bar) ==
  IF IsLong(intent.signal.direction)
  THEN BestPrice("LONG", bar) >= TargetPrice(intent, entry) + ThroughTicks * TickSize
  ELSE BestPrice("SHORT", bar) <= TargetPrice(intent, entry) - ThroughTicks * TickSize

-----------------------------------------------------------------------------
(* The minute bars that cover a signal bar, or none if any is missing.     *)
MinutesInside(bar, minutes) ==
  LET inside == {m \in minutes : bar.start <= m.start /\ m.start + 1 <= BarEnd(bar)}
  IN  IF /\ Cardinality(inside) = Interval
         /\ {m.start : m \in inside} = bar.start .. (BarEnd(bar) - 1)
      THEN inside
      ELSE {}

(* A minute that says neither "stop" nor "target" is walked over; the      *)
(* first one that is not decides, unless it cannot.                        *)
Silent(intent, entry, minute) ==
  /\ Executable(minute)
  /\ ~StopTouched(intent, minute)
  /\ ~TargetReached(intent, entry, minute)

Resolved(reason, ambiguity) == [reason |-> reason, ambiguity |-> ambiguity]

Loud(intent, entry, bar, minutes) ==
  {m \in MinutesInside(bar, minutes) : ~Silent(intent, entry, m)}

ResolveCollision(intent, entry, bar, minutes) ==
  LET loud == Loud(intent, entry, bar, minutes)
      first == CHOOSE m \in loud : \A n \in loud : m.start <= n.start
  IN  IF loud = {} \/ ~Executable(first)
      THEN Resolved("stop", "pessimistic_fallback")
      ELSE IF StopTouched(intent, first) /\ TargetReached(intent, entry, first)
      THEN Resolved("stop", "pessimistic_fallback")
      ELSE IF StopTouched(intent, first)
      THEN Resolved("stop", "resolved_by_1m")
      ELSE Resolved("target", "resolved_by_1m")

(* Which protective exit the bar produced, and by which tier.  The bar is  *)
(* executable and the risk is not zero: otherwise the code raises.         *)
ResolveExit(intent, entry, bar, minutes) ==
  LET stop   == StopTouched(intent, bar)
      target == TargetReached(intent, entry, bar)
  IN  IF stop /\ target THEN ResolveCollision(intent, entry, bar, minutes)
      ELSE IF stop      THEN Resolved("stop", "unambiguous")
      ELSE IF target    THEN Resolved("target", "unambiguous")
      ELSE                   Resolved("none", "unambiguous")

(* The first bar whose close reaches the cutoff closes what is still held. *)
BUG_HardExitAfterCutoff(bar) == TimeOfDay(BarEnd(bar)) > HardExitTime
HardExitDue(bar) == TimeOfDay(BarEnd(bar)) >= HardExitTime

(* The price each exit is measured from, before slippage.                  *)
ExitReference(intent, entry, reason, bar) ==
  CASE reason = "stop"      -> StopReference(intent, bar)
    [] reason = "target"    -> TargetPrice(intent, entry)
    [] reason = "time_exit" -> bar.close
    [] reason = "flatten"   -> bar.open

-----------------------------------------------------------------------------
(* Both levels are priced before either is chosen, on the bar and, in a    *)
(* collision, on each minute walked: one that cannot be filled raises.     *)
LevelUnpriced(intent, entry, bar) ==
  \/ StopTouched(intent, bar)
       /\ ~ExitPriced(intent.signal.direction, StopReference(intent, bar))
  \/ TargetReached(intent, entry, bar)
       /\ ~ExitPriced(intent.signal.direction, TargetPrice(intent, entry))

WalkUnpriced(intent, entry, bar, minutes) ==
  /\ StopTouched(intent, bar) /\ TargetReached(intent, entry, bar)
  /\ \E m \in Loud(intent, entry, bar, minutes) :
       /\ \A n \in Loud(intent, entry, bar, minutes) : m.start <= n.start
       /\ Executable(m)
       /\ LevelUnpriced(intent, entry, m)

Unresolved(intent, entry, bar, minutes) ==
  ResolveExit(intent, entry, bar, minutes).reason = "none"

(* The exit the bar calls for would be filled at no positive price.        *)
ExitUnpriced(intent, entry, bar, minutes) ==
  \/ LevelUnpriced(intent, entry, bar)
  \/ WalkUnpriced(intent, entry, bar, minutes)
  \/ /\ Unresolved(intent, entry, bar, minutes)
     /\ HardExitDue(bar)
     /\ ~ExitPriced(intent.signal.direction, bar.close)

(* Looking for the exit of a position raises: on a bar without trades, on  *)
(* a position entered at its own stop, on one that reached a later session *)
(* and on an exit that cannot be filled.                                   *)
ExitWalkRaises(intent, entry, bar, minutes) ==
  \/ ~Executable(bar)
  \/ Risk(intent, entry) = 0
  \/ /\ Unresolved(intent, entry, bar, minutes)
     /\ SessionDay(bar.start) # SessionDay(intent.entry_bar_start)
  \/ ExitUnpriced(intent, entry, bar, minutes)
=============================================================================
