---------------------------- MODULE CandleEngine ----------------------------
(***************************************************************************)
(* CandleEngine (domain/market/candles.py): ticks of one instrument folded *)
(* into 1-minute bars, and completed 1-minute bars into wider ones.  The   *)
(* engine's dictionaries are keyed by token and never mix two of them.     *)
(*                                                                         *)
(* Times are minutes.  A bar holds the ticks it was made of, in order:     *)
(* open, high, low, close and tick count are functions of that sequence.   *)
(* Volume is not: the feed reports the volume of the day so far, and a bar *)
(* counts the increase over its baseline.                                  *)
(***************************************************************************)
EXTENDS Integers, Sequences

CONSTANTS
  Widths,       (* _derived: the minutes per bar of the derived intervals   *)
  NoBar,        (* no accumulator is open for the key                       *)
  NoVolume      (* the tick, or the baseline, has no volume                 *)

ASSUME EngineAssumption ==
  /\ Widths \subseteq Nat \ {0, 1}
  /\ NoVolume \notin Nat

Intervals == {1} \cup Widths

bucket_start(time, width) == width * (time \div width)

Bar(width, start, ticks, volume, baseline) ==
  [width |-> width, start |-> start, ticks |-> ticks, volume |-> volume,
   baseline |-> baseline]

EndAt(bar) == bar.start + bar.width

(* _open, keyed by interval, and _volume_carry.                            *)
Fresh == [open |-> [w \in Intervals |-> NoBar], carry |-> NoVolume]

(* What a step of the engine leaves, and the bars it completed: for each   *)
(* interval, in order.                                                     *)
Step(engine, done) == [engine |-> engine, done |-> done]
NoneDone == [w \in Intervals |-> <<>>]
Then(done, more) == [w \in Intervals |-> done[w] \o more[w]]

-----------------------------------------------------------------------------
(* _roll_up for one derived interval: a minute of a later slot completes   *)
(* the open bar, one of an earlier slot is ignored, and the slot's last    *)
(* minute completes the bar at once.                                       *)
SlotPassed(open, slot) == open # NoBar /\ open.start < slot
SlotMissed(open, slot) == open # NoBar /\ slot < open.start

BUG_WithMinuteReplaces(open, minute, width) ==
  LET slot == bucket_start(minute.start, width)
  IN  Bar(width, slot, minute.ticks, minute.volume, NoVolume)
WithMinute(open, minute, width) ==
  LET slot == bucket_start(minute.start, width)
      base == IF open = NoBar \/ SlotPassed(open, slot)
              THEN Bar(width, slot, <<>>, 0, NoVolume)
              ELSE open
  IN  [base EXCEPT !.ticks = @ \o minute.ticks, !.volume = @ + minute.volume]

LastMinuteOf(minute, bar) == EndAt(minute) >= EndAt(bar)

RolledUp(open, minute, width) ==
  LET slot  == bucket_start(minute.start, width)
      grown == WithMinute(open, minute, width)
  IN  IF SlotMissed(open, slot) THEN open
      ELSE IF LastMinuteOf(minute, grown) THEN NoBar
      ELSE grown

BUG_RollUpDropsPassedSlot(open, minute, width) ==
  LET grown == WithMinute(open, minute, width)
  IN  IF LastMinuteOf(minute, grown) THEN <<grown>> ELSE <<>>
RollUpDone(open, minute, width) ==
  LET slot  == bucket_start(minute.start, width)
      grown == WithMinute(open, minute, width)
  IN  IF SlotMissed(open, slot) THEN <<>>
      ELSE (IF SlotPassed(open, slot) THEN <<open>> ELSE <<>>)
             \o (IF LastMinuteOf(minute, grown) THEN <<grown>> ELSE <<>>)

(* _close of the open minute, with the roll-up it causes.                  *)
CloseMinute(e) ==
  Step([e EXCEPT !.open = [w \in Intervals |->
          IF w = 1 THEN NoBar ELSE RolledUp(e.open[w], e.open[1], w)]],
       [w \in Intervals |->
          IF w = 1 THEN <<e.open[1]>> ELSE RollUpDone(e.open[w], e.open[1], w)])

CloseDue(e, due) ==
  Step([e EXCEPT !.open = [w \in Intervals |-> IF w \in due THEN NoBar ELSE e.open[w]]],
       [w \in Intervals |-> IF w \in due THEN <<e.open[w]>> ELSE <<>>])

Closed(e, minute) == IF minute THEN CloseMinute(e) ELSE Step(e, NoneDone)

(* The minute first, so that its completion rolls into the wider bars.     *)
Closing(e, minute, due) ==
  LET first  == Closed(e, minute)
      second == CloseDue(first.engine, due)
  IN  Step(second.engine, Then(first.done, second.done))

FlushMinute(e, moment) == e.open[1] # NoBar /\ EndAt(e.open[1]) <= moment
FlushDue(e, moment) ==
  LET open == Closed(e, FlushMinute(e, moment)).engine.open
  IN  {w \in Widths : open[w] # NoBar /\ EndAt(open[w]) <= moment}
AllDue(e) ==
  LET open == Closed(e, e.open[1] # NoBar).engine.open IN {w \in Widths : open[w] # NoBar}

flush(e, moment) == Closing(e, FlushMinute(e, moment), FlushDue(e, moment))
close_all(e)     == Closing(e, e.open[1] # NoBar, AllDue(e))

-----------------------------------------------------------------------------
(* on_tick.  The minute's baseline is where the last bar left the day's    *)
(* volume, or the first tick's own volume when there is no earlier bar.    *)
BUG_OpenBarForgetsCarry(e, tick) == Bar(1, tick.time, <<>>, 0, tick.volume)
OpenBar(e, tick) ==
  Bar(1, tick.time, <<>>, 0, IF e.carry # NoVolume THEN e.carry ELSE tick.volume)

Counts(bar, tick) == tick.volume # NoVolume /\ bar.baseline # NoVolume

VolumeSince(bar, tick) ==
  IF tick.volume < bar.baseline THEN 0 ELSE tick.volume - bar.baseline

ApplyTick(e, bar, tick) ==
  [e EXCEPT
     !.open = [@ EXCEPT ![1] = [bar EXCEPT !.ticks = Append(@, tick),
                                           !.volume = IF Counts(bar, tick)
                                                      THEN VolumeSince(bar, tick) ELSE @]],
     !.carry = IF Counts(bar, tick) THEN tick.volume ELSE @]

on_tick(e, tick) ==
  IF e.open[1] # NoBar /\ tick.time < e.open[1].start
  THEN Step(e, NoneDone)
  ELSE LET closed == IF e.open[1] # NoBar /\ e.open[1].start < tick.time
                     THEN CloseMinute(e) ELSE Step(e, NoneDone)
           bar    == IF closed.engine.open[1] = NoBar
                     THEN OpenBar(closed.engine, tick) ELSE closed.engine.open[1]
       IN  Step(ApplyTick(closed.engine, bar, tick), closed.done)
=============================================================================
