------------------------- MODULE MarketDataService -------------------------
(***************************************************************************)
(* MarketDataService (services/market_data_service.py) over one            *)
(* instrument: the provider's events drive the tick validator and the      *)
(* candle engine, a second task flushes the engine on the clock, and both  *)
(* write through the repository.  The two tasks share the engine; each     *)
(* handler and each flush is synchronous, so it is one action here, and    *)
(* they interleave at their awaits.                                        *)
(*                                                                         *)
(* A tick is [time, volume]: its event time in minutes and the day's       *)
(* volume so far.  A row is what save_candles leaves in the candle table.  *)
(***************************************************************************)
EXTENDS CandleEngine

CONSTANTS
  Volumes,      (* volumes a tick may carry                                 *)
  PersistTicks, (* market_data_persist_ticks                                *)
  MaxTime,      (* bound: the clock stops here, after the last tick         *)
  MaxTicks,     (* bound: ticks the feed delivers                           *)
  MaxBatch,     (* bound: ticks of one message                              *)
  Environments  (* what the environment may do: one of these sets of perils *)

(* "burst": a message carries several ticks.  "late": a tick arrives after *)
(* its minute has elapsed.  "gap": a reconnect records a data gap.         *)
(* "fault": a repository call raises.  "stop": SIGTERM.  "restart": the    *)
(* process is started again.                                               *)
ASSUME ServiceAssumption ==
  /\ \A perils \in Environments :
       perils \subseteq {"burst", "late", "gap", "fault", "stop", "restart"}
  /\ PersistTicks \in BOOLEAN
  /\ MaxTime \in Nat /\ MaxTicks \in Nat /\ MaxBatch \in Nat
  /\ Volumes \subseteq Nat \cup {NoVolume}

Ticks == [time : 0 .. MaxTime - 1, volume : Volumes]
Bars  == [width : Intervals, start : 0 .. MaxTime, ticks : Seq(Ticks), volume : Nat,
          baseline : Nat \cup {NoVolume}]
Rows  == [open : Ticks, ticks : Seq(Ticks), volume : Nat]
ASSUME NoBarAssumption == NoBar \notin Bars \cup Rows
Keys == Intervals \X (0 .. MaxTime)

VARIABLES
  perils,       (* the perils of this behaviour                             *)
  now,          (* the clock                                                *)
  engine,       (* _candles                                                 *)
  last,         (* the validator's last accepted tick, as a sequence        *)
  rows,         (* the candle table: Keys -> row, NoBar if absent           *)
  phase,        (* run(): running, closing (its finally block), ended       *)
  flusher,      (* _flush_loop: sleeping, done, or dead of an exception     *)
  stop,         (* the stop event                                           *)
  received,     (* ticks delivered so far, for the bound                    *)
  accepted,     (* history: ticks accepted since the engine was fresh       *)
  emitted       (* history: for each interval, those completed since then   *)

vars == <<perils, now, engine, last, rows, phase, flusher, stop, received, accepted,
          emitted>>

-----------------------------------------------------------------------------
(* TickValidator: a repeat of the last accepted tick, or a tick older than *)
(* it, is rejected.  (Unknown instruments and impossible prices too: such  *)
(* ticks change nothing and are left out.)                                 *)
Accepts(previous, tick) ==
  previous = <<>> \/ (tick # previous[1] /\ previous[1].time <= tick.time)

(* Each tick of a batch is validated and fed to the engine in its turn.    *)
HandledTick(so_far, tick) ==
  IF ~Accepts(so_far.last, tick) THEN so_far
  ELSE LET step == on_tick(so_far.engine, tick)
       IN  [engine |-> step.engine, last |-> <<tick>>, ticks |-> Append(so_far.ticks, tick),
            done |-> Then(so_far.done, step.done)]

Handled(batch) ==
  LET upto[n \in 0 .. Len(batch)] ==
        IF n = 0 THEN [engine |-> engine, last |-> last, ticks |-> <<>>, done |-> NoneDone]
        ELSE HandledTick(upto[n - 1], batch[n])
  IN  upto[Len(batch)]

(* save_candles inserts a bar, or updates everything but the open of its   *)
(* row: of the bars of one key the first opens a row, and the last stays.  *)
SavedRow(row, bars, start) ==
  LET of     == {n \in DOMAIN bars : bars[n].start = start}
      first  == CHOOSE n \in of : \A k \in of : n <= k
      latest == CHOOSE n \in of : \A k \in of : k <= n
  IN  IF of = {} THEN row
      ELSE [open   |-> IF row = NoBar THEN bars[first].ticks[1] ELSE row.open,
            ticks  |-> bars[latest].ticks,
            volume |-> bars[latest].volume]

SaveCandles(table, done) ==
  [key \in Keys |-> SavedRow(table[key], done[key[1]], key[2])]

-----------------------------------------------------------------------------
Init ==
  /\ perils \in Environments
  /\ now = 0
  /\ engine = Fresh
  /\ last = <<>>
  /\ rows = [key \in Keys |-> NoBar]
  /\ phase = "running"
  /\ flusher = "sleeping"
  /\ stop = FALSE
  /\ received = 0
  /\ accepted = <<>>
  /\ emitted = NoneDone

(* The loop of run() looks at the stop event after each handled event.     *)
AfterEvent == phase' = IF stop THEN "closing" ELSE "running"
Raises == "fault" \in perils /\ phase' = "closing"

(* _handle_ticks: ticks are saved before bars, bars before issues, each in *)
(* a transaction of its own.  The engine has moved on whichever raises.    *)
(* (Any tick may have an issue: accepted ones are flagged too.)            *)
HandleTicks(batch) ==
  \E step \in {Handled(batch)} :
      /\ phase = "running"
      /\ received + Len(batch) <= MaxTicks
      /\ received' = received + Len(batch)
      /\ engine' = step.engine
      /\ last' = step.last
      /\ accepted' = accepted \o step.ticks
      /\ emitted' = Then(emitted, step.done)
      /\ \/ rows' = SaveCandles(rows, step.done) /\ AfterEvent
         \/ /\ (PersistTicks /\ step.ticks # <<>>) \/ step.done # NoneDone
            /\ UNCHANGED rows
            /\ Raises
         \/ /\ rows' = SaveCandles(rows, step.done)
            /\ Raises
      /\ UNCHANGED <<perils, now, flusher, stop>>

(* A message of one tick or several, of the current minute unless late.    *)
ReceiveTicks ==
  \E size \in 1 .. MaxBatch : \E batch \in [1 .. size -> Ticks] :
    /\ size > 1 => "burst" \in perils
    /\ \A i \in DOMAIN batch :
         batch[i].time = now \/ ("late" \in perils /\ batch[i].time <= now)
    /\ HandleTicks(batch)

(* _handle_gap: the record first, then the engine and the validator.       *)
HandleGap ==
  /\ "gap" \in perils
  /\ phase = "running"
  /\ \/ /\ engine' = Fresh
        /\ last' = <<>>
        /\ accepted' = <<>>
        /\ emitted' = NoneDone
        /\ AfterEvent
     \/ /\ Raises
        /\ UNCHANGED <<engine, last, accepted, emitted>>
  /\ UNCHANGED <<perils, now, rows, flusher, stop, received>>

(* _handle_connection: recorded, and nothing else.                         *)
HandleConnection ==
  /\ phase = "running"
  /\ AfterEvent \/ Raises
  /\ UNCHANGED <<perils, now, engine, last, rows, flusher, stop, received, accepted,
                 emitted>>

(* The stream ends by itself, or raises.                                   *)
StreamEnds ==
  /\ phase = "running"
  /\ phase' = "closing"
  /\ UNCHANGED <<perils, now, engine, last, rows, flusher, stop, received, accepted,
                 emitted>>

(* One turn of _flush_loop: it flushes after its sleep, then looks at the  *)
(* stop event; an exception ends the task and nobody hears of it.          *)
BUG_FlushLate(e, moment)  == flush(e, moment - 1)
BUG_FlushEarly(e, moment) == flush(e, moment + 1)
FlushAt(e, moment) == flush(e, moment)

Flush ==
  \E step \in {FlushAt(engine, now)} :
      /\ phase = "running"
      /\ flusher = "sleeping"
      /\ engine' = step.engine
      /\ emitted' = Then(emitted, step.done)
      /\ \/ /\ rows' = SaveCandles(rows, step.done)
            /\ flusher' = IF stop THEN "done" ELSE "sleeping"
         \/ /\ "fault" \in perils
            /\ step.done # NoneDone
            /\ flusher' = "dead"
            /\ UNCHANGED rows
      /\ UNCHANGED <<perils, now, last, phase, stop, received, accepted>>

(* The finally block: awaiting a flusher that died raises its exception,   *)
(* otherwise _finalise closes and saves whatever is open.                  *)
Finalise ==
  \E step \in {close_all(engine)} :
      /\ phase = "closing"
      /\ phase' = "ended"
      /\ \/ /\ flusher = "dead"
            /\ UNCHANGED <<engine, rows, emitted>>
         \/ /\ flusher # "dead"
            /\ engine' = step.engine
            /\ emitted' = Then(emitted, step.done)
            /\ \/ rows' = SaveCandles(rows, step.done)
               \/ "fault" \in perils /\ UNCHANGED rows
      /\ UNCHANGED <<perils, now, last, flusher, stop, received, accepted>>

RequestStop ==
  /\ "stop" \in perils
  /\ phase # "ended" /\ ~stop
  /\ stop' = TRUE
  /\ UNCHANGED <<perils, now, engine, last, rows, phase, flusher, received, accepted,
                 emitted>>

(* A new process: everything but the table is new.                         *)
Restart ==
  /\ "restart" \in perils
  /\ phase = "ended"
  /\ engine' = Fresh
  /\ last' = <<>>
  /\ phase' = "running"
  /\ flusher' = "sleeping"
  /\ stop' = FALSE
  /\ accepted' = <<>>
  /\ emitted' = NoneDone
  /\ UNCHANGED <<perils, now, rows, received>>

AdvanceClock ==
  /\ now < MaxTime
  /\ now' = now + 1
  /\ UNCHANGED <<perils, engine, last, rows, phase, flusher, stop, received, accepted,
                 emitted>>

Next ==
  \/ ReceiveTicks \/ HandleGap \/ HandleConnection \/ StreamEnds
  \/ Flush \/ Finalise \/ RequestStop \/ Restart \/ AdvanceClock

Spec == Init /\ [][Next]_vars

(* Time passes, the flusher's sleep ends, and a finally block is run.      *)
Fairness == WF_vars(AdvanceClock) /\ WF_vars(Flush) /\ WF_vars(Finalise)

FairSpec == Spec /\ Fairness

-----------------------------------------------------------------------------
(* What the bars of an interval hold: those completed, the one still open, *)
(* and for a derived interval the minute that is still open.               *)
TicksIn(bar)  == IF bar = NoBar THEN <<>> ELSE bar.ticks
VolumeIn(bar) == IF bar = NoBar THEN 0 ELSE bar.volume

TicksOf(bars) ==
  LET upto[n \in 0 .. Len(bars)] == IF n = 0 THEN <<>> ELSE upto[n - 1] \o TicksIn(bars[n])
  IN  upto[Len(bars)]
VolumeOf(bars) ==
  LET upto[n \in 0 .. Len(bars)] == IF n = 0 THEN 0 ELSE upto[n - 1] + VolumeIn(bars[n])
  IN  upto[Len(bars)]

OpenTicks(e, w)  == TicksIn(e.open[w]) \o (IF w = 1 THEN <<>> ELSE TicksIn(e.open[1]))
OpenVolume(e, w) == VolumeIn(e.open[w]) + (IF w = 1 THEN 0 ELSE VolumeIn(e.open[1]))

(* No accepted tick is dropped, duplicated or moved by the engine: in each *)
(* interval, the bars completed since the last gap, the open one, and (for *)
(* a derived interval) the open minute hold exactly the accepted ticks, in *)
(* order, however late ticks and flushes interleave; and the window of the *)
(* bar a tick is in contains its event time.                               *)
EveryTickInOneBar ==
  \A w \in Intervals :
    /\ TicksOf(emitted[w]) \o OpenTicks(engine, w) = accepted
    /\ \A n \in DOMAIN emitted[w] : \A k \in DOMAIN emitted[w][n].ticks :
         LET bar == emitted[w][n]
         IN  bar.start <= bar.ticks[k].time /\ bar.ticks[k].time < EndAt(bar)

(* While the feed's cumulative volume does not fall, the volumes of the    *)
(* bars of an interval add up to what traded since the first tick: nothing *)
(* is counted twice across a bar boundary, or lost between two bars.       *)
Rising(ticks) ==
  \A k \in DOMAIN ticks :
     /\ ticks[k].volume # NoVolume
     /\ k > 1 => ticks[k - 1].volume <= ticks[k].volume
VolumesAddUp ==
  (accepted # <<>> /\ Rising(accepted)) =>
    \A w \in Intervals :
      VolumeOf(emitted[w]) + OpenVolume(engine, w) =
        accepted[Len(accepted)].volume - accepted[1].volume

(* "a COMPLETED bar never changes again" (Candle): a row, once written, is *)
(* never written with other values, as long as ticks come within their     *)
(* minute and one process writes.                                          *)
CompletedBarsAreFinal ==
  [][perils \cap {"late", "restart"} = {} =>
       \A key \in Keys : rows[key] # NoBar => rows'[key] = rows[key]]_vars

(* Ticks within their minute, no gap, no repository error, one process.    *)
Calm == perils \subseteq {"burst", "stop"}

(* "Larger intervals aggregate completed 1-minute bars": in a calm run, a  *)
(* stored wide bar is the sum of the stored minutes of its slot.           *)
Minute(m) == IF m <= MaxTime THEN rows[<<1, m>>] ELSE NoBar
MinutesOf(start, width) == [n \in 1 .. width |-> Minute(start + n - 1)]

StoredBarsAgree ==
  Calm => \A w \in Widths, start \in 0 .. MaxTime :
    rows[<<w, start>>] # NoBar =>
      LET row     == rows[<<w, start>>]
          minutes == MinutesOf(start, w)
      IN  /\ row.ticks = TicksOf(minutes)
          /\ row.volume = VolumeOf(minutes)
          /\ \E n \in 1 .. w : /\ minutes[n] # NoBar /\ row.open = minutes[n].open
                               /\ \A k \in 1 .. n - 1 : minutes[k] = NoBar

(* "Close any remaining bars so the last minute of a session is not lost": *)
(* a run that has ended leaves no bar open in its engine.                  *)
EndedRunLeavesNothingOpen ==
  phase = "ended" => \A w \in Intervals : engine.open[w] = NoBar

(* In a calm run every accepted tick reaches the row of its own minute,    *)
(* although no later tick may come: the flusher or the finally block       *)
(* stores it.  The exception is a stop requested while the market is       *)
(* silent: the flusher goes home, and run() notices at the next event.     *)
AwaitsAnEvent == stop /\ phase = "running"
EveryTickIsStored ==
  []<>(Calm => \/ AwaitsAnEvent
               \/ \A minute \in 0 .. MaxTime - 1 :
                    TicksIn(Minute(minute)) = SelectSeq(accepted, LAMBDA t : t.time = minute))
=============================================================================
