----------------------------- MODULE CandleTable -----------------------------
(***************************************************************************)
(* The candle table with everything that uses it at once: the backfill of  *)
(* HistoricalIngestion, the live service saving the bars it built          *)
(* (SqlMarketDataRepository.save_candles), and load_backtest_input         *)
(* (services/backtest_data.py) reading the range page by page.  They are   *)
(* separate processes and meet only in the database.                       *)
(***************************************************************************)
EXTENDS HistoricalIngestion

CONSTANTS
  Actors,       (* a subset of {"live", "load"}: who may use the table too  *)
  LiveBars,     (* bound: the bars the live service builds                  *)
  Ticks,        (* what the live engine saw of a minute                     *)
  SignalBars,   (* the interval the strategy reads                          *)
  PageSize

LiveSource == "zerodha"
Observed(bar, source) == Row([m \in Slot(bar[2], Width[bar[1]]) |-> Ticks], source)

ASSUME TableAssumption ==
  /\ Actors \subseteq {"live", "load"}
  /\ LiveBars \subseteq Names \X Minutes
  /\ \A bar \in LiveBars : bar[2] % Width[bar[1]] = 0
  /\ Ticks \notin Versions \cup {Missing, Forming}
  /\ \A bar \in LiveBars, source \in {Source, LiveSource} : None # Observed(bar, source)
  /\ SignalBars \in Names
  /\ PageSize \in Nat \ {0}

VARIABLES
  actor,        (* who uses the table besides the backfill                  *)
  live_bar,     (* the completed bar the live service is saving, or <<>>    *)
  live_found,   (* its transaction found a row for the bar                  *)
  live_saved,   (* the bars it has saved or failed to save                  *)
  load,         (* where the loader stands, and how it ended                *)
  after,        (* the keyset cursor: starts up to here have been read      *)
  signal,       (* the signal bars read so far: start -> row                *)
  minutes       (* the minutes read so far: start -> row                    *)

liveVars == <<live_bar, live_found, live_saved>>
loadVars == <<load, after, signal, minutes>>
tableVars == <<vars, actor, liveVars, loadVars>>

Before == -1
NoneRead == [s \in {} |-> None]

TableInit ==
  /\ Init
  /\ actor \in Actors
  /\ live_bar = <<>> /\ live_found = FALSE /\ live_saved = {}
  /\ load = "idle" /\ after = Before /\ signal = NoneRead /\ minutes = NoneRead

-----------------------------------------------------------------------------
(* save_candles looks the bar up, and then updates or inserts it.          *)
LiveBar == Observed(live_bar, LiveSource)

LiveLooksUp ==
  /\ actor = "live"
  /\ live_bar = <<>>
  /\ \E bar \in LiveBars \ live_saved :
       /\ bar[2] + Width[bar[1]] <= now
       /\ live_bar' = bar
       /\ live_found' = (stored[bar[1]][bar[2]] # None)
  /\ UNCHANGED <<vars, actor, live_saved, loadVars>>

LiveStores(row) ==
  /\ stored' = [i \in Names |-> [s \in Minutes |->
       IF <<i, s>> = live_bar THEN row ELSE stored[i][s]]]
  /\ live_saved' = live_saved \cup {live_bar}
  /\ live_bar' = <<>>
  /\ live_found' = FALSE
  /\ UNCHANGED <<vendor, now, foretold, actor, ingestVars, loadVars>>

LiveUpdates ==
  /\ live_bar # <<>> /\ live_found
  /\ LiveStores(Revised(stored[live_bar[1]][live_bar[2]], LiveBar))

LiveInsertsMay == stored[live_bar[1]][live_bar[2]] = None

LiveInserts ==
  /\ live_bar # <<>> /\ ~live_found
  /\ LiveInsertsMay
  /\ LiveStores(LiveBar)

(* The backfill inserted the bar in between: save_candles raises.          *)
LiveRefused ==
  /\ live_bar # <<>> /\ ~live_found
  /\ ~LiveInsertsMay
  /\ live_bar' = <<>>
  /\ live_saved' = live_saved \cup {live_bar}
  /\ UNCHANGED <<vars, actor, live_found, loadVars>>

-----------------------------------------------------------------------------
BeginLoad ==
  /\ actor = "load"
  /\ load = "idle"
  /\ load' = "signal"
  /\ UNCHANGED <<vars, actor, liveVars, after, signal, minutes>>

(* One page of _read_all.                                                  *)
WithPage(read, rows, page) ==
  [s \in DOMAIN read \cup page |-> IF s \in page THEN rows[s] ELSE read[s]]

BUG_PageEndsSeries(following) == TRUE
PageEndsSeries(following) == Cardinality(following) <= PageSize

LastOf(page) == CHOOSE s \in page : \A k \in page : k <= s

ReadPage(interval, read, next) ==
  LET following == Following(stored[interval], Start, End, after)
      page      == PageOf(following, PageSize)
  IN /\ read' = WithPage(read, stored[interval], page)
     /\ IF PageEndsSeries(following) THEN load' = next /\ after' = Before
                                     ELSE UNCHANGED load /\ after' = LastOf(page)

ReadSignalPage ==
  /\ load = "signal"
  /\ ReadPage(SignalBars, signal, "minutes")
  /\ UNCHANGED <<vars, actor, liveVars, minutes>>

ReadMinutesPage ==
  /\ load = "minutes"
  /\ ReadPage("1m", minutes, "check")
  /\ UNCHANGED <<vars, actor, liveVars, signal>>

(* _validate_series and _validate_coverage.                                *)
Sourced(rows) == \A s \in DOMAIN rows : rows[s].source = Source
Covered == \A s \in DOMAIN signal : Slot(s, Width[SignalBars]) \subseteq DOMAIN minutes
BUG_Matching == \A s \in DOMAIN signal : minutes[s].observed[s] = signal[s].observed[s]
Matching ==
  \A s \in DOMAIN signal : \A m \in Slot(s, Width[SignalBars]) :
    minutes[m].observed[m] = signal[s].observed[m]

Verdict ==
  IF DOMAIN signal = {} \/ DOMAIN minutes = {} THEN "empty"
  ELSE IF ~Sourced(signal) \/ ~Sourced(minutes) THEN "foreign"
  ELSE IF ~Covered                              THEN "uncovered"
  ELSE IF ~Matching                             THEN "disagrees"
  ELSE "loaded"

Validate ==
  /\ load = "check"
  /\ load' = Verdict
  /\ UNCHANGED <<vars, actor, liveVars, after, signal, minutes>>

-----------------------------------------------------------------------------
(* The live service inserted a bar of the batch after the transaction had  *)
(* read its rows: the database refuses the whole transaction, and ingest   *)
(* does not catch that.                                                    *)
CommitRefused ==
  /\ pc = "commit"
  /\ ~Unique(stored[Saved], NewKeys(known, Batch))
  /\ pc' = "raised"
  /\ ReportLost
  /\ UNCHANGED <<actor, liveVars, loadVars>>

Backfill == (Next /\ UNCHANGED <<actor, liveVars, loadVars>>) \/ CommitRefused
Live == LiveLooksUp \/ LiveUpdates \/ LiveInserts \/ LiveRefused
Loader == BeginLoad \/ ReadSignalPage \/ ReadMinutesPage \/ Validate
TableNext == Backfill \/ Live \/ Loader

TableSpec == TableInit /\ [][TableNext]_tableVars

-----------------------------------------------------------------------------
(* What a backtest is loaded from are rows that stay in the table as they  *)
(* were read, and the signal bars in the table are made of exactly the     *)
(* minutes in the table - although the backfill went on inserting between  *)
(* one page and the next, and whatever earlier runs left behind.           *)
LoadedIsWhatIsStored ==
  load = "loaded" =>
    /\ \A s \in DOMAIN signal : stored[SignalBars][s] = signal[s]
    /\ \A m \in DOMAIN minutes : stored["1m"][m] = minutes[m]
    /\ \A s \in DOMAIN signal : \A m \in Slot(s, Width[SignalBars]) :
         stored["1m"][m].observed[m] = stored[SignalBars][s].observed[m]

(* A load is never refused for want of minutes: they are stored before the *)
(* bars made of them, and read after.                                      *)
NeverUncovered == load # "uncovered"

(* A row's source never changes, so a live bar never passes for history,   *)
(* nor history for a live bar.                                             *)
SourceIsPermanent ==
  [][\A i \in Names, s \in Minutes :
       stored[i][s] # None => /\ stored'[i][s] # None
                              /\ stored'[i][s].source = stored[i][s].source]_tableVars
=============================================================================
