------------------------- MODULE HistoricalIngestion -------------------------
(***************************************************************************)
(* HistoricalIngestionService.ingest (services/historical_ingestion.py)    *)
(* for one instrument and one range, run again and again: windows fetched  *)
(* in order with retries, and for each of them one transaction per         *)
(* interval.  Each action is the code up to the next await or database     *)
(* call, so that a run may die, and others may write, in between.          *)
(***************************************************************************)
EXTENDS CandleStore, Sequences

CONSTANTS
  Intervals,    (* the intervals saved, in order: <<"1m", "5m", "15m">>      *)
  Width,        (* minutes per bar of each interval                         *)
  Horizon,      (* bound: minutes are 0 .. Horizon - 1                      *)
  Clocks,       (* bound: what the clock may first show                     *)
  Start, End,   (* the range of every run                                   *)
  MaxSpan,      (* plan_windows' max_span                                   *)
  SessionLength,(* minutes of a trading day                                 *)
  MaxAttempts,  (* RetryPolicy.max_attempts                                 *)
  Versions,     (* what the vendor may serve for a minute                   *)
  Missing,      (* the vendor serves nothing for a minute                   *)
  Forming,      (* what it serves for the minute still under way            *)
  MaxRuns,      (* bound: runs of the command                               *)
  GivenAsOf,    (* bound: the moments --as-of may name                      *)
  Late,         (* bound: the minutes the vendor may publish late           *)
  Corrected     (* bound: the minutes it may correct                        *)

Minutes == 0 .. Horizon - 1
Names == {Intervals[i] : i \in DOMAIN Intervals}

ASSUME IngestionAssumption ==
  /\ Horizon \in Nat /\ Start \in Nat /\ End \in Nat /\ MaxSpan \in Nat /\ MaxAttempts \in Nat
  /\ SessionLength \in Nat \ {0}
  /\ Start < End /\ End <= Horizon /\ MaxSpan > 0 /\ MaxAttempts > 0
  /\ Intervals \in Seq(STRING) /\ Len(Intervals) > 0 /\ Intervals[1] = "1m"
  /\ Width \in [Names -> Nat \ {0}] /\ Width["1m"] = 1
  /\ \A i, j \in DOMAIN Intervals : Intervals[i] = Intervals[j] => i = j
  /\ \A name \in Names : Start % Width[name] = 0 /\ End % Width[name] = 0
                                                 /\ MaxSpan % Width[name] = 0
  /\ Missing \notin Versions /\ Forming \notin Versions
  /\ Clocks \subseteq 0 .. Horizon
  /\ Late \subseteq Minutes /\ Corrected \subseteq Minutes
  /\ MaxRuns \in Nat
  /\ GivenAsOf \subseteq Nat

Source == "zerodha_historical"
Served == Versions \cup {Forming}
RowsOf(start, width) == [observed : [Slot(start, width) -> Served], source : {Source}]
ASSUME NoneAssumption ==
  \A i \in Names, s \in Minutes : None \notin RowsOf(s, Width[i])

VARIABLES
  stored,       (* the candle table: interval -> start -> row or None       *)
  vendor,       (* external: minute -> version or Missing                   *)
  now,          (* the clock                                                *)
  pc,           (* where the run stands                                     *)
  as_of,        (* the moment the run was given, or the clock as it began   *)
  offered,      (* history: the minutes before as_of the vendor had then    *)
  foretold,     (* history: the minutes before some as_of not yet over then *)
  cursor,       (* start of the window being fetched or saved               *)
  failures,     (* failed attempts at it                                    *)
  fetched,      (* the minutes of it that were parsed: minute -> version    *)
  saving,       (* which interval of it is being saved                      *)
  known,        (* the rows the open transaction has read                   *)
  taken,        (* report: the minutes of the windows stored (bars_fetched) *)
  inserted, identical, conflicts, (* report: pairs <<interval, start>>      *)
  incomplete,   (* report: slots that lack a minute                         *)
  runs          (* bound: runs begun                                        *)

report == <<taken, inserted, identical, conflicts, incomplete>>
ingestVars == <<pc, as_of, offered, cursor, failures, fetched, saving, known, report, runs>>
vars == <<stored, vendor, now, ingestVars, foretold>>

NoRows == [s \in Minutes |-> None]
Nothing == [m \in {} |-> Missing]

Init ==
  /\ stored = [i \in Names |-> NoRows]
  /\ vendor \in [Minutes -> Versions \cup {Missing}]
  /\ now \in Clocks
  /\ pc = "idle"
  /\ as_of = 0
  /\ offered = {}
  /\ foretold = {}
  /\ cursor = Start
  /\ failures = 0
  /\ fetched = Nothing
  /\ saving = 1
  /\ known = NoRows
  /\ taken = {} /\ inserted = {} /\ identical = {} /\ conflicts = {} /\ incomplete = {}
  /\ runs = 0

-----------------------------------------------------------------------------
(* plan_windows: windows of MaxSpan, the last one cut at End.              *)
Upper == IF cursor + MaxSpan < End THEN cursor + MaxSpan ELSE End

(* parse_historical_candles keeps the bars that start in the window and    *)
(* end by as_of, and asks no clock whether they have.                      *)
Serves(m) == IF m < now THEN vendor[m] ELSE IF m = now THEN Forming ELSE Missing
BUG_WantedIncludesForming == {m \in cursor .. Upper - 1 : Serves(m) # Missing}
Wanted == {m \in cursor .. Upper - 1 : Serves(m) # Missing /\ m + 1 <= as_of}

(* The locals of a window that is done, or of a call that has returned.    *)
WindowForgotten == fetched' = Nothing /\ saving' = 1 /\ known' = NoRows

Over == {"idle", "completed", "incomplete", "aborted", "raised", "crashed"}

(* --as-of may name any moment, past or future; without it the run takes   *)
(* the clock's.                                                            *)
Begin ==
  /\ pc \in Over /\ runs < MaxRuns
  /\ pc' = "fetch"
  /\ runs' = runs + 1
  /\ as_of' \in {now} \cup GivenAsOf
  /\ offered' = {m \in Minutes : m < now /\ m < as_of' /\ vendor[m] # Missing}
  /\ foretold' = foretold \cup {m \in Minutes : now <= m /\ m < as_of'}
  /\ cursor' = Start
  /\ failures' = 0
  /\ taken' = {} /\ inserted' = {} /\ identical' = {} /\ conflicts' = {} /\ incomplete' = {}
  /\ UNCHANGED <<stored, vendor, now, fetched, saving, known>>

FetchOk ==
  /\ pc = "fetch"
  /\ fetched' = [m \in Wanted |-> Serves(m)]
  /\ saving' = 1
  /\ pc' = "read"
  /\ UNCHANGED <<stored, vendor, now, foretold, as_of, offered, cursor, failures, known, report, runs>>

(* with_retries: a failure that may clear is tried again after a pause,    *)
(* and the last one ends the run with its report.                          *)
BUG_ExhaustedNever == FALSE
Exhausted == failures + 1 = MaxAttempts

FetchFails ==
  /\ pc = "fetch"
  /\ failures' = IF failures < MaxAttempts THEN failures + 1 ELSE failures
  /\ pc' = IF Exhausted THEN "incomplete" ELSE "sleep"
  /\ UNCHANGED <<stored, vendor, now, foretold, as_of, offered, cursor, fetched, saving, known, report, runs>>

Wake ==
  /\ pc = "sleep"
  /\ pc' = "fetch"
  /\ UNCHANGED <<stored, vendor, now, foretold, as_of, offered, cursor, failures, fetched, saving, known,
                 report, runs>>

(* A dead token, a refused request or a malformed response ends the run.   *)
FetchAborts ==
  /\ pc = "fetch"
  /\ pc' = "aborted"
  /\ UNCHANGED <<stored, vendor, now, foretold, as_of, offered, cursor, failures, fetched, saving, known,
                 report, runs>>

-----------------------------------------------------------------------------
BUG_SavedWidestFirst == Intervals[Len(Intervals) + 1 - saving]
Saved == Intervals[saving]
Batch == Aggregate(fetched, Width[Saved], Source)
Keyed(starts) == {<<Saved, s>> : s \in starts}

(* One transaction reads the rows of the batch's span ...                  *)
ReadStored ==
  /\ pc = "read"
  /\ known' = stored[Saved]
  /\ pc' = "commit"
  /\ UNCHANGED <<stored, vendor, now, foretold, as_of, offered, cursor, failures, fetched, saving, report, runs>>

(* ... and inserts what was not there.                                     *)
NextWindow ==
  /\ pc' = IF Upper < End THEN "fetch" ELSE "completed"
  /\ cursor' = Upper
  /\ failures' = 0
  /\ taken' = taken \cup DOMAIN fetched
  /\ WindowForgotten

BUG_NextSaveForgetsAggregates == NextWindow
NextSave ==
  IF saving = Len(Intervals)
  THEN NextWindow
  ELSE /\ pc' = "read"
       /\ saving' = saving + 1
       /\ known' = NoRows
       /\ UNCHANGED <<cursor, failures, taken, fetched>>

CommitSave ==
  /\ pc = "commit"
  /\ Unique(stored[Saved], NewKeys(known, Batch))
  /\ stored' = [i \in Names |->
       IF i = Saved THEN WithInserted(stored[i], Batch, NewKeys(known, Batch)) ELSE stored[i]]
  /\ inserted' = inserted \cup Keyed(NewKeys(known, Batch))
  /\ identical' = identical \cup Keyed(SameKeys(known, Batch))
  /\ conflicts' = conflicts \cup Keyed(ConflictKeys(known, Batch))
  /\ incomplete' = incomplete \cup Keyed(IncompleteSlots(fetched, Width[Saved]))
  /\ NextSave
  /\ UNCHANGED <<vendor, now, foretold, as_of, offered, runs>>

(* ingest does not return: its locals and its report are gone.              *)
ReportLost ==
  /\ taken' = {} /\ inserted' = {} /\ identical' = {} /\ conflicts' = {} /\ incomplete' = {}
  /\ cursor' = Start /\ failures' = 0 /\ as_of' = 0 /\ offered' = {}
  /\ WindowForgotten
  /\ UNCHANGED <<stored, vendor, now, foretold, runs>>

(* The process dies: what was committed stays, the rest is gone.           *)
Crash ==
  /\ pc \notin Over
  /\ pc' = "crashed"
  /\ ReportLost

(* no_data_sessions of the report: the trading days of the windows stored  *)
(* of which no minute was fetched.                                         *)
DayOf(m) == m \div SessionLength
NoDataSessions == {DayOf(m) : m \in Start .. cursor - 1} \ {DayOf(m) : m \in taken}

-----------------------------------------------------------------------------
(* External: the vendor publishes a minute late, or corrects one.          *)
Publish ==
  /\ \E m \in Late, v \in Versions :
       vendor[m] = Missing /\ m < now /\ vendor' = [vendor EXCEPT ![m] = v]
  /\ UNCHANGED <<stored, now, ingestVars, foretold>>

Correct ==
  /\ \E m \in Corrected, v \in Versions :
       vendor[m] \notin {Missing, v} /\ m < now /\ vendor' = [vendor EXCEPT ![m] = v]
  /\ UNCHANGED <<stored, now, ingestVars, foretold>>

AdvanceClock ==
  /\ now < Horizon
  /\ now' = now + 1
  /\ UNCHANGED <<stored, vendor, ingestVars, foretold>>

Work == FetchOk \/ FetchFails \/ Wake \/ FetchAborts \/ ReadStored \/ CommitSave
Ingest == Begin \/ Work \/ Crash
Next == Ingest \/ Publish \/ Correct \/ AdvanceClock

Spec == Init /\ [][Next]_vars
FairSpec == Spec /\ WF_vars(Work)

-----------------------------------------------------------------------------
TypeOK ==
  /\ DOMAIN stored = Names
  /\ \A i \in Names : DOMAIN stored[i] = Minutes
  /\ \A i \in Names, s \in Minutes : stored[i][s] \in RowsOf(s, Width[i]) \cup {None}
  /\ DOMAIN known = Minutes
  /\ vendor \in [Minutes -> Versions \cup {Missing}]
  /\ now \in 0 .. Horizon /\ as_of \in Nat
  /\ pc \in Over \cup {"fetch", "sleep", "read", "commit"}
  /\ cursor \in Start .. End
  /\ failures \in 0 .. MaxAttempts
  /\ DOMAIN fetched \subseteq Minutes /\ fetched \in [DOMAIN fetched -> Served]
  /\ taken \subseteq Minutes /\ offered \subseteq Minutes /\ foretold \subseteq Minutes
  /\ saving \in DOMAIN Intervals
  /\ runs \in 0 .. MaxRuns

(* "Insert new bars and refuse to change stored ones": whatever the        *)
(* vendor corrects and however often a range is fetched again, a stored    *)
(* bar stays as it is.                                                     *)
HistoryIsFrozen ==
  [][\A i \in Names, s \in Minutes :
       stored[i][s] # None => stored'[i][s] = stored[i][s]]_vars

(* A bar is never in the table without every one of its minutes, wherever  *)
(* a run died between its transactions; and none of them was still under   *)
(* way when it was fetched, unless a run was given, before that minute was *)
(* over, an as_of by which it should have been.                            *)
StoredBarsAreWhole ==
  \A i \in Names, s \in Minutes :
    stored[i][s] # None =>
      \A m \in Slot(s, Width[i]) :
        /\ stored["1m"][m] # None
        /\ stored[i][s].observed[m] = Forming => m \in foretold

(* A report accounts for each bar of the windows it stored: inserted,      *)
(* identical, refused, or a slot that lacked a minute - and only once.     *)
ReportAccountsForEveryBar ==
  pc \in {"completed", "incomplete", "aborted"} =>
    \A i \in Names, m \in taken :
      LET bar == <<i, m - (m % Width[i])>> IN
        Cardinality({verdict \in {1, 2, 3, 4} :
                       bar \in <<inserted, identical, conflicts, incomplete>>[verdict]}) = 1

(* A run that says it completed has stored every minute of its range that  *)
(* was over by its as_of and that the vendor had when it began, and every  *)
(* wider bar they make, whatever earlier runs left behind; and it calls no *)
(* day empty that had one.                                                 *)
CompletedRunMissesNothing ==
  pc = "completed" =>
    LET there == {m \in offered : Start <= m /\ m < End} IN
      /\ \A i \in Names : \A s \in WholeSlots([m \in there |-> vendor[m]], Width[i]) :
           stored[i][s] # None
      /\ \A m \in there : DayOf(m) \notin NoDataSessions

(* However often requests fail, a run ends.                                *)
RunEnds == pc = "fetch" ~> pc \in Over
=============================================================================
